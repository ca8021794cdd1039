----------------------------- MODULE MCTextFrame -----------------------------
EXTENDS TextFrame

MCTextLens == 0..200
=============================================================================
