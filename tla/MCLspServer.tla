----------------------------- MODULE MCLspServer -----------------------------
EXTENDS LspServer, TLC

CONSTANT d1

===============================================================================
