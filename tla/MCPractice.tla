----------------------------- MODULE MCPractice -----------------------------
EXTENDS Practice, TLC
=============================================================================
