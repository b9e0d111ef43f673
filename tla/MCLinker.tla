------------------------------ MODULE MCLinker ------------------------------
EXTENDS Linker
CONSTANTS A, B
MCPlan == <<A, B, A, Program>>
=============================================================================
