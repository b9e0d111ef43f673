------------------------------- MODULE MCText --------------------------------
EXTENDS TextSafe
CONSTANTS Old, New
MCGranted == Old :> <<"x">>
MCStrings == {<<"x", "cr", "lf">>}
=============================================================================
