---------------------------- MODULE MCEqosDevice ----------------------------
EXTENDS EqosDevice

\* What the firmware describes; ranges and interrupts too many, too small, missing.
SomeResources ==
  {<<"memory", "interrupt">>, <<"interrupt", "small", "memory", "interrupt">>,
   <<"memory", "other", "memory">>, <<"small", "interrupt">>}
=============================================================================
