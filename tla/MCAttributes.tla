----------------------------- MODULE MCAttributes ------------------------------
EXTENDS Attributes

NoNanos == {<<1, 0>>}
WithNanos == {<<1, 1>>}
===============================================================================
