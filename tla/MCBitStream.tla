------------------------------ MODULE MCBitStream ------------------------------
EXTENDS BitStream

MCSources == {<<165, 90>>, <<255, 3>>}
MCTypedValue == {<<129>>}
MCString == {<<7>>}
===============================================================================
