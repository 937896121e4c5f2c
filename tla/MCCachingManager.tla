-------------------------- MODULE MCCachingManager --------------------------
\* CachingManager with servables of one resource unit each.
EXTENDS CachingManager

CONSTANT l1

OneUnit == [i \in Ids |-> 1]
OneThread == {{l1}}
=============================================================================
