---------------------- MODULE MCAspiredVersionsManager ----------------------
\* Instances of AspiredVersionsManager for TLC.
EXTENDS AspiredVersionsManager

CONSTANTS l1

\* Two versions of one stream.
TwoVersions == {<<"a", 1>>, <<"a", 2>>}

MCNames == {"a"}
MCName == [i \in Ids |-> i[1]]
MCVersion == [i \in Ids |-> i[2]]

OneUnit == [i \in Ids |-> 1]

\* Sources that always want some versions, that may want none, and that want
\* one version at a time.
SomeVersions == SUBSET Ids \ {{}}
AnyVersions == SUBSET Ids
OneVersion == {{i} : i \in Ids}

InlineOnly == {{}}
OneThread == {{l1}}
=============================================================================
