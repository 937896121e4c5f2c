-------------------- MODULE FileSystemStoragePathSource --------------------
(***************************************************************************)
(* FileSystemStoragePathSource (tensorflow_serving/sources/storage_path/   *)
(* file_system_storage_path_source.{h,cc}): a thread polls the base path   *)
(* of every configured servable and tells the target which versions to     *)
(* aspire to; UpdateConfig() takes back the servables it drops.            *)
(*                                                                         *)
(* A poll holds mu_ from its first look at the file system to its last     *)
(* callback, and so does UpdateConfig(): while found is not empty the      *)
(* polling thread has that lock.  The base paths of one poll are read in   *)
(* one step.  The children of a directory are numbered in the order of     *)
(* their names, the order GetChildren()'s result is put in.                *)
(***************************************************************************)
EXTENDS Integers, FiniteSets

CONSTANTS
    Names,         \* the servable names
    Paths,         \* the base paths
    Children,      \* children of base paths: 1, 2, ... in the order of their names
    NotANumber,    \* what a name that is not a number is parsed to
    Number         \* [Children -> Nat \cup {NotANumber}]: ParseVersionNumber()

ASSUME ChildrenAssumption ==
    /\ Children \subseteq Nat /\ IsFiniteSet(Children)
    /\ NotANumber \notin Nat
    /\ Number \in [Children -> Nat \cup {NotANumber}]

VARIABLES
    children,        \* children[p]: {the children of p}, {} if p does not exist
    source_config,   \* config_: a servable to monitor for each name it has
    found            \* versions_by_servable_name still to be handed on by a poll

sourceVars == <<source_config, found>>
-----------------------------------------------------------------------------
Numeric(kids) == {c \in kids : Number[c] # NotANumber}

\* Of two children with the same number the later one counts.
IndexChildrenByVersion(kids) ==
    {c \in Numeric(kids) : \A d \in Numeric(kids) : Number[d] = Number[c] => d =< c}

AtLeastOne(n) == IF n > 1 THEN n ELSE 1

LatestByName(kids, num_versions) ==    \* faulty: in the order of names
    LET children_by_version == IndexChildrenByVersion(kids)
    IN {c \in children_by_version :
            Cardinality({d \in children_by_version : d > c}) < AtLeastOne(num_versions)}

\* The children with the highest numbers.  A policy that asks for no version
\* is given one.
AspireLatestVersions(kids, num_versions) ==
    LET children_by_version == IndexChildrenByVersion(kids)
    IN {c \in children_by_version :
            Cardinality({d \in children_by_version : Number[d] > Number[c]})
              < AtLeastOne(num_versions)}

AspireAllVersions(kids) == Numeric(kids)

AspireSpecificVersions(kids, versions) ==
    {c \in IndexChildrenByVersion(kids) : Number[c] \in versions}

\* The children PollFileSystemForServable() aspires to.
Aspire(policy, kids) ==
    CASE policy.choice = "latest" -> AspireLatestVersions(kids, policy.num_versions)
      [] policy.choice = "all" -> AspireAllVersions(kids)
      [] policy.choice = "specific" -> AspireSpecificVersions(kids, policy.versions)
-----------------------------------------------------------------------------
SourceInit ==
    /\ source_config = <<>>
    /\ found = <<>>

Polling == DOMAIN found # {}

PollFileSystemForConfig(config) ==
    [n \in DOMAIN config |->
        Aspire(config[n].policy, UNION children[config[n].base_path])]

\* A base path that does not exist ends the poll of all servables.  The caller
\* says whose callbacks would bring something about; the others are left out.
BeginPoll(servables) ==
    /\ ~Polling
    /\ \A n \in DOMAIN source_config : children[source_config[n].base_path] # {}
    /\ found' = [n \in servables |-> PollFileSystemForConfig(source_config)[n]]
    /\ UNCHANGED source_config

\* The callback for one servable: streams are independent of each other, so
\* their order does not matter.
InvokeCallback(n) ==
    /\ n \in DOMAIN found
    /\ found' = [m \in DOMAIN found \ {n} |-> found[m]]
    /\ UNCHANGED source_config

AddedServables(new_config) == DOMAIN new_config \ DOMAIN source_config    \* faulty

GetDeletedServables(new_config) == DOMAIN source_config \ DOMAIN new_config

\* UpdateConfig() after it has taken back the deleted servables.
UpdateConfig(new_config) ==
    /\ ~Polling
    /\ source_config' = new_config
    /\ UNCHANGED found
=============================================================================
