------------------------------- MODULE NodeConf -------------------------------
(****************************************************************************)
(* Packages nodeconfsource and cmd/confapply: an operator adds network      *)
(* configurations to a collection, coordinators poll it for the youngest    *)
(* that is enabled, and clients ask some coordinator for a configuration    *)
(* other than theirs.  The id of a configuration is drawn before it is      *)
(* inserted, so an older one may arrive after a younger one.  Coordinators  *)
(* and clients start from configuration 0, their configuration file.        *)
(****************************************************************************)
EXTENDS Integers, FiniteSets, FiniteSetsExt

CONSTANTS
    Coordinators,
    Clients,
    MaxConfs            \* bound: configurations in a behaviour

ASSUME MaxConfsAssumption == MaxConfs \in Nat

VARIABLES
    nodeConf,           \* the collection
    inserting,          \* configurations with an id that are not inserted yet
    confId,             \* the last ObjectID
    served,             \* the configuration each coordinator goes by
    known               \* the configuration each client goes by

confVars == <<nodeConf, inserting, confId, served, known>>

Conf == [id : Nat, nodes : BOOLEAN, enable : BOOLEAN]

ConfTypeOK ==
    /\ nodeConf \in SUBSET Conf
    /\ inserting \in SUBSET Conf
    /\ confId \in 0 .. MaxConfs
    /\ served \in [Coordinators -> Nat]
    /\ known \in [Clients -> Nat]

ConfInit ==
    /\ nodeConf = {}
    /\ inserting = {}
    /\ confId = 0
    /\ served = [c \in Coordinators |-> 0]
    /\ known = [c \in Clients |-> 0]

\* confapply: Add refuses a configuration without nodes (or without a network id) ...
AddConf(nodes, enable) ==
    /\ confId < MaxConfs
    /\ nodes
    /\ confId' = confId + 1
    /\ inserting' = inserting \cup {[id |-> confId', nodes |-> nodes, enable |-> enable]}
    /\ UNCHANGED <<nodeConf, served, known>>

\* ... and inserts the others, under the id it drew.
InsertConf(conf) ==
    /\ conf \in inserting
    /\ inserting' = inserting \ {conf}
    /\ nodeConf' = nodeConf \cup {conf}
    /\ UNCHANGED <<confId, served, known>>

\* The operator's connection is lost before the insert.
LoseConf(conf) ==
    /\ conf \in inserting
    /\ inserting' = inserting \ {conf}
    /\ UNCHANGED <<nodeConf, confId, served, known>>

\* Faulty variant for DisabledIsNotUsed: the filter is dropped.
AnyConf == nodeConf

\* find({enable: true})
Enabled == {conf \in nodeConf : conf.enable}

\* Faulty variant for ServedIsNewer and AllUseTheYoungest: insertion order for id
\* order, a configuration that arrives late is taken for the last.
SomeOf(ids) == CHOOSE i \in ids : TRUE

\* sort({_id: -1})
LastOf(ids) == Max(ids)

\* The nodeconf service asks GetLast every now and then and takes what it returns; an
\* empty answer and the configuration it has leave it as it is.
PollLast(c) ==
    /\ Enabled # {}
    /\ served' = [served EXCEPT ![c] = LastOf({conf.id : conf \in Enabled})]
    /\ UNCHANGED <<nodeConf, inserting, confId, known>>

\* Faulty variant for AllUseTheYoungest: nodes are sent to who has them already.
SendsNodesTo(current, c) == current = served[c]

\* The answer names the configuration in any case, and has its nodes if the client
\* has another one.
SendsNodes(current, c) == current # served[c]

NetworkConfiguration(client, c) ==
    /\ SendsNodes(known[client], c)
    /\ known' = [known EXCEPT ![client] = served[c]]
    /\ UNCHANGED <<nodeConf, inserting, confId, served>>

ConfNext ==
    \/ \E nodes, enable \in BOOLEAN : AddConf(nodes, enable)
    \/ \E conf \in inserting : InsertConf(conf) \/ LoseConf(conf)
    \/ \E c \in Coordinators : PollLast(c)
    \/ \E client \in Clients, c \in Coordinators : NetworkConfiguration(client, c)

ConfSpec == ConfInit /\ [][ConfNext]_confVars

\* Coordinators poll, clients ask every coordinator now and then.
ConfFairness ==
    /\ \A c \in Coordinators : WF_confVars(PollLast(c))
    /\ \A client \in Clients, c \in Coordinators : WF_confVars(NetworkConfiguration(client, c))

----------------------------------------------------------------------------
(* Properties.                                                              *)

\* A configuration that was added without being enabled, or could not be added, is
\* used by no coordinator and no client.
DisabledIsNotUsed ==
    \A i \in {served[c] : c \in Coordinators} \cup {known[c] : c \in Clients} :
        i # 0 => \E conf \in nodeConf : conf.id = i /\ conf.nodes /\ conf.enable

\* A coordinator never goes back to an older configuration, in whatever order the
\* configurations arrive.
ServedIsNewer == [][\A c \in Coordinators : served[c] <= served'[c]]_confVars

YoungestId(confs) == Max({0} \cup {conf.id : conf \in confs})

\* In the end all coordinators and clients use the youngest configuration that was
\* enabled, although a client may be sent back and forth between coordinators that
\* have not polled at the same time.
AllUseTheYoungest ==
    <>[]( /\ \A c \in Coordinators : served[c] = YoungestId({f \in nodeConf : f.enable})
          /\ \A c \in Clients : known[c] = YoungestId({f \in nodeConf : f.enable}) )

=============================================================================
