------------------------------- MODULE MCStores -------------------------------
(* Small instances of the components that share no state with each other: a   *)
(* behaviour exercises one of them, which `part` names, and leaves the others *)
(* at rest.                                                                   *)
EXTENDS AccountLimit, AclEventLog, NodeConf, IdentityRepo

VARIABLE part

storesVars == <<part, limitVars, eventVars, confVars, repoVars>>

StoresInit ==
    /\ part \in {"limits", "events", "conf", "identities"}
    /\ LimitInit
    /\ EventInit
    /\ ConfInit
    /\ RepoInit

StoresNext ==
    /\ \/ part = "limits" /\ LimitNext /\ UNCHANGED <<eventVars, confVars, repoVars>>
       \/ part = "events" /\ EventNext /\ UNCHANGED <<limitVars, confVars, repoVars>>
       \/ part = "conf" /\ ConfNext /\ UNCHANGED <<limitVars, eventVars, repoVars>>
       \/ part = "identities" /\ RepoNext /\ UNCHANGED <<limitVars, eventVars, confVars>>
    /\ UNCHANGED part

StoresSpec ==
    /\ StoresInit
    /\ [][StoresNext]_storesVars
    /\ part = "conf" => ConfFairness

StoresTypeOK == LimitTypeOK /\ EventTypeOK /\ ConfTypeOK /\ RepoTypeOK

=============================================================================
