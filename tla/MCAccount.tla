------------------------------ MODULE MCAccount -----------------------------
(***************************************************************************)
(* Two requests at a time for what one user has.  The parts of Account are *)
(* independent of each other, so a behaviour is about one of them.         *)
(***************************************************************************)
EXTENDS Account, TLC

CONSTANTS r1, r2, n1, n2, n3, t1, t2, t3, free, one

VARIABLE part

AGroupList == {<<>>, <<t2, t1, t2, t3>>}
AStepList == {<<>>, <<<<0, t1>>>>, <<<<0, t2>>, <<1, t1>>>>, <<<<0, t1>>, <<0, t2>>>>}
AnOrderList == {<<>>, <<t1>>, <<t2, t2>>, <<free>>}
OnePick == one :> 1

ASSUME Groups!GroupAssumption
ASSUME Rows!WorkspaceAssumption
ASSUME Login!SessionAssumption
ASSUME Shop!StorefrontAssumption
ASSUME Realm!KeysAssumption

groupVars == <<groups, groupReq, made, groupsBegun, raced>>
rowVars == <<kind, settings, template, favorites, pipeline, entry, share, day, open, begun, views>>
loginVars == <<now, redis, stamp, sent, tokens, cookies, confirmed, user, adding, req, calls,
               signedOut, emails, lost>>
shopVars == <<minute, region, release, counter, orders, ask, asks, answers>>
realmVars == <<keyClock, newest, withdrawn, clients, cached, verify, verified>>

\* The names of the groups and of the open requests.  The other names are
\* interchangeable, so a request that brings a new one brings the first of them.
InUse ==
  {groups[g].name : g \in DOMAIN groups}
    \cup {groupReq[r].name : r \in {q \in Requests : groupReq[q].op \in {"create", "rename"}}}
NamesInOrder ==
  /\ n2 \in InUse' \ InUse => n1 \in InUse
  /\ n3 \in InUse' \ InUse => {n1, n2} \subseteq InUse

MCInit ==
  /\ part \in {"groups", "rows", "login", "first", "token", "shop", "realm"}
  /\ Groups!Init /\ Rows!Init /\ Login!Init /\ Init /\ Shop!Init /\ Realm!Init
  /\ part # "rows" => kind = "settings"
  /\ part \notin {"login", "first"} => redis = "up"
  /\ part # "shop" => region = None

\* Three requests of a user whose address stays unconfirmed, or two of one who
\* may confirm it.
MCNext ==
  /\ UNCHANGED part
  /\ \/ part = "groups" /\ Groups!Next /\ NamesInOrder
                         /\ UNCHANGED <<rowVars, loginVars, tvars, shopVars, realmVars>>
     \/ part = "rows"   /\ Rows!Next   /\ UNCHANGED <<groupVars, loginVars, tvars, shopVars, realmVars>>
     \/ /\ part \in {"login", "first"} /\ Login!Next
        /\ (part = "login" /\ ~confirmed') \/ (part = "first" /\ calls' <= 2)
        /\ UNCHANGED <<groupVars, rowVars, tvars, shopVars, realmVars>>
     \/ part = "token"  /\ Next        /\ UNCHANGED <<groupVars, rowVars, loginVars, shopVars, realmVars>>
     \/ part = "shop"   /\ Shop!Next   /\ UNCHANGED <<groupVars, rowVars, loginVars, tvars, realmVars>>
     \/ part = "realm"  /\ Realm!Next  /\ UNCHANGED <<groupVars, rowVars, loginVars, tvars, shopVars>>

MCSpec == MCInit /\ [][MCNext]_<<part, groupVars, rowVars, loginVars, tvars, shopVars, realmVars>>

Symmetry == Permutations(Requests)
=============================================================================
