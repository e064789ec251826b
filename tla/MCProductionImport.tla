-------------------------- MODULE MCProductionImport --------------------------
(* Model-checking instance of what happens to the file beside the server: the
   import (a user, an organisation whose history names the user, and a membership
   that references both; the second manifest brings the user and the organisation
   again, the third is not in order and the fourth lacks a parent), the opening of the file by an older, a newer and a forked release, and
   the publishing of the outbox by two publishers.  They share no state here: each
   is explored while the others have not begun. *)
EXTENDS ProductionImport, StoreFile, Publication

MCId == {"user", "organisation", "membership"}
MCRecords == [first |-> <<"user", "organisation", "membership">>,
              second |-> <<"user", "organisation">>,
              third |-> <<"organisation", "user">>,
              fourth |-> <<"user", "membership">>]
MCPolicy == [m \in Manifest |-> IF m = "second" THEN <<"reconcile_only", "create_or_reconcile">>
                                ELSE [i \in 1..3 |-> "create_or_reconcile"]]
MCRank == [user |-> 0, organisation |-> 1, membership |-> 3]
MCParents == [user |-> {}, organisation |-> {}, membership |-> {"user", "organisation"}]
MCNeeds == [user |-> {}, organisation |-> {"user"}, membership |-> {"user", "organisation"}]
MCRefs == [user |-> {}, organisation |-> {}, membership |-> {"user", "organisation"}]

MCRelease == [older |-> <<"one">>, newer |-> <<"one", "two", "three">>, fork |-> <<"one", "other">>]

Importing == SFInit /\ PbInit /\ ImNext /\ UNCHANGED <<sfVars, pbVars>>
Opening(A) == ImInit /\ PbInit /\ A /\ UNCHANGED <<imVars, pbVars>>
Publishing(A) == ImInit /\ SFInit /\ A /\ UNCHANGED <<imVars, sfVars>>

FileVars == <<imVars, sfVars, pbVars>>

FileInit == ImInit /\ SFInit /\ PbInit

FileSpec ==
    /\ FileInit
    /\ [][Importing \/ Opening(SFNext) \/ Publishing(PbNext)]_FileVars
    /\ \A p \in Process : WF_FileVars(Opening(ProcessNext(p)))
    /\ \A p \in Publisher : WF_FileVars(Publishing(PublisherNext(p)))
=============================================================================
