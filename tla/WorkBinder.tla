----------------------------- MODULE WorkBinder -----------------------------
(***************************************************************************)
(* The work binder (app/api/v1/routers/work_binder.py and the pure services *)
(* it calls) on one project: candidates imported from an implementation     *)
(* plan are promoted to work packages, a package is given work statements,  *)
(* and these are edited, moved and stabilized.                              *)
(*                                                                          *)
(* A package or a statement is one JSON column.  A handler loads it, changes *)
(* a copy, and its session's flush writes the whole copy back (nothing when *)
(* the copy equals what was loaded); no row is locked or versioned.  Loads, *)
(* mint_display_id's SELECT MAX and the closing flush with its commit are   *)
(* steps of their own.                                                      *)
(*                                                                          *)
(* A package or statement is numbered by its display id, so its place in    *)
(* the sequence is its number.  ws_index entries carry the order_key of     *)
(* their statement (add_ws_to_wp_index, build_ws_index_entries and the      *)
(* screen's reorder all copy it), so an index is the set of its statements. *)
(*                                                                          *)
(* PATCH stores whatever fields it is sent, bar a few, and a reorder any     *)
(* entries.  Modelled are patches of content and of a statement's state, and *)
(* the screen's own lists.  Left out are patches of what names and links the *)
(* documents: wp_id, ws_index, source_candidate_ids and revision of a        *)
(* package, ws_id, parent_wp_id, order_key and revision of a statement.      *)
(* With them an index is whatever a client says.                            *)
(***************************************************************************)
EXTENDS Naturals, Sequences, SequencesExt

CONSTANTS
    Candidates,    \* candidate ids in the implementation plans
    Clients,       \* browsers and scripts, one request at a time each
    Crowds,        \* who may be there: each client's operations
    MaxPackages,   \* bound: work packages
    MaxStatements, \* bound: work statements
    MaxEditions    \* bound: editions of a package

Ops == {"import", "promote", "patch", "create", "propose", "reorder", "edit",
        "stabilize"}

ASSUME BinderAssumption ==
    /\ Crowds \subseteq [Clients -> SUBSET Ops]
    /\ MaxPackages \in Nat /\ MaxStatements \in Nat /\ MaxEditions \in Nat

VARIABLES
    crowd,      \* the crowd of this behaviour
    imported,   \* work_package_candidate documents
    packages,   \* work_package documents, by number
    statements, \* work_statement documents, by number
    req,        \* req[c]: the request client c has in flight
    screen      \* screen[c]: the package c looks at and its list of statements

vars == <<crowd, imported, packages, statements, req, screen>>

\* IN_PROGRESS also stands for the states after it and for any string a patch
\* writes: a stabilization refuses them all.
States == {"DRAFT", "READY", "IN_PROGRESS"}

\* pinned: governance_pins.ta_version_id is no longer "pending".
Packages ==
    [source : Candidates, pinned : BOOLEAN, done : BOOLEAN, index : SUBSET Nat,
     edition : Nat]

\* complete: every field stabilization requires is filled.
Statements ==
    [wp : Nat, key : Nat, state : States, complete : BOOLEAN]

\* A statement as a handler loaded it.
Copies == [ws : Nat, doc : Statements]

Idle == [op |-> "idle"]
Requests ==
    {Idle}
    \cup [op : {"promote"}, source : Candidates, id : Nat]
    \cup [op : {"create", "propose"}, wp : Nat, copy : Packages, ids : SUBSET Nat]
    \cup [op : {"patch"}, wp : Nat, copy : Packages]
    \cup [op : {"reorder"}, wp : Nat, copy : Packages, order : Seq(Nat)]
    \cup [op : {"edit", "stabilize"}, copies : SUBSET Copies]

NoScreen == [wp |-> 0, order |-> <<>>]

TypeOK ==
    /\ crowd \in Crowds
    /\ imported \subseteq Candidates
    /\ packages \in Seq(Packages)
    /\ statements \in Seq(Statements)
    /\ req \in [Clients -> Requests]
    /\ screen \in [Clients -> [wp : Nat, order : Seq(Nat)]]

Init ==
    /\ crowd \in Crowds
    /\ imported = {}
    /\ packages = <<>>
    /\ statements = <<>>
    /\ req = [c \in Clients |-> Idle]
    /\ screen = [c \in Clients |-> NoScreen]

Begins(c, r) ==
    /\ r.op \in crowd[c] /\ req[c] = Idle
    /\ req' = [req EXCEPT ![c] = r]

Ends(c) == req' = [req EXCEPT ![c] = Idle]

(***************************************************************************)
(* Candidates and packages                                                  *)
(***************************************************************************)

\* POST /import-candidates: what is there is skipped.  A candidate inserted
\* between the look and the flush turns the request into a 409 that changes
\* nothing (idx_documents_latest_display).
Imports(c) ==
    /\ "import" \in crowd[c] /\ req[c] = Idle
    /\ \E plan \in SUBSET Candidates : imported' = imported \cup plan
    /\ UNCHANGED <<crowd, packages, statements, req, screen>>

\* Mutant: no look at the packages there are.
PromoteLooksNot(c) ==
    /\ \E k \in imported : Begins(c, [op |-> "promote", source |-> k, id |-> 0])
    /\ UNCHANGED <<crowd, imported, packages, statements, screen>>

\* POST /promote: a package that names the candidate as its source is
\* returned as it is.
PromoteLooks(c) ==
    /\ \E k \in imported :
          /\ \A p \in DOMAIN packages : packages[p].source # k
          /\ Begins(c, [op |-> "promote", source |-> k, id |-> 0])
    /\ UNCHANGED <<crowd, imported, packages, statements, screen>>

\* mint_display_id, then build_promoted_wp.
PromoteMints(c) ==
    /\ req[c].op = "promote" /\ req[c].id = 0
    /\ Len(packages) < MaxPackages
    /\ req' = [req EXCEPT ![c].id = Len(packages) + 1]
    /\ UNCHANGED <<crowd, imported, packages, statements, screen>>

\* The unique index refuses a number that was inserted meanwhile.
PromoteInserts(c) ==
    /\ req[c].op = "promote" /\ req[c].id # 0
    /\ packages' =
          IF req[c].id \in DOMAIN packages THEN packages
          ELSE Append(packages, [source |-> req[c].source, pinned |-> FALSE,
                                 done |-> FALSE, index |-> {}, edition |-> 1])
    /\ Ends(c)
    /\ UNCHANGED <<crowd, imported, statements, screen>>

\* apply_edition_bump on what the handler makes of its copy; a flush with
\* nothing changed writes nothing.
Saved(p, copy, new) ==
    IF new = copy THEN packages
    ELSE [packages EXCEPT ![p] = [new EXCEPT !.edition = copy.edition + 1]]

\* PATCH /wp/{wp_id}: any field of the package but those of a statement.
PatchLoads(c) ==
    /\ \E p \in DOMAIN packages :
          /\ packages[p].edition < MaxEditions
          /\ Begins(c, [op |-> "patch", wp |-> p, copy |-> packages[p]])
    /\ UNCHANGED <<crowd, imported, packages, statements, screen>>

PatchSaves(c) ==
    /\ req[c].op = "patch"
    /\ \E pinned, done \in BOOLEAN :
          packages' = Saved(req[c].wp, req[c].copy,
                            [req[c].copy EXCEPT !.pinned = pinned, !.done = done])
    /\ Ends(c)
    /\ UNCHANGED <<crowd, imported, statements, screen>>

(***************************************************************************)
(* New statements                                                           *)
(***************************************************************************)

\* POST /wp/{wp_id}/work-statements: validate_can_create_ws.
CreateLoads(c) ==
    /\ \E p \in DOMAIN packages :
          /\ packages[p].pinned /\ packages[p].edition < MaxEditions
          /\ Begins(c, [op |-> "create", wp |-> p, copy |-> packages[p], ids |-> {}])
    /\ UNCHANGED <<crowd, imported, packages, statements, screen>>

\* POST /propose-ws: validate_proposal_gates, for a project whose technical
\* architecture is ready; then the language model writes.
ProposeLoads(c) ==
    /\ \E p \in DOMAIN packages :
          /\ packages[p].index = {} /\ packages[p].edition < MaxEditions
          /\ Begins(c, [op |-> "propose", wp |-> p, copy |-> packages[p], ids |-> {}])
    /\ UNCHANGED <<crowd, imported, packages, statements, screen>>

\* The task raises, or its output holds no statement.
ProposeFails(c) ==
    /\ req[c].op = "propose" /\ req[c].ids = {}
    /\ Ends(c)
    /\ UNCHANGED <<crowd, imported, packages, statements, screen>>

\* mint_display_id for the first of them, counted on locally for the rest.
StatementsMinted(c) ==
    /\ req[c].op \in {"create", "propose"} /\ req[c].ids = {}
    /\ \E k \in 1..(IF req[c].op = "create" THEN 1 ELSE MaxStatements) :
          /\ Len(statements) + k <= MaxStatements
          /\ req' = [req EXCEPT ![c].ids = (Len(statements) + 1)..(Len(statements) + k)]
    /\ UNCHANGED <<crowd, imported, packages, statements, screen>>

\* generate_order_key on the index as it was loaded; keys count from 1.
OrderKey(index) == 1 + Max({statements[w].key : w \in index} \cup {0})

NewStatement(c, w, complete) ==
    [wp |-> req[c].wp, state |-> "DRAFT", complete |-> complete,
     key |-> OrderKey(req[c].copy.index) + w - Len(statements) - 1]

\* Mutant: the index is written in a transaction of its own.
StatementsInsertedApart(c) ==
    /\ req[c].op \in {"create", "propose"} /\ req[c].ids # {}
    /\ \E complete \in [req[c].ids -> BOOLEAN] :
          statements' = [w \in DOMAIN statements \cup req[c].ids |->
              IF w \in DOMAIN statements THEN statements[w]
              ELSE NewStatement(c, w, complete[w])]
    /\ packages' = Saved(req[c].wp, req[c].copy,
                         [req[c].copy EXCEPT !.index = @ \cup req[c].ids])
    /\ Ends(c)
    /\ screen' = [screen EXCEPT ![c] = NoScreen]
    /\ UNCHANGED <<crowd, imported>>

\* Mutant: the new entries replace the index.
StatementsInsertedAlone(c) ==
    /\ req[c].op \in {"create", "propose"} /\ req[c].ids # {}
    /\ IF req[c].ids \cap DOMAIN statements # {}
       THEN UNCHANGED <<packages, statements>>
       ELSE /\ \E complete \in [req[c].ids -> BOOLEAN] :
                  statements' = [w \in DOMAIN statements \cup req[c].ids |->
                      IF w \in DOMAIN statements THEN statements[w]
                      ELSE NewStatement(c, w, complete[w])]
            /\ packages' = Saved(req[c].wp, req[c].copy,
                                 [req[c].copy EXCEPT !.index = req[c].ids])
    /\ Ends(c)
    /\ screen' = [screen EXCEPT ![c] = NoScreen]
    /\ UNCHANGED <<crowd, imported>>

\* The statements and the package's index are flushed together; a number
\* that was inserted meanwhile refuses both.
StatementsInserted(c) ==
    /\ req[c].op \in {"create", "propose"} /\ req[c].ids # {}
    /\ IF req[c].ids \cap DOMAIN statements # {}
       THEN UNCHANGED <<packages, statements>>
       ELSE /\ \E complete \in [req[c].ids -> BOOLEAN] :
                  statements' = [w \in DOMAIN statements \cup req[c].ids |->
                      IF w \in DOMAIN statements THEN statements[w]
                      ELSE NewStatement(c, w, complete[w])]
            /\ packages' = Saved(req[c].wp, req[c].copy,
                                 [req[c].copy EXCEPT !.index = @ \cup req[c].ids])
    /\ Ends(c)
    /\ screen' = [screen EXCEPT ![c] = NoScreen]
    /\ UNCHANGED <<crowd, imported>>

(***************************************************************************)
(* Moving a statement                                                       *)
(***************************************************************************)

OfPackage(p) == {w \in DOMAIN statements : statements[w].wp = p}

\* GET /wp/{wp_id}/work-statements: those of the index in its order, then the
\* others as the database returns them.
Lists(c) ==
    /\ "reorder" \in crowd[c] /\ req[c] = Idle /\ screen[c] = NoScreen
    /\ \E p \in DOMAIN packages :
          \E first \in SetToSeqs(packages[p].index),
             rest \in SetToSeqs(OfPackage(p) \ packages[p].index) :
              /\ \A i, j \in DOMAIN first :
                    i < j => statements[first[i]].key <= statements[first[j]].key
              /\ screen' = [screen EXCEPT ![c] = [wp |-> p, order |-> first \o rest]]
    /\ UNCHANGED <<crowd, imported, packages, statements, req>>

\* handleMoveWs swaps two neighbours on the screen and sends the whole list,
\* each statement with its own order_key (PUT /wp/{wp_id}/ws-index).
MoveLoads(c) ==
    LET s == screen[c].order IN
    /\ screen[c] # NoScreen
    /\ ~packages[screen[c].wp].done
    /\ packages[screen[c].wp].edition < MaxEditions
    /\ \E i \in DOMAIN s :
          /\ i + 1 \in DOMAIN s
          /\ Begins(c, [op |-> "reorder", wp |-> screen[c].wp,
                        copy |-> packages[screen[c].wp],
                        order |-> [s EXCEPT ![i] = s[i + 1], ![i + 1] = s[i]]])
    /\ UNCHANGED <<crowd, imported, packages, statements, screen>>

\* reorder_ws_index replaces the index by the list, sorted by order_key.
MoveSaves(c) ==
    /\ req[c].op = "reorder"
    /\ packages' = Saved(req[c].wp, req[c].copy,
                         [req[c].copy EXCEPT !.index = Range(req[c].order)])
    /\ screen' = [screen EXCEPT ![c].order = req[c].order]
    /\ Ends(c)
    /\ UNCHANGED <<crowd, imported, statements>>

(***************************************************************************)
(* Editing and stabilizing statements                                       *)
(***************************************************************************)

Loaded(W) == {[ws |-> w, doc |-> statements[w]] : w \in W}

\* PATCH /work-statements/{ws_id}
EditLoads(c) ==
    /\ \E w \in DOMAIN statements :
          Begins(c, [op |-> "edit", copies |-> Loaded({w})])
    /\ UNCHANGED <<crowd, imported, packages, statements, screen>>

WriteBack(copies) ==
    statements' = [w \in DOMAIN statements |->
                      IF \E x \in copies : x.ws = w
                      THEN (CHOOSE x \in copies : x.ws = w).doc ELSE statements[w]]

\* validate_ws_update_fields refuses a package's fields and lets the state
\* through, which no transition is asked for.
EditSaves(c) ==
    /\ req[c].op = "edit"
    /\ \E complete \in BOOLEAN, state \in States :
          WriteBack({[x EXCEPT !.doc = [@ EXCEPT !.complete = complete, !.state = state]]
                        : x \in req[c].copies})
    /\ Ends(c)
    /\ UNCHANGED <<crowd, imported, packages, screen>>

Drafts(W) == {w \in W : statements[w].state = "DRAFT"}

\* POST /work-statements/{ws_id}/stabilize and /wp/{wp_id}/stabilize:
\* validate_ws_transition, and validate_stabilization of every draft.
StabilizeLoads(c) ==
    /\ \E W \in {{w} : w \in DOMAIN statements}
               \cup {OfPackage(p) : p \in DOMAIN packages} :
          /\ Drafts(W) # {}
          /\ \A w \in Drafts(W) : statements[w].complete
          /\ Begins(c, [op |-> "stabilize", copies |-> Loaded(Drafts(W))])
    /\ UNCHANGED <<crowd, imported, packages, statements, screen>>

\* Mutant: a state too far.
StabilizeSavesAccepted(c) ==
    /\ req[c].op = "stabilize"
    /\ WriteBack({[x EXCEPT !.doc.state = "ACCEPTED"] : x \in req[c].copies})
    /\ Ends(c)
    /\ UNCHANGED <<crowd, imported, packages, screen>>

\* Mutant: the state alone is written, to the row as it is now.
StabilizeSavesState(c) ==
    /\ req[c].op = "stabilize"
    /\ WriteBack({[x EXCEPT !.doc = [statements[x.ws] EXCEPT !.state = "READY"]]
                      : x \in req[c].copies})
    /\ Ends(c)
    /\ UNCHANGED <<crowd, imported, packages, screen>>

StabilizeSaves(c) ==
    /\ req[c].op = "stabilize"
    /\ WriteBack({[x EXCEPT !.doc.state = "READY"] : x \in req[c].copies})
    /\ Ends(c)
    /\ UNCHANGED <<crowd, imported, packages, screen>>

Next ==
    \E c \in Clients :
        \/ Imports(c) \/ PromoteLooks(c) \/ PromoteMints(c) \/ PromoteInserts(c)
        \/ PatchLoads(c) \/ PatchSaves(c)
        \/ CreateLoads(c) \/ ProposeLoads(c) \/ ProposeFails(c)
        \/ StatementsMinted(c) \/ StatementsInserted(c)
        \/ Lists(c) \/ MoveLoads(c) \/ MoveSaves(c)
        \/ EditLoads(c) \/ EditSaves(c) \/ StabilizeLoads(c) \/ StabilizeSaves(c)

Spec == Init /\ [][Next]_vars

-----------------------------------------------------------------------------

\* What an index lists is a statement of that package, whoever minted,
\* inserted or reordered at the same time (create_work_statement,
\* propose_work_statements, reorder_ws_index).
IndexNamesItsOwn ==
    \A p \in DOMAIN packages :
        \A w \in packages[p].index : w \in DOMAIN statements /\ statements[w].wp = p

\* What a stabilization makes READY is complete at that moment, whatever was
\* edited since it validated the drafts (stabilize_work_package).
StabilizesComplete ==
    [][\A c \in Clients, w \in DOMAIN statements :
           /\ req[c].op = "stabilize" /\ req'[c] = Idle
           /\ statements[w].state = "DRAFT" /\ statements'[w].state = "READY"
           => statements'[w].complete]_vars

\* With one client at a time the binder loses nothing.
Alone == \E c \in Clients : \A d \in Clients \ {c} : crowd[d] = {}

\* Every statement of a package is in its index (add_ws_to_wp_index,
\* build_ws_index_entries, and no reorder drops one).
NoneLeftOut ==
    Alone => \A p \in DOMAIN packages : OfPackage(p) \subseteq packages[p].index

\* A candidate is promoted to one package (_find_wp_by_source_wpc).
PromotedOnce ==
    Alone => \A p, q \in DOMAIN packages :
                 packages[p].source = packages[q].source => p = q
=============================================================================
