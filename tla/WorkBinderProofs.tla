-------------------------- MODULE WorkBinderProofs --------------------------
(***************************************************************************)
(* Proofs about module WorkBinder, for any candidates, clients, crowds and *)
(* bounds: the state is well typed, an index names statements of its own   *)
(* package only, and what a stabilization makes READY is complete.  Where  *)
(* one client is at work (Solo), the copies it carries are the rows, so    *)
(* that an index leaves no statement out, a candidate makes one package,   *)
(* and a READY statement is not written back to DRAFT.                     *)
(***************************************************************************)
EXTENDS WorkBinder, FiniteSetTheorems, WellFoundedInduction, TLAPS

(***************************************************************************)
(* Order keys: a set of naturals with a bound has a maximum.               *)
(***************************************************************************)
LEMMA MaxOfBounded ==
    ASSUME NEW S \in SUBSET Nat, S # {}, NEW b \in Nat, \A y \in S : y <= b
    PROVE  Max(S) \in S /\ \A y \in S : y <= Max(S)
<1> DEFINE bounds == {n \in Nat : \A y \in S : y <= n}
           less == {pair \in Nat \X Nat : pair[1] < pair[2]}
<1>1. IsWellFoundedOn(less, Nat)
  BY NatLessThanWellFounded DEF OpToRel
<1>2. PICK m \in bounds : \A n \in bounds : ~ (<<n, m>> \in less)
  <2>1. bounds \subseteq Nat /\ bounds # {}
    OBVIOUS
  <2> HIDE DEF bounds, less
  <2> QED BY <1>1, <2>1, WFMin
<1>3. m \in S
  <2>1. SUFFICES ASSUME m \notin S PROVE FALSE
    OBVIOUS
  <2>2. m \in Nat /\ \A y \in S : y \in Nat /\ y < m
    BY <1>2, <2>1
  <2>3. m - 1 \in bounds
    <3>1. PICK z \in S : TRUE
      OBVIOUS
    <3>2. m - 1 \in Nat
      BY <2>2, <3>1
    <3>3. \A y \in S : y <= m - 1
      BY <2>2
    <3> QED BY <3>2, <3>3
  <2>4. <<m - 1, m>> \in less
    BY <2>2, <2>3
  <2> QED BY <1>2, <2>3, <2>4
<1>4. \A y \in S : m >= y
  BY <1>2
<1> QED BY <1>3, <1>4 DEF Max

(***************************************************************************)
(* The invariant: what the row says of an index, every copy in flight and  *)
(* every screen says of its list.                                          *)
(***************************************************************************)
Own(p, W) == \A w \in W : w \in DOMAIN statements /\ statements[w].wp = p

\* Numbers a request minted: a run of them, none below the first that was free.
Fresh(ids) ==
    \E n \in 0 .. Len(statements), k \in Nat : ids = (n + 1) .. (n + k)

\* A copy never disagrees with its statement on the package and the key.
Mirrors(x) ==
    /\ x.ws \in DOMAIN statements
    /\ x.doc.wp = statements[x.ws].wp /\ x.doc.key = statements[x.ws].key

Carries(r) ==
    /\ r.op \in {"create", "propose", "patch", "reorder"} =>
          r.wp \in DOMAIN packages /\ Own(r.wp, r.copy.index)
    /\ r.op \in {"create", "propose"} => Fresh(r.ids)
    /\ r.op = "reorder" => Own(r.wp, Range(r.order))
    /\ r.op \in {"edit", "stabilize"} => \A x \in r.copies : Mirrors(x)
    /\ r.op = "stabilize" => \A x \in r.copies : x.doc.complete

Shows(s) == s # NoScreen => s.wp \in DOMAIN packages /\ Own(s.wp, Range(s.order))

\* A list is sent to the package it was shown for.
Sends(r, s) == r.op = "reorder" => s.wp = r.wp

KeysBounded == \E b \in Nat : \A w \in DOMAIN statements : statements[w].key <= b

IndexesOwn == \A p \in DOMAIN packages : Own(p, packages[p].index)

Inv ==
    /\ TypeOK
    /\ KeysBounded
    /\ IndexesOwn
    /\ \A c \in Clients :
          Carries(req[c]) /\ Shows(screen[c]) /\ Sends(req[c], screen[c])

LEMMA InvInitially == Init => Inv
<1> SUFFICES ASSUME Init PROVE Inv
  OBVIOUS
<1>1. TypeOK
  BY DEF Init, TypeOK, Requests, NoScreen
<1>2. KeysBounded /\ IndexesOwn
  BY DEF Init, KeysBounded, IndexesOwn
<1>3. \A c \in Clients :
          Carries(req[c]) /\ Shows(screen[c]) /\ Sends(req[c], screen[c])
  BY DEF Init, Carries, Shows, Sends, Idle
<1> QED BY <1>1, <1>2, <1>3 DEF Inv

(***************************************************************************)
(* Statements are only added, and keep their package and their key.        *)
(***************************************************************************)
Grown ==
    /\ DOMAIN packages \subseteq DOMAIN packages'
    /\ DOMAIN statements \subseteq DOMAIN statements'
    /\ \A w \in DOMAIN statements :
          statements'[w].wp = statements[w].wp /\ statements'[w].key = statements[w].key
    /\ Len(statements) \in Nat /\ Len(statements') \in Nat
    /\ Len(statements) <= Len(statements')

LEMMA OwnGrows ==
    ASSUME Grown, NEW p, NEW W, Own(p, W)
    PROVE  Own(p, W)'
BY DEF Grown, Own

LEMMA CarriesGrows ==
    ASSUME Grown, NEW r, Carries(r)
    PROVE  Carries(r)'
BY DEF Grown, Carries, Own, Fresh, Mirrors

LEMMA ShowsGrows ==
    ASSUME Grown, NEW s, Shows(s)
    PROVE  Shows(s)'
BY OwnGrows DEF Shows, Grown

\* A request and a screen that a step of another client leaves alone.
LEMMA OthersKeep ==
    ASSUME Inv, Grown, NEW d \in Clients, req'[d] = req[d], screen'[d] = screen[d]
    PROVE  Carries(req[d])' /\ Shows(screen[d])' /\ Sends(req[d], screen[d])'
<1>1. PICK r : r = req[d]
  OBVIOUS
<1>2. PICK s : s = screen[d]
  OBVIOUS
<1>3. Carries(r)' /\ Shows(s)'
  BY <1>1, <1>2, CarriesGrows, ShowsGrows DEF Inv
<1>4. Sends(req[d], screen[d])'
  BY DEF Inv, Sends
<1> QED BY <1>1, <1>2, <1>3, <1>4

LEMMA SameGrows ==
    ASSUME Inv, UNCHANGED <<packages, statements>>
    PROVE  Grown
BY DEF Inv, TypeOK, Grown

(***************************************************************************)
(* Steps that change a request alone.                                      *)
(***************************************************************************)
LEMMA RequestKeepsInv ==
    ASSUME Inv, NEW c \in Clients, NEW r \in Requests, Carries(r),
           Sends(r, screen[c]), req' = [req EXCEPT ![c] = r],
           UNCHANGED <<crowd, imported, packages, statements, screen>>
    PROVE  Inv'
<1>1. Grown
  BY SameGrows
<1>2. TypeOK'
  BY DEF Inv, TypeOK
<1>3. KeysBounded' /\ IndexesOwn'
  BY DEF Inv, KeysBounded, IndexesOwn, Own
<1>4. ASSUME NEW d \in Clients
      PROVE  Carries(req[d])' /\ Shows(screen[d])' /\ Sends(req[d], screen[d])'
  <2>1. CASE d # c
    BY <1>1, <2>1, OthersKeep DEF Inv, TypeOK
  <2>2. CASE d = c
    <3>1. req'[d] = r /\ screen'[d] = screen[d]
      BY <2>2 DEF Inv, TypeOK
    <3>2. PICK s : s = screen[d]
      OBVIOUS
    <3>3. Carries(r)' /\ Shows(s)'
      BY <1>1, <3>2, CarriesGrows, ShowsGrows DEF Inv
    <3>4. Sends(req[d], screen[d])'
      BY <2>2, <3>1
    <3> QED BY <3>1, <3>2, <3>3, <3>4
  <2> QED BY <2>1, <2>2
<1> QED BY <1>2, <1>3, <1>4 DEF Inv

\* What a handler loads is what the database holds.
LEMMA LoadedPackage ==
    ASSUME Inv, NEW p \in DOMAIN packages
    PROVE  p \in Nat /\ packages[p] \in Packages /\ Own(p, packages[p].index)
BY DEF Inv, TypeOK, IndexesOwn

LEMMA LoadedStatements ==
    ASSUME Inv, NEW W, W \subseteq DOMAIN statements
    PROVE  /\ Loaded(W) \subseteq Copies
           /\ \A x \in Loaded(W) : Mirrors(x) /\ x.ws \in W /\ x.doc = statements[x.ws]
BY DEF Inv, TypeOK, Loaded, Copies, Mirrors

\* The kind of a request is told by its operation.
LEMMA RequestKinds ==
    ASSUME NEW r \in Requests
    PROVE  /\ r.op = "promote" =>
                 r \in [op : {"promote"}, source : Candidates, id : Nat]
           /\ r.op \in {"create", "propose"} =>
                 r \in [op : {"create", "propose"}, wp : Nat, copy : Packages,
                        ids : SUBSET Nat]
           /\ r.op = "patch" => r \in [op : {"patch"}, wp : Nat, copy : Packages]
           /\ r.op = "reorder" =>
                 r \in [op : {"reorder"}, wp : Nat, copy : Packages, order : Seq(Nat)]
           /\ r.op \in {"edit", "stabilize"} =>
                 r \in [op : {"edit", "stabilize"}, copies : SUBSET Copies]
<1>1. CASE r = Idle
  BY <1>1 DEF Idle
<1>2. CASE r \in [op : {"promote"}, source : Candidates, id : Nat]
  BY <1>2
<1>3. CASE r \in [op : {"create", "propose"}, wp : Nat, copy : Packages, ids : SUBSET Nat]
  BY <1>3
<1>4. CASE r \in [op : {"patch"}, wp : Nat, copy : Packages]
  BY <1>4
<1>5. CASE r \in [op : {"reorder"}, wp : Nat, copy : Packages, order : Seq(Nat)]
  BY <1>5
<1>6. CASE r \in [op : {"edit", "stabilize"}, copies : SUBSET Copies]
  BY <1>6
<1> QED BY <1>1, <1>2, <1>3, <1>4, <1>5, <1>6 DEF Requests

LEMMA PromotionKeepsInv ==
    ASSUME Inv, NEW c \in Clients, PromoteLooks(c) \/ PromoteMints(c)
    PROVE  Inv'
<1>1. CASE PromoteLooks(c)
  <2>1. PICK k \in imported : Begins(c, [op |-> "promote", source |-> k, id |-> 0])
    BY <1>1 DEF PromoteLooks
  <2> DEFINE r == [op |-> "promote", source |-> k, id |-> 0]
  <2>2. r \in Requests /\ Carries(r)
    BY DEF Inv, TypeOK, Requests, Carries
  <2> QED BY <1>1, <2>1, <2>2, RequestKeepsInv DEF Sends, PromoteLooks, Begins
<1>2. CASE PromoteMints(c)
  <2> DEFINE r == [req[c] EXCEPT !.id = Len(packages) + 1]
  <2>1. req[c] \in [op : {"promote"}, source : Candidates, id : Nat]
    BY <1>2, RequestKinds DEF PromoteMints, Inv, TypeOK
  <2>2. r \in [op : {"promote"}, source : Candidates, id : Nat]
    <3>1. Len(packages) + 1 \in Nat
      BY DEF Inv, TypeOK
    <3>2. r = [op |-> req[c].op, source |-> req[c].source, id |-> Len(packages) + 1]
      BY <2>1
    <3> HIDE DEF r
    <3> QED BY <2>1, <3>1, <3>2
  <2>3. r \in Requests /\ Carries(r) /\ Sends(r, screen[c])
    BY <2>2 DEF Requests, Carries, Sends
  <2>4. req' = [req EXCEPT ![c] = r]
    BY <1>2 DEF PromoteMints
  <2> HIDE DEF r
  <2> QED BY <1>2, <2>3, <2>4, RequestKeepsInv DEF PromoteMints
<1> QED BY <1>1, <1>2

LEMMA LoadKeepsInv ==
    ASSUME Inv, NEW c \in Clients,
           PatchLoads(c) \/ CreateLoads(c) \/ ProposeLoads(c)
    PROVE  Inv'
<1>1. CASE PatchLoads(c)
  <2>1. PICK p \in DOMAIN packages :
            Begins(c, [op |-> "patch", wp |-> p, copy |-> packages[p]])
    BY <1>1 DEF PatchLoads
  <2> DEFINE r == [op |-> "patch", wp |-> p, copy |-> packages[p]]
  <2>2. r \in Requests /\ Carries(r)
    BY LoadedPackage DEF Requests, Carries
  <2> QED BY <1>1, <2>1, <2>2, RequestKeepsInv DEF Sends, PatchLoads, Begins
<1>2. CASE CreateLoads(c) \/ ProposeLoads(c)
  <2>1. PICK p \in DOMAIN packages, o \in {"create", "propose"} :
            Begins(c, [op |-> o, wp |-> p, copy |-> packages[p], ids |-> {}])
    BY <1>2 DEF CreateLoads, ProposeLoads
  <2> DEFINE r == [op |-> o, wp |-> p, copy |-> packages[p], ids |-> {}]
  <2>2. r \in Requests
    BY LoadedPackage DEF Requests
  <2>3. Fresh({})
    <3>1. 0 \in 0 .. Len(statements)
      BY DEF Inv, TypeOK
    <3> QED BY <3>1 DEF Fresh
  <2>4. Carries(r)
    BY <2>3, LoadedPackage DEF Carries
  <2> QED BY <1>2, <2>1, <2>2, <2>4, RequestKeepsInv DEF Sends, CreateLoads, ProposeLoads, Begins
<1> QED BY <1>1, <1>2

LEMMA ProposalKeepsInv ==
    ASSUME Inv, NEW c \in Clients, ProposeFails(c) \/ StatementsMinted(c)
    PROVE  Inv'
<1>1. CASE ProposeFails(c)
  <2>1. Idle \in Requests /\ Carries(Idle) /\ Sends(Idle, screen[c])
    BY DEF Requests, Idle, Carries, Sends
  <2> QED BY <1>1, <2>1, RequestKeepsInv DEF ProposeFails, Ends
<1>2. CASE StatementsMinted(c)
  <2>1. PICK k \in Nat :
            req' = [req EXCEPT ![c].ids = (Len(statements) + 1) .. (Len(statements) + k)]
    <3>1. \A m \in Nat : 1 .. m \subseteq Nat
      OBVIOUS
    <3>2. MaxStatements \in Nat
      BY BinderAssumption
    <3>3. PICK k \in 1 .. (IF req[c].op = "create" THEN 1 ELSE MaxStatements) :
              req' = [req EXCEPT ![c].ids = (Len(statements) + 1) .. (Len(statements) + k)]
      BY <1>2 DEF StatementsMinted
    <3>4. k \in Nat
      BY <3>2, <3>3
    <3> QED BY <3>3, <3>4
  <2> DEFINE ids == (Len(statements) + 1) .. (Len(statements) + k)
             r == [req[c] EXCEPT !.ids = ids]
  <2>2. Len(statements) \in Nat /\ ids \subseteq Nat
    BY DEF Inv, TypeOK
  <2>3. Fresh(ids)
    <3>1. Len(statements) \in 0 .. Len(statements)
      BY <2>2
    <3> QED BY <3>1 DEF Fresh
  <2>4. req[c] \in [op : {"create", "propose"}, wp : Nat, copy : Packages,
                    ids : SUBSET Nat]
    BY <1>2, RequestKinds DEF StatementsMinted, Inv, TypeOK
  <2>5. r = [op |-> req[c].op, wp |-> req[c].wp, copy |-> req[c].copy, ids |-> ids]
    BY <2>4
  <2>6. Carries(req[c])
    BY DEF Inv
  <2> HIDE DEF r, ids
  <2>7. r \in Requests
    BY <2>2, <2>4, <2>5 DEF Requests
  <2>8. Carries(r) /\ Sends(r, screen[c])
    BY <2>3, <2>4, <2>5, <2>6 DEF Carries, Sends
  <2>9. req' = [req EXCEPT ![c] = r]
    BY <2>1 DEF r, ids
  <2> QED BY <1>2, <2>7, <2>8, <2>9, RequestKeepsInv DEF StatementsMinted
<1> QED BY <1>1, <1>2

LEMMA MoveLoadsKeepsInv ==
    ASSUME Inv, NEW c \in Clients, MoveLoads(c)
    PROVE  Inv'
<1> DEFINE s == screen[c].order
<1>1. PICK i \in DOMAIN s :
        /\ i + 1 \in DOMAIN s
        /\ Begins(c, [op |-> "reorder", wp |-> screen[c].wp,
                      copy |-> packages[screen[c].wp],
                      order |-> [s EXCEPT ![i] = s[i + 1], ![i + 1] = s[i]]])
  BY DEF MoveLoads
<1> DEFINE order == [s EXCEPT ![i] = s[i + 1], ![i + 1] = s[i]]
           r == [op |-> "reorder", wp |-> screen[c].wp, copy |-> packages[screen[c].wp],
                 order |-> order]
<1>2. screen[c].wp \in DOMAIN packages /\ Own(screen[c].wp, Range(s))
  BY DEF MoveLoads, Inv, Shows
<1>3. s \in Seq(Nat)
  BY DEF Inv, TypeOK
<1>4. order \in Seq(Nat) /\ DOMAIN order = DOMAIN s
  <2> HIDE DEF s
  <2> QED BY <1>1, <1>3
<1>5. Range(order) \subseteq Range(s)
  <2> HIDE DEF s
  <2> QED BY <1>1, <1>3 DEF Range
<1> HIDE DEF order, s
<1>6. r \in Requests
  BY <1>2, <1>4, LoadedPackage DEF Requests
<1>7. Carries(r) /\ Sends(r, screen[c])
  BY <1>2, <1>5, LoadedPackage DEF Carries, Own, Sends
<1>8. req' = [req EXCEPT ![c] = r]
  BY <1>1 DEF Begins, order, s
<1> HIDE DEF r
<1> QED BY <1>6, <1>7, <1>8, RequestKeepsInv DEF MoveLoads

LEMMA StatementLoadsKeepsInv ==
    ASSUME Inv, NEW c \in Clients, EditLoads(c) \/ StabilizeLoads(c)
    PROVE  Inv'
<1>1. CASE EditLoads(c)
  <2>1. PICK w \in DOMAIN statements : Begins(c, [op |-> "edit", copies |-> Loaded({w})])
    BY <1>1 DEF EditLoads
  <2> DEFINE r == [op |-> "edit", copies |-> Loaded({w})]
  <2>2. /\ Loaded({w}) \subseteq Copies
        /\ \A x \in Loaded({w}) : Mirrors(x)
    BY LoadedStatements
  <2>3. r \in Requests /\ Carries(r)
    BY <2>2 DEF Requests, Carries
  <2> QED BY <1>1, <2>1, <2>3, RequestKeepsInv DEF Sends, EditLoads, Begins
<1>2. CASE StabilizeLoads(c)
  <2>1. PICK W \in {{w} : w \in DOMAIN statements} \cup {OfPackage(p) : p \in DOMAIN packages} :
            /\ \A w \in Drafts(W) : statements[w].complete
            /\ Begins(c, [op |-> "stabilize", copies |-> Loaded(Drafts(W))])
    BY <1>2 DEF StabilizeLoads
  <2>2. Drafts(W) \subseteq DOMAIN statements
    BY DEF Drafts, OfPackage
  <2> DEFINE r == [op |-> "stabilize", copies |-> Loaded(Drafts(W))]
  <2>3. /\ Loaded(Drafts(W)) \subseteq Copies
        /\ \A x \in Loaded(Drafts(W)) : Mirrors(x) /\ x.doc.complete
    BY <2>1, <2>2, LoadedStatements
  <2>4. r \in Requests /\ Carries(r)
    BY <2>3 DEF Requests, Carries
  <2> QED BY <1>2, <2>1, <2>4, RequestKeepsInv DEF Sends, StabilizeLoads, Begins
<1> QED BY <1>1, <1>2

(***************************************************************************)
(* Steps that end a request, and those that show or import.                *)
(***************************************************************************)
ScreenOk(s) == s \in [wp : Nat, order : Seq(Nat)] /\ Shows(s)

LEMMA EndKeepsInv ==
    ASSUME Inv, NEW c \in Clients, NEW s, ScreenOk(s)',
           packages' \in Seq(Packages), statements' \in Seq(Statements), Grown,
           KeysBounded', IndexesOwn', Ends(c), screen' = [screen EXCEPT ![c] = s],
           UNCHANGED <<crowd, imported>>
    PROVE  Inv'
<1>1. TypeOK'
  <2>1. s \in [wp : Nat, order : Seq(Nat)]
    BY DEF ScreenOk
  <2>2. Idle \in Requests
    BY DEF Requests
  <2> QED BY <2>1, <2>2 DEF Inv, TypeOK, Ends
<1>2. ASSUME NEW d \in Clients
      PROVE  Carries(req[d])' /\ Shows(screen[d])' /\ Sends(req[d], screen[d])'
  <2>1. CASE d # c
    BY <2>1, OthersKeep DEF Inv, TypeOK, Ends
  <2>2. CASE d = c
    <3>1. req'[d] = Idle /\ screen'[d] = s
      BY <2>2 DEF Inv, TypeOK, Ends
    <3>2. Shows(s)'
      BY DEF ScreenOk
    <3> QED BY <3>1, <3>2 DEF Carries, Sends, Idle
  <2> QED BY <2>1, <2>2
<1> QED BY <1>1, <1>2 DEF Inv

\* A screen nobody changes stays what it was.
LEMMA SameScreen ==
    ASSUME Inv, Grown, NEW c \in Clients
    PROVE  ScreenOk(screen[c])' \/ screen'[c] # screen[c]
<1>1. PICK s : s = screen[c]
  OBVIOUS
<1>2. s \in [wp : Nat, order : Seq(Nat)] /\ Shows(s)
  BY <1>1 DEF Inv, TypeOK
<1>3. Shows(s)'
  BY <1>2, ShowsGrows
<1> QED BY <1>1, <1>2, <1>3 DEF ScreenOk

LEMMA ImportKeepsInv ==
    ASSUME Inv, NEW c \in Clients, Imports(c)
    PROVE  Inv'
<1>1. TypeOK'
  BY DEF Inv, TypeOK, Imports
<1>2. UNCHANGED <<packages, statements, req, screen>>
  BY DEF Imports
<1>3. KeysBounded' /\ IndexesOwn'
  BY <1>2 DEF Inv, KeysBounded, IndexesOwn, Own
<1>4. ASSUME NEW d \in Clients
      PROVE  Carries(req[d])' /\ Shows(screen[d])' /\ Sends(req[d], screen[d])'
  BY <1>2, SameGrows, OthersKeep
<1> QED BY <1>1, <1>3, <1>4 DEF Inv

\* Lists of a set of statements name no others.
LEMMA ListOfSet ==
    ASSUME Inv, NEW W, W \subseteq DOMAIN statements, NEW f \in SetToSeqs(W)
    PROVE  f \in Seq(Nat) /\ \A i \in DOMAIN f : f[i] \in W
<1>1. Len(statements) \in Nat /\ DOMAIN statements = 1 .. Len(statements)
  BY DEF Inv, TypeOK
<1>2. Cardinality(W) \in Nat
  <2>1. IsFiniteSet(1 .. Len(statements))
    BY <1>1, FS_Interval
  <2>2. IsFiniteSet(W)
    BY <1>1, <2>1, FS_Subset
  <2> QED BY <2>2, FS_CardinalityType
<1>3. f \in [1 .. Cardinality(W) -> W]
  BY DEF SetToSeqs
<1>4. W \subseteq Nat
  BY <1>1
<1> QED BY <1>2, <1>3, <1>4

LEMMA ListKeepsInv ==
    ASSUME Inv, NEW c \in Clients, Lists(c)
    PROVE  Inv'
<1>0. PICK p \in DOMAIN packages :
        \E first \in SetToSeqs(packages[p].index),
           rest \in SetToSeqs(OfPackage(p) \ packages[p].index) :
              screen' = [screen EXCEPT ![c] = [wp |-> p, order |-> first \o rest]]
  BY DEF Lists
<1>1. PICK first \in SetToSeqs(packages[p].index),
           rest \in SetToSeqs(OfPackage(p) \ packages[p].index) :
        screen' = [screen EXCEPT ![c] = [wp |-> p, order |-> first \o rest]]
  BY <1>0
<1> DEFINE order == first \o rest
           s == [wp |-> p, order |-> order]
<1>2. p \in Nat /\ Own(p, packages[p].index) /\ Own(p, OfPackage(p) \ packages[p].index)
  BY LoadedPackage DEF Own, OfPackage
<1>3. /\ first \in Seq(Nat) /\ \A i \in DOMAIN first : first[i] \in packages[p].index
      /\ rest \in Seq(Nat)
      /\ \A i \in DOMAIN rest : rest[i] \in OfPackage(p) \ packages[p].index
  BY <1>2, ListOfSet DEF Own
<1>4. order \in Seq(Nat)
  BY <1>3
<1>5. \A i \in DOMAIN order : order[i] \in packages[p].index \cup OfPackage(p)
  BY <1>3
<1>6. Own(p, Range(order))
  BY <1>2, <1>5 DEF Own, Range
<1>7. s \in [wp : Nat, order : Seq(Nat)] /\ Shows(s)
  BY <1>2, <1>4, <1>6 DEF Shows
<1> HIDE DEF s, order
<1>8. screen' = [screen EXCEPT ![c] = s] /\ UNCHANGED <<crowd, imported, packages, statements, req>>
  BY <1>1 DEF Lists, s, order
<1>9. TypeOK'
  BY <1>7, <1>8 DEF Inv, TypeOK
<1>10. KeysBounded' /\ IndexesOwn'
  BY <1>8 DEF Inv, KeysBounded, IndexesOwn, Own
<1>11. Grown
  BY <1>8, SameGrows
<1>12. ASSUME NEW d \in Clients
       PROVE  Carries(req[d])' /\ Shows(screen[d])' /\ Sends(req[d], screen[d])'
  <2>1. CASE d # c
    BY <1>8, <1>11, <2>1, OthersKeep DEF Inv, TypeOK
  <2>2. CASE d = c
    <3>1. req'[d] = Idle /\ screen'[d] = s
      BY <1>8, <2>2 DEF Inv, TypeOK, Lists
    <3>2. Shows(s)'
      BY <1>7, <1>11, ShowsGrows
    <3> QED BY <3>1, <3>2 DEF Carries, Sends, Idle
  <2> QED BY <2>1, <2>2
<1> QED BY <1>9, <1>10, <1>12 DEF Inv

(***************************************************************************)
(* Steps that write packages.                                              *)
(***************************************************************************)
StatementsGrown ==
    /\ statements' \in Seq(Statements)
    /\ DOMAIN statements \subseteq DOMAIN statements'
    /\ \A w \in DOMAIN statements :
          statements'[w].wp = statements[w].wp /\ statements'[w].key = statements[w].key
    /\ Len(statements') >= Len(statements)

LEMMA SavedPackages ==
    ASSUME Inv, StatementsGrown, NEW p \in DOMAIN packages, NEW copy \in Packages,
           NEW new \in Packages, Own(p, new.index)', packages' = Saved(p, copy, new)
    PROVE  packages' \in Seq(Packages) /\ Grown /\ IndexesOwn'
<1>1. Grown /\ packages' \in Seq(Packages) /\ DOMAIN packages' = DOMAIN packages
  <2>1. CASE new = copy
    BY <2>1 DEF Saved, Inv, TypeOK, StatementsGrown, Grown
  <2>2. CASE new # copy
    <3> DEFINE saved == [new EXCEPT !.edition = copy.edition + 1]
    <3>1. saved \in Packages
      BY DEF Packages
    <3>2. packages' = [packages EXCEPT ![p] = saved]
      BY <2>2 DEF Saved
    <3> HIDE DEF saved
    <3> QED BY <3>1, <3>2 DEF Inv, TypeOK, StatementsGrown, Grown
  <2> QED BY <2>1, <2>2
<1>2. \A q \in DOMAIN packages : packages'[q].index \in {packages[q].index, new.index}
                                  /\ (q # p => packages'[q].index = packages[q].index)
  BY DEF Saved, Packages, Inv, TypeOK
<1>3. ASSUME NEW q \in DOMAIN packages PROVE Own(q, packages[q].index)'
  <2>1. PICK W : W = packages[q].index
    OBVIOUS
  <2>2. Own(q, W)'
    BY <1>1, <2>1, LoadedPackage DEF Own, Grown
  <2>3. CASE q # p
    BY <1>2, <2>1, <2>2, <2>3 DEF Own
  <2>4. CASE q = p
    BY <1>2, <2>1, <2>2, <2>4 DEF Own
  <2> QED BY <2>3, <2>4
<1> QED BY <1>1, <1>3 DEF IndexesOwn

LEMMA SameStatements ==
    ASSUME Inv, UNCHANGED statements
    PROVE  StatementsGrown /\ KeysBounded'
BY DEF Inv, TypeOK, StatementsGrown, KeysBounded

LEMMA PromoteKeepsInv ==
    ASSUME Inv, NEW c \in Clients, PromoteInserts(c)
    PROVE  Inv'
<1> DEFINE new == [source |-> req[c].source, pinned |-> FALSE, done |-> FALSE,
                   index |-> {}, edition |-> 1]
<1>1. req[c] \in [op : {"promote"}, source : Candidates, id : Nat]
  BY RequestKinds DEF PromoteInserts, Inv, TypeOK
<1>2. new \in Packages
  BY <1>1 DEF Packages
<1>3. packages' = packages \/ packages' = Append(packages, new)
  BY DEF PromoteInserts
<1>4. packages' \in Seq(Packages) /\ Grown /\ IndexesOwn'
  <2>1. CASE packages' = packages
    BY <2>1, SameGrows DEF PromoteInserts, Inv, TypeOK, IndexesOwn, Own
  <2>2. CASE packages' = Append(packages, new)
    <3>1. new.index = {}
      OBVIOUS
    <3> HIDE DEF new
    <3>2. /\ packages' \in Seq(Packages)
          /\ DOMAIN packages' = DOMAIN packages \cup {Len(packages) + 1}
          /\ \A q \in DOMAIN packages : packages'[q] = packages[q]
          /\ packages'[Len(packages) + 1] = new
      BY <1>2, <2>2 DEF Inv, TypeOK
    <3>3. Grown
      BY <3>2 DEF PromoteInserts, Inv, TypeOK, Grown
    <3>4. IndexesOwn'
      BY <3>1, <3>2 DEF PromoteInserts, Inv, IndexesOwn, Own
    <3> QED BY <3>2, <3>3, <3>4
  <2> QED BY <1>3, <2>1, <2>2
<1>5. statements' \in Seq(Statements) /\ KeysBounded'
  BY SameStatements DEF PromoteInserts, StatementsGrown
<1>6. screen' = [screen EXCEPT ![c] = screen[c]] /\ screen'[c] = screen[c]
  BY DEF PromoteInserts, Inv, TypeOK
<1>7. PICK s : s = screen[c]
  OBVIOUS
<1>8. ScreenOk(s)'
  BY <1>4, <1>6, <1>7, SameScreen
<1> QED BY <1>4, <1>5, <1>6, <1>7, <1>8, EndKeepsInv DEF PromoteInserts

LEMMA PatchKeepsInv ==
    ASSUME Inv, NEW c \in Clients, PatchSaves(c)
    PROVE  Inv'
<1>0. PICK p, copy : p = req[c].wp /\ copy = req[c].copy
  OBVIOUS
<1>1. req[c] \in [op : {"patch"}, wp : Nat, copy : Packages]
  BY RequestKinds DEF PatchSaves, Inv, TypeOK
<1>2. p \in DOMAIN packages /\ Own(p, copy.index)
  BY <1>0, <1>1 DEF Inv, Carries
<1>3. PICK pinned, done \in BOOLEAN :
        packages' = Saved(p, copy, [copy EXCEPT !.pinned = pinned, !.done = done])
  BY <1>0 DEF PatchSaves
<1>4. StatementsGrown /\ KeysBounded'
  BY SameStatements DEF PatchSaves
<1> DEFINE new == [copy EXCEPT !.pinned = pinned, !.done = done]
<1>5. copy \in Packages /\ new \in Packages /\ new.index = copy.index
  BY <1>0, <1>1 DEF Packages
<1> HIDE DEF new
<1>6. Own(p, new.index)'
  BY <1>2, <1>5 DEF PatchSaves, Own
<1>7. packages' \in Seq(Packages) /\ Grown /\ IndexesOwn'
  BY <1>2, <1>3, <1>4, <1>5, <1>6, SavedPackages DEF new
<1>8. screen' = [screen EXCEPT ![c] = screen[c]] /\ screen'[c] = screen[c]
  BY DEF PatchSaves, Inv, TypeOK
<1>9. PICK s : s = screen[c]
  OBVIOUS
<1>10. ScreenOk(s)'
  BY <1>7, <1>8, <1>9, SameScreen
<1> QED BY <1>4, <1>7, <1>8, <1>9, <1>10, EndKeepsInv DEF PatchSaves, StatementsGrown

LEMMA MoveKeepsInv ==
    ASSUME Inv, NEW c \in Clients, MoveSaves(c)
    PROVE  Inv'
<1>0. PICK p, copy, order, shown :
        p = req[c].wp /\ copy = req[c].copy /\ order = req[c].order /\ shown = screen[c]
  OBVIOUS
<1> DEFINE new == [copy EXCEPT !.index = Range(order)]
           s == [shown EXCEPT !.order = order]
<1>1. req[c] \in [op : {"reorder"}, wp : Nat, copy : Packages, order : Seq(Nat)]
  BY RequestKinds DEF MoveSaves, Inv, TypeOK
<1>2. /\ p \in DOMAIN packages /\ Own(p, Range(order))
      /\ shown.wp = p /\ shown \in [wp : Nat, order : Seq(Nat)]
  BY <1>0, <1>1 DEF Inv, TypeOK, Carries, Sends
<1>3. packages' = Saved(p, copy, new) /\ screen' = [screen EXCEPT ![c] = s]
  BY <1>0 DEF MoveSaves, Inv, TypeOK
<1>4. StatementsGrown /\ KeysBounded'
  BY SameStatements DEF MoveSaves
<1>5. copy \in Packages /\ order \in Seq(Nat)
  BY <1>0, <1>1
<1>6. Range(order) \subseteq Nat
  BY <1>5 DEF Range
<1>7. new \in Packages /\ new.index = Range(order)
  BY <1>5, <1>6 DEF Packages
<1>8. s \in [wp : Nat, order : Seq(Nat)] /\ s.wp = p /\ s.order = order
  BY <1>2, <1>5
<1> HIDE DEF new, s
<1>9. Own(p, Range(order))'
  BY <1>2 DEF MoveSaves, Own
<1>10. packages' \in Seq(Packages) /\ Grown /\ IndexesOwn'
  BY <1>2, <1>3, <1>4, <1>5, <1>7, <1>9, SavedPackages
<1>11. ScreenOk(s)'
  BY <1>2, <1>8, <1>9, <1>10 DEF ScreenOk, Shows, Grown
<1> QED BY <1>3, <1>4, <1>10, <1>11, EndKeepsInv DEF MoveSaves, StatementsGrown

(***************************************************************************)
(* Steps that write statements.                                            *)
(***************************************************************************)
LEMMA OrderKeyIsNat ==
    ASSUME Inv, NEW W, W \subseteq DOMAIN statements
    PROVE  OrderKey(W) \in Nat
<1> DEFINE keys == {statements[w].key : w \in W} \cup {0}
<1>1. keys \subseteq Nat /\ keys # {}
  <2>1. \A w \in W : statements[w] \in Statements
    BY DEF Inv, TypeOK
  <2>2. \A w \in W : statements[w].key \in Nat
    BY <2>1 DEF Statements
  <2> QED BY <2>2
<1>2. PICK b \in Nat : \A w \in DOMAIN statements : statements[w].key <= b
  BY DEF Inv, KeysBounded
<1>3. \A y \in keys : y <= b
  BY <1>2
<1> HIDE DEF keys
<1>4. Max(keys) \in Nat
  BY <1>1, <1>2, <1>3, MaxOfBounded
<1> QED BY <1>4 DEF OrderKey, keys

\* A function on 1 .. N is a sequence of length N.
LEMMA FunctionIsSeq ==
    ASSUME NEW S, NEW N \in Nat, NEW f \in [1 .. N -> S]
    PROVE  f \in Seq(S) /\ Len(f) = N
OBVIOUS

\* What StatementsInserted appends, once its numbers are free.
NewOnes(new, ids, p, key) ==
    \A w \in ids :
        /\ new[w].complete \in BOOLEAN
        /\ new[w] = [wp |-> p, state |-> "DRAFT", complete |-> new[w].complete,
                     key |-> key + w - Len(statements) - 1]

LEMMA InsertedStatements ==
    ASSUME Inv, NEW p \in Nat, NEW key \in Nat, NEW ids, Fresh(ids), ids # {},
           ids \cap DOMAIN statements = {}, NEW new, NewOnes(new, ids, p, key),
           statements' = [w \in DOMAIN statements \cup ids |->
                             IF w \in DOMAIN statements THEN statements[w] ELSE new[w]]
    PROVE  /\ StatementsGrown /\ KeysBounded' /\ ids \subseteq Nat
           /\ \A w \in ids : w \in DOMAIN statements' /\ statements'[w].wp = p
<1> DEFINE L == Len(statements)
<1>1. L \in Nat /\ DOMAIN statements = 1 .. L /\ statements \in Seq(Statements)
  BY DEF Inv, TypeOK
<1> HIDE DEF L
<1>2. PICK k \in Nat : k >= 1 /\ ids = (L + 1) .. (L + k)
  <2>1. PICK n \in 0 .. L, k \in Nat : ids = (n + 1) .. (n + k)
    BY DEF Fresh, L
  <2>2. n \in Nat /\ n <= L
    BY <1>1, <2>1
  <2>3. k >= 1
    BY <2>1, <2>2
  <2>4. n + 1 \in ids
    BY <2>1, <2>2, <2>3
  <2>5. n + 1 \notin 1 .. L
    BY <1>1, <2>4
  <2>6. n = L
    <3>1. L \in Nat
      BY <1>1
    <3>2. ~ (1 <= n + 1 /\ n + 1 <= L)
      BY <2>2, <2>5, <3>1
    <3> QED BY <2>2, <3>1, <3>2
  <2> QED BY <2>1, <2>3, <2>6
<1>3. DOMAIN statements \cup ids = 1 .. (L + k)
  BY <1>1, <1>2
<1>4. ids \subseteq Nat
  BY <1>1, <1>2
<1>5. \A w \in ids : new[w] \in Statements /\ new[w].wp = p /\ new[w].key <= key + k
  <2> SUFFICES ASSUME NEW w \in ids
               PROVE  new[w] \in Statements /\ new[w].wp = p /\ new[w].key <= key + k
    OBVIOUS
  <2>1. w \in Nat /\ L + 1 <= w /\ w <= L + k
    BY <1>1, <1>2
  <2>2. key + w - L - 1 \in Nat /\ key + w - L - 1 <= key + k
    BY <1>1, <1>2, <2>1
  <2>3. PICK complete \in BOOLEAN :
            new[w] = [wp |-> p, state |-> "DRAFT", complete |-> complete,
                      key |-> key + w - L - 1]
    BY DEF L, NewOnes
  <2> QED BY <2>2, <2>3 DEF Statements, States
<1>6. \A w \in 1 .. (L + k) : statements'[w] \in Statements
  <2> SUFFICES ASSUME NEW w \in 1 .. (L + k) PROVE statements'[w] \in Statements
    OBVIOUS
  <2>1. w \in DOMAIN statements \/ w \in ids
    BY <1>3
  <2> QED BY <1>1, <1>3, <1>5, <2>1
<1>7. statements' \in Seq(Statements) /\ Len(statements') = L + k
  <2>1. PICK N \in Nat : N = L + k
    BY <1>1, <1>2
  <2>2. statements' = [w \in 1 .. N |-> statements'[w]]
    BY <1>3, <2>1
  <2>3. \A w \in 1 .. N : statements'[w] \in Statements
    BY <1>6, <2>1
  <2>4. statements' \in [1 .. N -> Statements]
    BY <2>2, <2>3
  <2>5. PICK f : f = statements'
    OBVIOUS
  <2>6. f \in Seq(Statements) /\ Len(f) = N
    <3>1. N \in Nat /\ f \in [1 .. N -> Statements]
      BY <2>1, <2>4, <2>5
    <3> QED BY <3>1, FunctionIsSeq
  <2> QED BY <2>1, <2>5, <2>6
<1>8. \A w \in DOMAIN statements : statements'[w] = statements[w]
  OBVIOUS
<1>9. \A w \in ids : statements'[w] = new[w]
  BY <1>1
<1>10. StatementsGrown
  BY <1>1, <1>2, <1>3, <1>7, <1>8 DEF StatementsGrown, L
<1>11. KeysBounded'
  <2>1. PICK b \in Nat : \A w \in DOMAIN statements : statements[w].key <= b
    BY DEF Inv, KeysBounded
  <2>2. b + key + k \in Nat
    BY <1>2, <2>1
  <2>3. \A w \in DOMAIN statements : statements[w].key \in Nat
    <3>1. \A w \in DOMAIN statements : statements[w] \in Statements
      BY <1>1
    <3> QED BY <3>1 DEF Statements
  <2>4. \A w \in ids : new[w].key \in Nat
    BY <1>5 DEF Statements
  <2>5. \A w \in DOMAIN statements' : statements'[w].key <= b + key + k
    <3> SUFFICES ASSUME NEW w \in DOMAIN statements'
                 PROVE  statements'[w].key <= b + key + k
      OBVIOUS
    <3>1. CASE w \in DOMAIN statements
      BY <1>2, <1>8, <2>1, <2>3, <3>1
    <3>2. CASE w \in ids
      BY <1>2, <1>5, <1>9, <2>1, <2>4, <3>2
    <3> QED BY <3>1, <3>2
  <2> QED BY <2>2, <2>5 DEF KeysBounded
<1> QED BY <1>4, <1>5, <1>9, <1>10, <1>11

LEMMA InsertionKeepsInv ==
    ASSUME Inv, NEW c \in Clients, StatementsInserted(c)
    PROVE  Inv'
<1>0. PICK p, copy, ids : p = req[c].wp /\ copy = req[c].copy /\ ids = req[c].ids
  OBVIOUS
<1>1. /\ req[c] \in [op : {"create", "propose"}, wp : Nat, copy : Packages,
                      ids : SUBSET Nat]
      /\ ids # {}
  BY <1>0, RequestKinds DEF StatementsInserted, Inv, TypeOK
<1>2. /\ p \in Nat /\ copy \in Packages /\ p \in DOMAIN packages
      /\ Own(p, copy.index) /\ Fresh(ids)
  BY <1>0, <1>1 DEF Inv, Carries
<1>3. packages' \in Seq(Packages) /\ Grown /\ IndexesOwn'
      /\ statements' \in Seq(Statements) /\ KeysBounded'
  <2>1. CASE ids \cap DOMAIN statements # {}
    <3>1. UNCHANGED <<packages, statements>>
      BY <1>0, <2>1 DEF StatementsInserted
    <3> QED BY <3>1, SameGrows, SameStatements
            DEF Inv, TypeOK, IndexesOwn, Own, StatementsGrown
  <2>2. CASE ids \cap DOMAIN statements = {}
    <3> DEFINE key == OrderKey(copy.index)
    <3>1. PICK k : k = key
      OBVIOUS
    <3>2. k \in Nat
      BY <1>2, <3>1, OrderKeyIsNat DEF Own
    <3>3. PICK complete \in [ids -> BOOLEAN] :
              statements' = [w \in DOMAIN statements \cup ids |->
                                IF w \in DOMAIN statements THEN statements[w]
                                ELSE NewStatement(c, w, complete[w])]
      BY <1>0, <2>2 DEF StatementsInserted
    <3> DEFINE entries == [w \in ids |-> NewStatement(c, w, complete[w])]
    <3>4. PICK new : new = entries
      OBVIOUS
    <3>5. \A w \in ids : new[w] = [wp |-> p, state |-> "DRAFT",
                                   complete |-> complete[w],
                                   key |-> k + w - Len(statements) - 1]
      BY <1>0, <3>1, <3>4 DEF NewStatement
    <3>6. NewOnes(new, ids, p, k)
      <4> SUFFICES ASSUME NEW w \in ids
                   PROVE  /\ new[w].complete \in BOOLEAN
                          /\ new[w] = [wp |-> p, state |-> "DRAFT",
                                       complete |-> new[w].complete,
                                       key |-> k + w - Len(statements) - 1]
        BY DEF NewOnes
      <4>1. PICK b \in BOOLEAN : b = complete[w]
        BY <3>3
      <4>2. new[w] = [wp |-> p, state |-> "DRAFT", complete |-> b,
                      key |-> k + w - Len(statements) - 1]
        BY <3>5, <4>1
      <4>3. new[w].complete = b
        BY <4>2
      <4> QED BY <4>1, <4>2, <4>3
    <3>7. statements' = [w \in DOMAIN statements \cup ids |->
                             IF w \in DOMAIN statements THEN statements[w] ELSE new[w]]
      BY <3>3, <3>4
    <3> HIDE DEF key, entries
    <3>8. /\ StatementsGrown /\ KeysBounded' /\ ids \subseteq Nat
          /\ \A w \in ids : w \in DOMAIN statements' /\ statements'[w].wp = p
      BY <1>1, <1>2, <2>2, <3>2, <3>6, <3>7, InsertedStatements
    <3> DEFINE saved == [copy EXCEPT !.index = @ \cup ids]
    <3>9. packages' = Saved(p, copy, saved)
      BY <1>0, <2>2 DEF StatementsInserted
    <3>10. saved \in Packages /\ saved.index = copy.index \cup ids
      BY <1>2, <3>8 DEF Packages
    <3> HIDE DEF saved
    <3>11. Own(p, saved.index)'
      BY <1>2, <3>8, <3>10 DEF Own, StatementsGrown
    <3> QED BY <1>2, <3>8, <3>9, <3>10, <3>11, SavedPackages DEF StatementsGrown
  <2> QED BY <2>1, <2>2
<1>4. ScreenOk(NoScreen)'
  BY DEF ScreenOk, Shows, NoScreen
<1>5. screen' = [screen EXCEPT ![c] = NoScreen] /\ Ends(c) /\ UNCHANGED <<crowd, imported>>
  BY DEF StatementsInserted
<1> QED BY <1>3, <1>4, <1>5, EndKeepsInv

\* Writing copies back changes neither packages nor keys.
LEMMA WrittenBack ==
    ASSUME Inv, NEW copies \in SUBSET Copies, \A x \in copies : Mirrors(x),
           WriteBack(copies), UNCHANGED packages
    PROVE  statements' \in Seq(Statements) /\ Grown /\ KeysBounded' /\ IndexesOwn'
<1>1. \A w \in DOMAIN statements :
          /\ statements'[w] \in Statements
          /\ statements'[w].wp = statements[w].wp
          /\ statements'[w].key = statements[w].key
  <2> SUFFICES ASSUME NEW w \in DOMAIN statements
               PROVE  /\ statements'[w] \in Statements
                      /\ statements'[w].wp = statements[w].wp
                      /\ statements'[w].key = statements[w].key
    OBVIOUS
  <2>1. CASE \E x \in copies : x.ws = w
    <3> DEFINE x == CHOOSE y \in copies : y.ws = w
    <3>1. x \in copies /\ x.ws = w
      BY <2>1
    <3>2. statements'[w] = x.doc
      BY <2>1 DEF WriteBack
    <3> HIDE DEF x
    <3> QED BY <3>1, <3>2 DEF Mirrors, Copies
  <2>2. CASE ~ \E x \in copies : x.ws = w
    BY <2>2 DEF WriteBack, Inv, TypeOK
  <2> QED BY <2>1, <2>2
<1>2. DOMAIN statements' = DOMAIN statements
  BY DEF WriteBack
<1>3. statements' \in Seq(Statements) /\ Len(statements') = Len(statements)
  <2>1. Len(statements) \in Nat /\ DOMAIN statements = 1 .. Len(statements)
    BY DEF Inv, TypeOK
  <2>2. statements' = [w \in 1 .. Len(statements) |-> statements'[w]]
    BY <2>1 DEF WriteBack
  <2>3. statements' \in [1 .. Len(statements) -> Statements]
    BY <1>1, <2>1, <2>2
  <2> QED BY <2>1, <2>3
<1>4. Grown
  BY <1>1, <1>2, <1>3 DEF Grown, Inv, TypeOK
<1>5. KeysBounded' /\ IndexesOwn'
  BY <1>1, <1>2 DEF Inv, KeysBounded, IndexesOwn, Own
<1> QED BY <1>3, <1>4, <1>5

LEMMA WriteBackKeepsInv ==
    ASSUME Inv, NEW c \in Clients, EditSaves(c) \/ StabilizeSaves(c)
    PROVE  Inv'
<1>1. req[c] \in [op : {"edit", "stabilize"}, copies : SUBSET Copies]
  BY RequestKinds DEF EditSaves, StabilizeSaves, Inv, TypeOK
<1>2. \A x \in req[c].copies : x \in Copies /\ Mirrors(x)
  BY <1>1 DEF Inv, Carries
<1>3. PICK copies \in SUBSET Copies : WriteBack(copies) /\ \A x \in copies : Mirrors(x)
  <2>1. CASE EditSaves(c)
    <3>1. PICK complete \in BOOLEAN, state \in States :
              WriteBack({[x EXCEPT !.doc = [@ EXCEPT !.complete = complete, !.state = state]]
                            : x \in req[c].copies})
      BY <2>1 DEF EditSaves
    <3>2. ASSUME NEW x \in req[c].copies
          PROVE  LET y == [x EXCEPT !.doc = [@ EXCEPT !.complete = complete, !.state = state]]
                 IN  y \in Copies /\ Mirrors(y)
      <4> DEFINE y == [x EXCEPT !.doc = [@ EXCEPT !.complete = complete, !.state = state]]
      <4>1. x \in [ws : Nat, doc : Statements] /\ Mirrors(x)
        BY <1>2, <3>2 DEF Copies
      <4>2. y = [ws |-> x.ws, doc |-> [x.doc EXCEPT !.complete = complete, !.state = state]]
        BY <4>1
      <4>3. [x.doc EXCEPT !.complete = complete, !.state = state] \in Statements
        BY <4>1, <3>1 DEF Statements
      <4>4. y \in Copies
        BY <4>1, <4>2, <4>3 DEF Copies
      <4>5. Mirrors(y)
        BY <4>1, <4>2 DEF Mirrors, Statements
      <4> QED BY <4>4, <4>5
    <3> DEFINE back == {[x EXCEPT !.doc = [@ EXCEPT !.complete = complete, !.state = state]]
                           : x \in req[c].copies}
    <3>3. WriteBack(back) /\ \A y \in back : y \in Copies /\ Mirrors(y)
      BY <3>1, <3>2
    <3> HIDE DEF back
    <3> QED BY <3>3
  <2>2. CASE StabilizeSaves(c)
    <3>1. WriteBack({[x EXCEPT !.doc.state = "READY"] : x \in req[c].copies})
      BY <2>2 DEF StabilizeSaves
    <3>2. ASSUME NEW x \in req[c].copies
          PROVE  LET y == [x EXCEPT !.doc.state = "READY"]
                 IN  y \in Copies /\ Mirrors(y)
      BY <1>2 DEF Copies, Statements, States, Mirrors
    <3> QED BY <3>1, <3>2
  <2> QED BY <2>1, <2>2
<1>4. /\ Ends(c) /\ UNCHANGED <<crowd, imported, packages, screen>>
  BY DEF EditSaves, StabilizeSaves
<1>5. statements' \in Seq(Statements) /\ Grown /\ KeysBounded' /\ IndexesOwn'
  BY <1>3, <1>4, WrittenBack
<1>6. screen' = [screen EXCEPT ![c] = screen[c]] /\ screen'[c] = screen[c]
  BY <1>4 DEF Inv, TypeOK
<1>7. PICK s : s = screen[c]
  OBVIOUS
<1>8. ScreenOk(s)'
  BY <1>5, <1>6, <1>7, SameScreen
<1>9. packages' \in Seq(Packages)
  BY <1>4 DEF Inv, TypeOK
<1> QED BY <1>4, <1>5, <1>6, <1>7, <1>8, <1>9, EndKeepsInv

(***************************************************************************)
(* Every step, and the theorems.                                           *)
(***************************************************************************)
LEMMA NextKeepsInv ==
    ASSUME Inv, [Next]_vars
    PROVE  Inv'
<1>1. CASE Next
  <2>1. PICK c \in Clients :
        \/ Imports(c) \/ PromoteLooks(c) \/ PromoteMints(c) \/ PromoteInserts(c)
        \/ PatchLoads(c) \/ PatchSaves(c)
        \/ CreateLoads(c) \/ ProposeLoads(c) \/ ProposeFails(c)
        \/ StatementsMinted(c) \/ StatementsInserted(c)
        \/ Lists(c) \/ MoveLoads(c) \/ MoveSaves(c)
        \/ EditLoads(c) \/ EditSaves(c) \/ StabilizeLoads(c) \/ StabilizeSaves(c)
    BY <1>1 DEF Next
  <2>2. CASE Imports(c) \/ PromoteLooks(c) \/ PromoteMints(c) \/ PromoteInserts(c)
    BY <2>2, ImportKeepsInv, PromotionKeepsInv, PromoteKeepsInv
  <2>3. CASE PatchLoads(c) \/ PatchSaves(c) \/ CreateLoads(c) \/ ProposeLoads(c)
    BY <2>3, LoadKeepsInv, PatchKeepsInv
  <2>4. CASE ProposeFails(c) \/ StatementsMinted(c) \/ StatementsInserted(c)
    BY <2>4, ProposalKeepsInv, InsertionKeepsInv
  <2>5. CASE Lists(c) \/ MoveLoads(c) \/ MoveSaves(c)
    BY <2>5, ListKeepsInv, MoveLoadsKeepsInv, MoveKeepsInv
  <2>6. CASE EditLoads(c) \/ EditSaves(c) \/ StabilizeLoads(c) \/ StabilizeSaves(c)
    BY <2>6, StatementLoadsKeepsInv, WriteBackKeepsInv
  <2> QED BY <2>1, <2>2, <2>3, <2>4, <2>5, <2>6
<1>2. CASE UNCHANGED vars
  <2>1. UNCHANGED <<crowd, imported, packages, statements, req, screen>>
    BY <1>2 DEF vars
  <2>2. TypeOK'
    BY <2>1 DEF Inv, TypeOK
  <2>3. KeysBounded' /\ IndexesOwn'
    BY <2>1 DEF Inv, KeysBounded, IndexesOwn, Own
  <2>4. ASSUME NEW d \in Clients
        PROVE  Carries(req[d])' /\ Shows(screen[d])' /\ Sends(req[d], screen[d])'
    BY <2>1, SameGrows, OthersKeep
  <2> QED BY <2>2, <2>3, <2>4 DEF Inv
<1> QED BY <1>1, <1>2

LEMMA InvHolds == Spec => []Inv
<1>1. Init => Inv
  BY InvInitially
<1>2. Inv /\ [Next]_vars => Inv'
  BY NextKeepsInv
<1> QED BY <1>1, <1>2, PTL DEF Spec

\* The documents, requests, screens and lists keep their types, whatever
\* clients load, mint and save over each other (work_binder.py).
THEOREM BinderTyped == Spec => []TypeOK
<1>1. Inv => TypeOK
  BY DEF Inv
<1> QED BY <1>1, InvHolds, PTL

\* An index lists statements of its own package only: for any number of
\* clients, creations, proposals and reorders that overwrite each other's
\* index (create_work_statement, propose_work_statements, reorder_ws_index).
THEOREM IndexesNameTheirOwn == Spec => []IndexNamesItsOwn
<1>1. Inv => IndexNamesItsOwn
  BY DEF Inv, IndexesOwn, Own, IndexNamesItsOwn
<1> QED BY <1>1, InvHolds, PTL

\* A step of one client leaves the requests of the others alone.
LEMMA OthersUntouched ==
    ASSUME Inv, NEW c \in Clients, NEW d \in Clients \ {c},
           \/ Imports(d) \/ PromoteLooks(d) \/ PromoteMints(d) \/ PromoteInserts(d)
           \/ PatchLoads(d) \/ PatchSaves(d)
           \/ CreateLoads(d) \/ ProposeLoads(d) \/ ProposeFails(d)
           \/ StatementsMinted(d) \/ StatementsInserted(d)
           \/ Lists(d) \/ MoveLoads(d) \/ MoveSaves(d)
           \/ EditLoads(d) \/ EditSaves(d) \/ StabilizeLoads(d) \/ StabilizeSaves(d)
    PROVE  req'[c] = req[c]
<1>1. CASE Imports(d) \/ Lists(d)
  BY <1>1 DEF Imports, Lists
<1>2. CASE PromoteMints(d) \/ StatementsMinted(d)
  BY <1>2 DEF PromoteMints, StatementsMinted, Inv, TypeOK
<1>3. CASE \E r : Begins(d, r)
  BY <1>3 DEF Begins, Inv, TypeOK
<1>4. CASE Ends(d)
  BY <1>4 DEF Ends, Inv, TypeOK
<1>5. PromoteLooks(d) \/ PatchLoads(d) \/ CreateLoads(d) \/ ProposeLoads(d)
      \/ MoveLoads(d) \/ EditLoads(d) \/ StabilizeLoads(d) => \E r : Begins(d, r)
  BY DEF PromoteLooks, PatchLoads, CreateLoads, ProposeLoads, MoveLoads, EditLoads,
         StabilizeLoads
<1>6. PromoteInserts(d) \/ PatchSaves(d) \/ ProposeFails(d) \/ StatementsInserted(d)
      \/ MoveSaves(d) \/ EditSaves(d) \/ StabilizeSaves(d) => Ends(d)
  BY DEF PromoteInserts, PatchSaves, ProposeFails, StatementsInserted, MoveSaves,
         EditSaves, StabilizeSaves
<1> QED BY <1>1, <1>2, <1>3, <1>4, <1>5, <1>6

\* A request that stabilizes ends by saving what it validated.
LEMMA StabilizationSaves ==
    ASSUME Inv, Next, NEW c \in Clients, req[c].op = "stabilize", req'[c] = Idle
    PROVE  StabilizeSaves(c)
<1>1. PICK d \in Clients :
        \/ Imports(d) \/ PromoteLooks(d) \/ PromoteMints(d) \/ PromoteInserts(d)
        \/ PatchLoads(d) \/ PatchSaves(d)
        \/ CreateLoads(d) \/ ProposeLoads(d) \/ ProposeFails(d)
        \/ StatementsMinted(d) \/ StatementsInserted(d)
        \/ Lists(d) \/ MoveLoads(d) \/ MoveSaves(d)
        \/ EditLoads(d) \/ EditSaves(d) \/ StabilizeLoads(d) \/ StabilizeSaves(d)
  BY DEF Next
<1>2. req[c] # Idle
  BY DEF Idle
<1>3. d = c
  BY <1>1, <1>2, OthersUntouched
<1>4. ~ (Imports(c) \/ Lists(c) \/ \E r : Begins(c, r))
  BY <1>2 DEF Imports, Lists, Begins
<1>5. ~ (PromoteLooks(c) \/ PatchLoads(c) \/ CreateLoads(c) \/ ProposeLoads(c)
         \/ MoveLoads(c) \/ EditLoads(c) \/ StabilizeLoads(c))
  BY <1>4 DEF PromoteLooks, PatchLoads, CreateLoads, ProposeLoads, MoveLoads, EditLoads,
              StabilizeLoads
<1>6. ~ (PromoteMints(c) \/ PromoteInserts(c) \/ PatchSaves(c) \/ ProposeFails(c)
         \/ StatementsMinted(c) \/ StatementsInserted(c) \/ MoveSaves(c) \/ EditSaves(c))
  BY DEF PromoteMints, PromoteInserts, PatchSaves, ProposeFails, StatementsMinted,
         StatementsInserted, MoveSaves, EditSaves
<1> QED BY <1>1, <1>3, <1>4, <1>5, <1>6

LEMMA StabilizedIsComplete ==
    ASSUME Inv, NEW c \in Clients, StabilizeSaves(c), NEW w \in DOMAIN statements,
           statements[w].state = "DRAFT", statements'[w].state = "READY"
    PROVE  statements'[w].complete
<1> DEFINE saved == {[x EXCEPT !.doc.state = "READY"] : x \in req[c].copies}
<1>1. req[c] \in [op : {"edit", "stabilize"}, copies : SUBSET Copies]
      /\ \A x \in req[c].copies : x.doc.complete
  BY RequestKinds DEF StabilizeSaves, Inv, TypeOK, Carries
<1>2. statements'[w] = IF \E x \in saved : x.ws = w
                       THEN (CHOOSE x \in saved : x.ws = w).doc ELSE statements[w]
  BY DEF StabilizeSaves, WriteBack
<1>3. \E x \in saved : x.ws = w
  <2> HIDE DEF saved
  <2> QED BY <1>2
<1>4. PICK y \in saved : statements'[w] = y.doc
  <2> HIDE DEF saved
  <2> QED BY <1>2, <1>3
<1>5. PICK x \in req[c].copies : y = [x EXCEPT !.doc.state = "READY"]
  BY <1>4
<1>6. x \in Copies /\ x.doc.complete
  BY <1>1, <1>5
<1>7. y.doc.complete = x.doc.complete
  BY <1>5, <1>6 DEF Copies, Statements
<1> QED BY <1>4, <1>6, <1>7

\* What a stabilization makes READY is complete, for any number of clients
\* that edit and stabilize the same statements (stabilize_work_package,
\* stabilize_work_statement): it writes back the copies it validated.
THEOREM ReadyIsComplete == Spec => StabilizesComplete
<1>1. ASSUME Inv, [Next]_vars
      PROVE  [\A c \in Clients, w \in DOMAIN statements :
                 /\ req[c].op = "stabilize" /\ req'[c] = Idle
                 /\ statements[w].state = "DRAFT" /\ statements'[w].state = "READY"
                 => statements'[w].complete]_vars
  BY <1>1, StabilizationSaves, StabilizedIsComplete
<1> QED BY <1>1, InvHolds, PTL DEF Spec, StabilizesComplete

-----------------------------------------------------------------------------
(***************************************************************************)
(* One client at a time.  What the client that is alone has in flight, and *)
(* what it looks at, agrees with the database, so nothing it saves undoes  *)
(* anything.                                                               *)
(***************************************************************************)
Sole(c) == \A d \in Clients \ {c} : crowd[d] = {}

Listed == \A p \in DOMAIN packages : OfPackage(p) \subseteq packages[p].index

OnePackageEach ==
    \A p, q \in DOMAIN packages : packages[p].source = packages[q].source => p = q

\* A statement is of a package there is.
Homed == \A w \in DOMAIN statements : statements[w].wp \in DOMAIN packages

CurrentRequest(r) ==
    /\ r.op \in {"create", "propose", "patch", "reorder"} => r.copy = packages[r.wp]
    /\ r.op = "promote" => \A p \in DOMAIN packages : packages[p].source # r.source
    /\ r.op = "reorder" => OfPackage(r.wp) \subseteq Range(r.order)
    /\ r.op \in {"edit", "stabilize"} => \A x \in r.copies : x.doc = statements[x.ws]

CurrentScreen(s) == s # NoScreen => OfPackage(s.wp) \subseteq Range(s.order)

Kept(c) ==
    /\ \A d \in Clients \ {c} : req[d] = Idle
    /\ Listed /\ OnePackageEach /\ Homed
    /\ CurrentRequest(req[c]) /\ CurrentScreen(screen[c])

Solo == \A c \in Clients : Sole(c) => Kept(c)

Acts(c) ==
    \/ Imports(c) \/ PromoteLooks(c) \/ PromoteMints(c) \/ PromoteInserts(c)
    \/ PatchLoads(c) \/ PatchSaves(c)
    \/ CreateLoads(c) \/ ProposeLoads(c) \/ ProposeFails(c)
    \/ StatementsMinted(c) \/ StatementsInserted(c)
    \/ Lists(c) \/ MoveLoads(c) \/ MoveSaves(c)
    \/ EditLoads(c) \/ EditSaves(c) \/ StabilizeLoads(c) \/ StabilizeSaves(c)

LEMMA CrowdStays ==
    ASSUME [Next]_vars
    PROVE  UNCHANGED crowd
<1>1. CASE UNCHANGED vars
  BY <1>1 DEF vars
<1>2. CASE Next
  <2>1. PICK c \in Clients : Acts(c)
    BY <1>2 DEF Next, Acts
  <2> QED BY <2>1 DEF Acts, Imports, PromoteLooks, PromoteMints, PromoteInserts, PatchLoads,
          PatchSaves, CreateLoads, ProposeLoads, ProposeFails, StatementsMinted,
          StatementsInserted, Lists, MoveLoads, MoveSaves, EditLoads, EditSaves,
          StabilizeLoads, StabilizeSaves
<1> QED BY <1>1, <1>2

\* A client without operations that has no request in flight does nothing.
LEMMA OnlyTheSoleActs ==
    ASSUME NEW c \in Clients, Sole(c), Kept(c), NEW d \in Clients, Acts(d)
    PROVE  d = c
<1> SUFFICES ASSUME d # c PROVE FALSE
  OBVIOUS
<1>1. crowd[d] = {} /\ req[d] = Idle
  BY DEF Sole, Kept
<1>2. req[d].op = "idle"
  BY <1>1 DEF Idle
<1>3. ~ (Imports(d) \/ Lists(d) \/ \E r : Begins(d, r))
  BY <1>1 DEF Imports, Lists, Begins
<1>4. ~ (PromoteLooks(d) \/ PatchLoads(d) \/ CreateLoads(d) \/ ProposeLoads(d)
         \/ MoveLoads(d) \/ EditLoads(d) \/ StabilizeLoads(d))
  BY <1>3 DEF PromoteLooks, PatchLoads, CreateLoads, ProposeLoads, MoveLoads, EditLoads,
              StabilizeLoads
<1>5. ~ (PromoteMints(d) \/ PromoteInserts(d) \/ PatchSaves(d) \/ ProposeFails(d)
         \/ StatementsMinted(d) \/ StatementsInserted(d) \/ MoveSaves(d) \/ EditSaves(d)
         \/ StabilizeSaves(d))
  BY <1>2 DEF PromoteMints, PromoteInserts, PatchSaves, ProposeFails, StatementsMinted,
              StatementsInserted, MoveSaves, EditSaves, StabilizeSaves
<1> QED BY <1>3, <1>4, <1>5 DEF Acts

LEMMA RequestKept ==
    ASSUME Inv, NEW c \in Clients, Kept(c), NEW r, CurrentRequest(r),
           req' = [req EXCEPT ![c] = r], UNCHANGED <<packages, statements, screen>>
    PROVE  Kept(c)'
<1>1. req'[c] = r /\ \A d \in Clients \ {c} : req'[d] = Idle
  BY DEF Inv, TypeOK, Kept
<1>2. Listed' /\ OnePackageEach' /\ Homed'
  BY DEF Kept, Listed, OnePackageEach, Homed, OfPackage
<1>3. CurrentRequest(r)' /\ CurrentScreen(screen[c])'
  BY DEF Kept, CurrentRequest, CurrentScreen, OfPackage
<1>4. CurrentRequest(req[c])'
  BY <1>1, <1>3
<1> QED BY <1>1, <1>2, <1>3, <1>4 DEF Kept

LEMMA EndKept ==
    ASSUME Inv, NEW c \in Clients, Kept(c), Ends(c),
           Listed', OnePackageEach', Homed', CurrentScreen(screen[c])'
    PROVE  Kept(c)'
<1>1. req'[c] = Idle /\ \A d \in Clients \ {c} : req'[d] = Idle
  BY DEF Inv, TypeOK, Kept, Ends
<1>2. CurrentRequest(Idle)'
  BY DEF CurrentRequest, Idle
<1>3. CurrentRequest(req[c])'
  BY <1>1, <1>2
<1> QED BY <1>1, <1>3 DEF Kept

LEMMA LoadsKept ==
    ASSUME Inv, NEW c \in Clients, Kept(c),
           \/ PromoteLooks(c) \/ PromoteMints(c) \/ PatchLoads(c) \/ CreateLoads(c)
           \/ ProposeLoads(c) \/ ProposeFails(c) \/ StatementsMinted(c)
           \/ EditLoads(c) \/ StabilizeLoads(c)
    PROVE  Kept(c)'
<1>0. UNCHANGED <<packages, statements, screen>>
  BY DEF PromoteLooks, PromoteMints, PatchLoads, CreateLoads, ProposeLoads, ProposeFails,
         StatementsMinted, EditLoads, StabilizeLoads
<1>1. CASE PromoteLooks(c)
  <2>1. PICK k \in imported :
            /\ \A p \in DOMAIN packages : packages[p].source # k
            /\ Begins(c, [op |-> "promote", source |-> k, id |-> 0])
    BY <1>1 DEF PromoteLooks
  <2>2. CurrentRequest([op |-> "promote", source |-> k, id |-> 0])
    BY <2>1 DEF CurrentRequest
  <2> QED BY <1>0, <2>1, <2>2, RequestKept DEF Begins
<1>2. CASE PromoteMints(c)
  <2> DEFINE r == [req[c] EXCEPT !.id = Len(packages) + 1]
  <2>1. req[c] \in [op : {"promote"}, source : Candidates, id : Nat]
    BY <1>2, RequestKinds DEF PromoteMints, Inv, TypeOK
  <2>2. r.op = "promote" /\ r.source = req[c].source
    BY <2>1
  <2>3. req' = [req EXCEPT ![c] = r]
    BY <1>2 DEF PromoteMints
  <2> HIDE DEF r
  <2>4. CurrentRequest(r)
    BY <2>1, <2>2 DEF CurrentRequest, Kept
  <2> QED BY <1>0, <2>3, <2>4, RequestKept
<1>3. CASE PatchLoads(c)
  <2>1. PICK p \in DOMAIN packages :
            Begins(c, [op |-> "patch", wp |-> p, copy |-> packages[p]])
    BY <1>3 DEF PatchLoads
  <2>2. CurrentRequest([op |-> "patch", wp |-> p, copy |-> packages[p]])
    BY DEF CurrentRequest
  <2> QED BY <1>0, <2>1, <2>2, RequestKept DEF Begins
<1>4. CASE CreateLoads(c) \/ ProposeLoads(c)
  <2>1. PICK p \in DOMAIN packages, o \in {"create", "propose"} :
            Begins(c, [op |-> o, wp |-> p, copy |-> packages[p], ids |-> {}])
    BY <1>4 DEF CreateLoads, ProposeLoads
  <2>2. CurrentRequest([op |-> o, wp |-> p, copy |-> packages[p], ids |-> {}])
    BY DEF CurrentRequest
  <2> QED BY <1>0, <2>1, <2>2, RequestKept DEF Begins
<1>5. CASE ProposeFails(c)
  <2>1. CurrentRequest(Idle)
    BY DEF CurrentRequest, Idle
  <2> QED BY <1>0, <1>5, <2>1, RequestKept DEF ProposeFails, Ends
<1>6. CASE StatementsMinted(c)
  <2>1. PICK ids : req' = [req EXCEPT ![c].ids = ids]
    BY <1>6 DEF StatementsMinted
  <2> DEFINE r == [req[c] EXCEPT !.ids = ids]
  <2>2. req[c] \in [op : {"create", "propose"}, wp : Nat, copy : Packages, ids : SUBSET Nat]
    BY <1>6, RequestKinds DEF StatementsMinted, Inv, TypeOK
  <2>3. r.op = req[c].op /\ r.copy = req[c].copy /\ r.wp = req[c].wp
    BY <2>2
  <2>4. req' = [req EXCEPT ![c] = r]
    BY <2>1
  <2> HIDE DEF r
  <2>5. CurrentRequest(r)
    BY <2>2, <2>3 DEF CurrentRequest, Kept
  <2> QED BY <1>0, <2>4, <2>5, RequestKept
<1>7. CASE EditLoads(c)
  <2>1. PICK w \in DOMAIN statements : Begins(c, [op |-> "edit", copies |-> Loaded({w})])
    BY <1>7 DEF EditLoads
  <2>2. CurrentRequest([op |-> "edit", copies |-> Loaded({w})])
    BY LoadedStatements DEF CurrentRequest
  <2> QED BY <1>0, <2>1, <2>2, RequestKept DEF Begins
<1>8. CASE StabilizeLoads(c)
  <2>1. PICK W \in {{w} : w \in DOMAIN statements} \cup {OfPackage(p) : p \in DOMAIN packages} :
            Begins(c, [op |-> "stabilize", copies |-> Loaded(Drafts(W))])
    BY <1>8 DEF StabilizeLoads
  <2>2. Drafts(W) \subseteq DOMAIN statements
    BY DEF Drafts, OfPackage
  <2>3. CurrentRequest([op |-> "stabilize", copies |-> Loaded(Drafts(W))])
    BY <2>2, LoadedStatements DEF CurrentRequest
  <2> QED BY <1>0, <2>1, <2>3, RequestKept DEF Begins
<1> QED BY <1>1, <1>2, <1>3, <1>4, <1>5, <1>6, <1>7, <1>8

\* Saving a copy that agrees with the package changes what was meant only.
LEMMA SavedCopy ==
    ASSUME Inv, NEW p \in DOMAIN packages, NEW new \in Packages,
           new.source = packages[p].source, packages' = Saved(p, packages[p], new)
    PROVE  /\ DOMAIN packages' = DOMAIN packages
           /\ packages'[p].index = new.index
           /\ \A q \in DOMAIN packages \ {p} : packages'[q] = packages[q]
           /\ \A q \in DOMAIN packages : packages'[q].source = packages[q].source
<1>1. CASE new = packages[p]
  BY <1>1 DEF Saved
<1>2. CASE new # packages[p]
  <2> DEFINE saved == [new EXCEPT !.edition = packages[p].edition + 1]
  <2>1. saved.index = new.index /\ saved.source = new.source
    BY DEF Packages
  <2>2. packages' = [packages EXCEPT ![p] = saved]
    BY <1>2 DEF Saved
  <2> HIDE DEF saved
  <2> QED BY <2>1, <2>2 DEF Inv, TypeOK
<1> QED BY <1>1, <1>2

LEMMA PromoteKept ==
    ASSUME Inv, NEW c \in Clients, Kept(c), PromoteInserts(c)
    PROVE  Kept(c)'
<1> DEFINE new == [source |-> req[c].source, pinned |-> FALSE, done |-> FALSE,
                   index |-> {}, edition |-> 1]
<1>1. Ends(c) /\ UNCHANGED <<statements, screen>>
  BY DEF PromoteInserts
<1>2. \A p \in DOMAIN packages : packages[p].source # req[c].source
  BY DEF Kept, CurrentRequest, PromoteInserts
<1>3. packages' = packages \/ packages' = Append(packages, new)
  BY DEF PromoteInserts
<1>4. Listed' /\ OnePackageEach' /\ Homed'
  <2>1. CASE packages' = packages
    BY <1>1, <2>1 DEF Kept, Listed, OnePackageEach, Homed, OfPackage
  <2>2. CASE packages' = Append(packages, new)
    <3>1. new.index = {} /\ new.source = req[c].source
      OBVIOUS
    <3> HIDE DEF new
    <3>2. /\ DOMAIN packages' = DOMAIN packages \cup {Len(packages) + 1}
          /\ Len(packages) + 1 \notin DOMAIN packages
          /\ \A q \in DOMAIN packages : packages'[q] = packages[q]
          /\ packages'[Len(packages) + 1] = new
      BY <2>2 DEF Inv, TypeOK
    <3>3. Homed'
      BY <1>1, <3>2 DEF Kept, Homed
    <3>4. ASSUME NEW q \in DOMAIN packages', NEW w \in DOMAIN statements,
                 statements[w].wp = q
          PROVE  w \in packages'[q].index
      <4>1. q \in DOMAIN packages
        BY <3>4 DEF Kept, Homed
      <4>2. w \in packages[q].index
        BY <3>4, <4>1 DEF Kept, Listed, OfPackage
      <4> QED BY <3>2, <4>1, <4>2
    <3>5. Listed'
      BY <1>1, <3>4 DEF Listed, OfPackage
    <3>6. OnePackageEach'
      BY <1>2, <3>1, <3>2 DEF Kept, OnePackageEach
    <3> QED BY <3>3, <3>5, <3>6
  <2> QED BY <1>3, <2>1, <2>2
<1>5. CurrentScreen(screen[c])'
  BY <1>1 DEF Kept, CurrentScreen, OfPackage
<1> QED BY <1>1, <1>4, <1>5, EndKept

LEMMA PatchKept ==
    ASSUME Inv, NEW c \in Clients, Kept(c), PatchSaves(c)
    PROVE  Kept(c)'
<1> DEFINE p == req[c].wp
<1>1. /\ p \in DOMAIN packages /\ packages[p] \in Packages
      /\ req[c].copy = packages[p] /\ Ends(c) /\ UNCHANGED <<statements, screen>>
  BY LoadedPackage DEF PatchSaves, Inv, Carries, Kept, CurrentRequest
<1>2. PICK pinned, done \in BOOLEAN :
        packages' = Saved(p, packages[p], [packages[p] EXCEPT !.pinned = pinned, !.done = done])
  BY <1>1 DEF PatchSaves
<1> DEFINE new == [packages[p] EXCEPT !.pinned = pinned, !.done = done]
<1>3. new \in Packages /\ new.index = packages[p].index /\ new.source = packages[p].source
  BY <1>1 DEF Packages
<1>4. packages' = Saved(p, packages[p], new)
  BY <1>2
<1> HIDE DEF new, p
<1>5. /\ DOMAIN packages' = DOMAIN packages
      /\ \A q \in DOMAIN packages : packages'[q].source = packages[q].source
      /\ \A q \in DOMAIN packages : packages'[q].index = packages[q].index
  BY <1>1, <1>3, <1>4, SavedCopy
<1>6. Listed' /\ OnePackageEach' /\ Homed' /\ CurrentScreen(screen[c])'
  BY <1>1, <1>5 DEF Kept, Listed, OnePackageEach, Homed, OfPackage, CurrentScreen
<1> QED BY <1>1, <1>6, EndKept

LEMMA MoveKept ==
    ASSUME Inv, NEW c \in Clients, Kept(c), MoveSaves(c)
    PROVE  Kept(c)'
<1>0. PICK p, order, shown :
        p = req[c].wp /\ order = req[c].order /\ shown = screen[c]
  OBVIOUS
<1> DEFINE new == [packages[p] EXCEPT !.index = Range(order)]
           s == [shown EXCEPT !.order = order]
<1>1. req[c] \in [op : {"reorder"}, wp : Nat, copy : Packages, order : Seq(Nat)]
  BY RequestKinds DEF MoveSaves, Inv, TypeOK
<1>2. /\ p \in DOMAIN packages /\ packages[p] \in Packages
      /\ req[c].copy = packages[p] /\ OfPackage(p) \subseteq Range(order)
      /\ shown.wp = p /\ shown \in [wp : Nat, order : Seq(Nat)]
      /\ Range(order) \subseteq Nat
  <2>1. order \in Seq(Nat)
    BY <1>0, <1>1
  <2>2. Range(order) \subseteq Nat
    BY <2>1 DEF Range
  <2> QED BY <1>0, <1>1, <2>2, LoadedPackage
          DEF Inv, TypeOK, Carries, Sends, Kept, CurrentRequest
<1>3. /\ packages' = Saved(p, packages[p], new) /\ screen'[c] = s
      /\ Ends(c) /\ UNCHANGED statements
  BY <1>0, <1>2 DEF MoveSaves, Inv, TypeOK
<1>4. new \in Packages /\ new.index = Range(order) /\ new.source = packages[p].source
  BY <1>2 DEF Packages
<1>5. s.wp = p /\ s.order = order
  BY <1>2
<1> HIDE DEF new, s
<1>6. /\ DOMAIN packages' = DOMAIN packages
      /\ packages'[p].index = Range(order)
      /\ \A q \in DOMAIN packages \ {p} : packages'[q] = packages[q]
      /\ \A q \in DOMAIN packages : packages'[q].source = packages[q].source
  BY <1>2, <1>3, <1>4, SavedCopy
<1>7. OnePackageEach' /\ Homed'
  BY <1>3, <1>6 DEF Kept, OnePackageEach, Homed
<1>8. \A q : OfPackage(q)' = OfPackage(q)
  BY <1>3 DEF OfPackage
<1>9. Listed'
  BY <1>2, <1>6, <1>8 DEF Kept, Listed
<1>10. CurrentScreen(screen[c])'
  BY <1>2, <1>3, <1>5, <1>8 DEF CurrentScreen
<1> QED BY <1>3, <1>7, <1>9, <1>10, EndKept

LEMMA InsertionKept ==
    ASSUME Inv, NEW c \in Clients, Kept(c), StatementsInserted(c)
    PROVE  Kept(c)'
<1>0. PICK p, ids : p = req[c].wp /\ ids = req[c].ids
  OBVIOUS
<1>1. req[c] \in [op : {"create", "propose"}, wp : Nat, copy : Packages, ids : SUBSET Nat]
  BY RequestKinds DEF StatementsInserted, Inv, TypeOK
<1>2. /\ p \in DOMAIN packages /\ packages[p] \in Packages
      /\ req[c].copy = packages[p] /\ ids \subseteq Nat
  BY <1>0, <1>1, LoadedPackage DEF Inv, Carries, Kept, CurrentRequest
<1>3. Ends(c) /\ screen'[c] = NoScreen
  BY DEF StatementsInserted, Inv, TypeOK
<1>4. CurrentScreen(screen[c])'
  BY <1>3 DEF CurrentScreen
<1>5. Listed' /\ OnePackageEach' /\ Homed'
  <2>1. CASE ids \cap DOMAIN statements # {}
    <3>1. UNCHANGED <<packages, statements>>
      BY <1>0, <2>1 DEF StatementsInserted
    <3> QED BY <3>1 DEF Kept, Listed, OnePackageEach, Homed, OfPackage
  <2>2. CASE ids \cap DOMAIN statements = {}
    <3> DEFINE new == [packages[p] EXCEPT !.index = @ \cup ids]
    <3>1. PICK complete \in [ids -> BOOLEAN] :
              statements' = [w \in DOMAIN statements \cup ids |->
                                IF w \in DOMAIN statements THEN statements[w]
                                ELSE NewStatement(c, w, complete[w])]
      BY <1>0, <2>2 DEF StatementsInserted
    <3>2. \A w \in ids : NewStatement(c, w, complete[w]).wp = p
      BY <1>0 DEF NewStatement
    <3>3. /\ DOMAIN statements' = DOMAIN statements \cup ids
          /\ \A w \in DOMAIN statements : statements'[w] = statements[w]
          /\ \A w \in ids : statements'[w].wp = p
      BY <2>2, <3>1, <3>2
    <3>4. packages' = Saved(p, packages[p], new)
      BY <1>0, <1>2, <2>2 DEF StatementsInserted
    <3>5. /\ new \in Packages /\ new.source = packages[p].source
          /\ new.index = packages[p].index \cup ids
      BY <1>2 DEF Packages
    <3> HIDE DEF new
    <3>6. /\ DOMAIN packages' = DOMAIN packages
          /\ packages'[p].index = packages[p].index \cup ids
          /\ \A q \in DOMAIN packages \ {p} : packages'[q] = packages[q]
          /\ \A q \in DOMAIN packages : packages'[q].source = packages[q].source
      BY <1>2, <3>4, <3>5, SavedCopy
    <3>7. OnePackageEach' /\ Homed'
      BY <1>2, <3>3, <3>6 DEF Kept, OnePackageEach, Homed
    <3>8. OfPackage(p)' \subseteq OfPackage(p) \cup ids
          /\ \A q \in DOMAIN packages \ {p} : OfPackage(q)' = OfPackage(q)
      BY <3>3 DEF OfPackage
    <3>9. Listed'
      BY <1>2, <3>6, <3>8 DEF Kept, Listed
    <3> QED BY <3>7, <3>9
  <2> QED BY <2>1, <2>2
<1> QED BY <1>3, <1>4, <1>5, EndKept

\* A list of a set of statements names each of them.
LEMMA ListNamesAll ==
    ASSUME Inv, NEW W, W \subseteq DOMAIN statements, NEW f \in SetToSeqs(W)
    PROVE  W \subseteq Range(f)
<1>1. IsFiniteSet(W) /\ Cardinality(W) \in Nat
  <2>1. Len(statements) \in Nat /\ DOMAIN statements = 1 .. Len(statements)
    BY DEF Inv, TypeOK
  <2>2. IsFiniteSet(1 .. Len(statements))
    BY <2>1, FS_Interval
  <2> QED BY <2>1, <2>2, FS_Subset, FS_CardinalityType
<1> DEFINE D == 1 .. Cardinality(W)
<1>2. f \in [D -> W] /\ \A i, j \in D : i # j => f[i] # f[j]
  BY DEF SetToSeqs
<1>3. f \in Injection(D, W)
  BY <1>2 DEF Injection, IsInjective
<1>4. Cardinality(D) = Cardinality(W)
  BY <1>1, FS_Interval
<1>5. f \in Surjection(D, W)
  BY <1>1, <1>3, <1>4, FS_Injection
<1> QED BY <1>2, <1>5 DEF Surjection, Range

LEMMA ListKept ==
    ASSUME Inv, NEW c \in Clients, Kept(c), Lists(c)
    PROVE  Kept(c)'
<1>1. PICK p \in DOMAIN packages :
        \E first \in SetToSeqs(packages[p].index),
           rest \in SetToSeqs(OfPackage(p) \ packages[p].index) :
              screen' = [screen EXCEPT ![c] = [wp |-> p, order |-> first \o rest]]
  BY DEF Lists
<1>2. PICK first \in SetToSeqs(packages[p].index),
           rest \in SetToSeqs(OfPackage(p) \ packages[p].index) :
        screen' = [screen EXCEPT ![c] = [wp |-> p, order |-> first \o rest]]
  BY <1>1
<1>3. /\ packages[p].index \subseteq DOMAIN statements
      /\ OfPackage(p) \ packages[p].index \subseteq DOMAIN statements
  BY LoadedPackage DEF Own, OfPackage
<1>4. first \in Seq(Nat) /\ rest \in Seq(Nat) /\ packages[p].index \subseteq Range(first)
  BY <1>3, ListOfSet, ListNamesAll
<1>5. Range(first) \subseteq Range(first \o rest)
  <2> SUFFICES ASSUME NEW i \in DOMAIN first
               PROVE  first[i] \in Range(first \o rest)
    BY DEF Range
  <2>1. i \in DOMAIN (first \o rest) /\ (first \o rest)[i] = first[i]
    BY <1>4
  <2> QED BY <2>1 DEF Range
<1>6. OfPackage(p) \subseteq Range(first \o rest)
  BY <1>4, <1>5 DEF Kept, Listed
<1> DEFINE s == [wp |-> p, order |-> first \o rest]
<1>7. s.wp = p /\ s.order = first \o rest
  OBVIOUS
<1>8. screen'[c] = s /\ UNCHANGED <<packages, statements, req>>
  BY <1>2 DEF Lists, Inv, TypeOK
<1> HIDE DEF s
<1>9. CurrentScreen(s)'
  BY <1>6, <1>7, <1>8 DEF CurrentScreen, OfPackage
<1>10. Listed' /\ OnePackageEach' /\ Homed' /\ CurrentRequest(req[c])'
  BY <1>8 DEF Kept, Listed, OnePackageEach, Homed, OfPackage, CurrentRequest
<1> QED BY <1>8, <1>9, <1>10 DEF Kept, CurrentScreen

LEMMA MoveLoadsKept ==
    ASSUME Inv, NEW c \in Clients, Kept(c), MoveLoads(c)
    PROVE  Kept(c)'
<1> DEFINE s == screen[c].order
<1>1. PICK i \in DOMAIN s :
        /\ i + 1 \in DOMAIN s
        /\ Begins(c, [op |-> "reorder", wp |-> screen[c].wp,
                      copy |-> packages[screen[c].wp],
                      order |-> [s EXCEPT ![i] = s[i + 1], ![i + 1] = s[i]]])
  BY DEF MoveLoads
<1> DEFINE order == [s EXCEPT ![i] = s[i + 1], ![i + 1] = s[i]]
           r == [op |-> "reorder", wp |-> screen[c].wp, copy |-> packages[screen[c].wp],
                 order |-> order]
<1>2. OfPackage(screen[c].wp) \subseteq Range(s)
  BY DEF MoveLoads, Kept, CurrentScreen
<1>3. s \in Seq(Nat)
  BY DEF Inv, TypeOK
<1>4. r.op = "reorder" /\ r.wp = screen[c].wp /\ r.copy = packages[r.wp] /\ r.order = order
  OBVIOUS
<1> HIDE DEF s
<1>5. Range(s) \subseteq Range(order)
  <2> SUFFICES ASSUME NEW j \in DOMAIN s PROVE s[j] \in Range(order)
    BY DEF Range
  <2>1. DOMAIN order = DOMAIN s
    BY <1>1, <1>3
  <2>2. CASE j = i
    <3>1. order[i + 1] = s[j]
      BY <1>1, <1>3, <2>2
    <3> QED BY <1>1, <2>1, <3>1 DEF Range
  <2>3. CASE j = i + 1
    <3>1. order[i] = s[j]
      BY <1>1, <1>3, <2>3
    <3> QED BY <1>1, <2>1, <3>1 DEF Range
  <2>4. CASE j # i /\ j # i + 1
    <3>1. order[j] = s[j]
      BY <1>1, <1>3, <2>4
    <3> QED BY <2>1, <3>1 DEF Range
  <2> QED BY <2>2, <2>3, <2>4
<1>6. req' = [req EXCEPT ![c] = r]
  BY <1>1 DEF Begins, s
<1> HIDE DEF order, r
<1>7. CurrentRequest(r)
  BY <1>2, <1>4, <1>5 DEF CurrentRequest, s
<1> QED BY <1>6, <1>7, RequestKept DEF MoveLoads

\* What a sole client writes back keeps the statement in its package.
LEMMA WrittenAsMeant ==
    ASSUME Inv, NEW c \in Clients, Kept(c), EditSaves(c) \/ StabilizeSaves(c)
    PROVE  /\ DOMAIN statements' = DOMAIN statements
           /\ \A w \in DOMAIN statements : statements'[w].wp = statements[w].wp
<1>1. req[c] \in [op : {"edit", "stabilize"}, copies : SUBSET Copies]
  BY RequestKinds DEF EditSaves, StabilizeSaves, Inv, TypeOK
<1>2. \A x \in req[c].copies : x \in Copies /\ x.doc = statements[x.ws]
  BY <1>1 DEF Kept, CurrentRequest
<1>3. PICK copies : /\ WriteBack(copies)
                    /\ \A y \in copies : y.doc.wp = statements[y.ws].wp
  <2>1. CASE EditSaves(c)
    <3>1. PICK complete \in BOOLEAN, state \in States :
              WriteBack({[x EXCEPT !.doc = [@ EXCEPT !.complete = complete, !.state = state]]
                            : x \in req[c].copies})
      BY <2>1 DEF EditSaves
    <3> DEFINE back == {[x EXCEPT !.doc = [@ EXCEPT !.complete = complete, !.state = state]]
                           : x \in req[c].copies}
    <3>2. ASSUME NEW y \in back
          PROVE  y.doc.wp = statements[y.ws].wp
      <4>1. PICK x \in req[c].copies :
                y = [x EXCEPT !.doc = [@ EXCEPT !.complete = complete, !.state = state]]
        BY <3>2
      <4>2. y.ws = x.ws /\ y.doc.wp = x.doc.wp
        BY <1>2, <4>1 DEF Copies, Statements
      <4> QED BY <1>2, <4>2
    <3>3. WriteBack(back)
      BY <3>1
    <3> HIDE DEF back
    <3> QED BY <3>2, <3>3
  <2>2. CASE StabilizeSaves(c)
    <3> DEFINE back == {[x EXCEPT !.doc.state = "READY"] : x \in req[c].copies}
    <3>1. WriteBack(back)
      BY <2>2 DEF StabilizeSaves
    <3>2. ASSUME NEW y \in back
          PROVE  y.doc.wp = statements[y.ws].wp
      <4>1. PICK x \in req[c].copies : y = [x EXCEPT !.doc.state = "READY"]
        BY <3>2
      <4>2. y.ws = x.ws /\ y.doc.wp = x.doc.wp
        BY <1>2, <4>1 DEF Copies, Statements
      <4> QED BY <1>2, <4>2
    <3> HIDE DEF back
    <3> QED BY <3>1, <3>2
  <2> QED BY <2>1, <2>2
<1>4. ASSUME NEW w \in DOMAIN statements
      PROVE  statements'[w].wp = statements[w].wp
  <2>1. CASE \E x \in copies : x.ws = w
    <3> DEFINE x == CHOOSE y \in copies : y.ws = w
    <3>1. x \in copies /\ x.ws = w
      BY <2>1
    <3>2. statements'[w] = x.doc
      BY <1>3, <2>1 DEF WriteBack
    <3> HIDE DEF x
    <3> QED BY <1>3, <3>1, <3>2
  <2>2. CASE ~ \E x \in copies : x.ws = w
    BY <1>3, <2>2 DEF WriteBack
  <2> QED BY <2>1, <2>2
<1> QED BY <1>3, <1>4 DEF WriteBack

LEMMA WriteBackKept ==
    ASSUME Inv, NEW c \in Clients, Kept(c), EditSaves(c) \/ StabilizeSaves(c)
    PROVE  Kept(c)'
<1>1. Ends(c) /\ UNCHANGED <<packages, screen>>
  BY DEF EditSaves, StabilizeSaves
<1>2. \A p : OfPackage(p)' = OfPackage(p)
  BY WrittenAsMeant DEF OfPackage
<1>3. Homed'
  BY <1>1, WrittenAsMeant DEF Kept, Homed
<1>4. Listed' /\ OnePackageEach' /\ CurrentScreen(screen[c])'
  BY <1>1, <1>2 DEF Kept, Listed, OnePackageEach, CurrentScreen
<1> QED BY <1>1, <1>3, <1>4, EndKept

LEMMA SoloKept ==
    ASSUME Inv, Solo, [Next]_vars
    PROVE  Solo'
<1> SUFFICES ASSUME NEW c \in Clients, Sole(c)' PROVE Kept(c)'
  BY DEF Solo
<1>1. Sole(c)
  BY CrowdStays DEF Sole
<1>2. Kept(c)
  BY <1>1 DEF Solo
<1>3. CASE UNCHANGED <<packages, statements, req, screen>>
  BY <1>2, <1>3 DEF Kept, Listed, OnePackageEach, Homed, OfPackage, CurrentRequest,
                    CurrentScreen
<1>4. CASE Next
  <2>1. Acts(c)
    <3>1. PICK d \in Clients : Acts(d)
      BY <1>4 DEF Next, Acts
    <3> QED BY <1>1, <1>2, <3>1, OnlyTheSoleActs
  <2>2. CASE Imports(c)
    BY <1>3, <2>2 DEF Imports
  <2>3. CASE \/ PromoteLooks(c) \/ PromoteMints(c) \/ PatchLoads(c) \/ CreateLoads(c)
             \/ ProposeLoads(c) \/ ProposeFails(c) \/ StatementsMinted(c)
             \/ EditLoads(c) \/ StabilizeLoads(c)
    BY <1>2, <2>3, LoadsKept
  <2>4. CASE PromoteInserts(c) \/ PatchSaves(c) \/ MoveSaves(c)
    BY <1>2, <2>4, PromoteKept, PatchKept, MoveKept
  <2>5. CASE StatementsInserted(c) \/ Lists(c) \/ MoveLoads(c)
    BY <1>2, <2>5, InsertionKept, ListKept, MoveLoadsKept
  <2>6. CASE EditSaves(c) \/ StabilizeSaves(c)
    BY <1>2, <2>6, WriteBackKept
  <2> QED BY <2>1, <2>2, <2>3, <2>4, <2>5, <2>6 DEF Acts
<1> QED BY <1>3, <1>4 DEF vars

LEMMA SoloHolds == Spec => [](Inv /\ Solo)
<1>1. Init => Inv /\ Solo
  <2> SUFFICES ASSUME Init, NEW c \in Clients PROVE Kept(c)
    BY InvInitially DEF Solo
  <2>1. Listed /\ OnePackageEach /\ Homed /\ \A d \in Clients : req[d] = Idle
    BY DEF Init, Listed, OnePackageEach, Homed
  <2>2. CurrentRequest(Idle) /\ CurrentScreen(NoScreen)
    BY DEF CurrentRequest, CurrentScreen, Idle
  <2> QED BY <2>1, <2>2 DEF Init, Kept
<1>2. Inv /\ Solo /\ [Next]_vars => (Inv /\ Solo)'
  BY NextKeepsInv, SoloKept
<1> QED BY <1>1, <1>2, PTL DEF Spec

\* NoneLeftOut: of a client that is alone, no creation, proposal or move drops
\* a statement from its package's index (add_ws_to_wp_index,
\* build_ws_index_entries, reorder_ws_index), whatever the client does between.
THEOREM NoStatementLeftOut == Spec => []NoneLeftOut
<1>1. Solo => NoneLeftOut
  BY DEF Solo, Sole, Kept, Listed, Alone, NoneLeftOut
<1> QED BY <1>1, SoloHolds, PTL

\* PromotedOnce: a client that is alone gets one package of each candidate,
\* however often it promotes it (_find_wp_by_source_wpc).
THEOREM CandidatePromotedOnce == Spec => []PromotedOnce
<1>1. Solo => PromotedOnce
  BY DEF Solo, Sole, Kept, OnePackageEach, Alone, PromotedOnce
<1> QED BY <1>1, SoloHolds, PTL
=============================================================================
