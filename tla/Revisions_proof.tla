---------------------------- MODULE Revisions_proof ----------------------------
(***************************************************************************)
(* Proofs about Revisions, for any proposals, reviewers, page size and any *)
(* number of comments, pushes and mishaps: no comment is passed over, none *)
(* is answered with more commits than it may be, and no push is taken back *)
(* except one made while a revision was being drafted.                     *)
(***************************************************************************)
EXTENDS Revisions, FiniteSetTheorems, TLAPS

-----------------------------------------------------------------------------
(* Least and largest members.  The induction runs over the finite subsets   *)
(* of S, ordered by inclusion: a least one without extremes has a member    *)
(* whose removal leaves one with extremes, or nothing.                      *)
LEMMA Extremes ==
    ASSUME NEW S \in SUBSET Int, S # {}, IsFiniteSet(S)
    PROVE  /\ \E m \in S : \A x \in S : m <= x
           /\ \E m \in S : \A x \in S : x <= m
<1> DEFINE Has(T) == /\ \E m \in T : \A x \in T : m <= x
                     /\ \E m \in T : \A x \in T : x <= m
           Bad == {T \in FiniteSubsetsOf(S) : T # {} /\ ~ Has(T)}
<1>1. SUFFICES ASSUME Bad # {} PROVE FALSE
  BY DEF FiniteSubsetsOf
<1>2. PICK T \in Bad : \A U \in Bad : ~ (<<U, T>> \in StrictSubsetOrdering(S))
  <2>1. Bad \subseteq FiniteSubsetsOf(S)
    OBVIOUS
  <2> HIDE DEF Bad
  <2> QED BY <1>1, <2>1, FS_StrictSubsetOrderingWellFounded, WFMin
<1>3. PICK t \in T : TRUE
  OBVIOUS
<1> DEFINE U == T \ {t}
<1>4. U \in FiniteSubsetsOf(S) /\ <<U, T>> \in StrictSubsetOrdering(S)
  BY FS_RemoveElement DEF FiniteSubsetsOf, StrictSubsetOrdering
<1>5. T \subseteq Int /\ t \in Int /\ ~ Has(T)
  BY DEF FiniteSubsetsOf
<1>6. CASE U = {}
  <2>1. \A x \in T : x = t
    BY <1>6
  <2> QED BY <1>5, <2>1
<1>7. CASE U # {}
  <2>1. PICK l \in U, m \in U : \A x \in U : l <= x /\ x <= m
    BY <1>2, <1>4, <1>7
  <2>2. \A x \in T : x \in U \/ x = t
    OBVIOUS
  <2>3. l \in T /\ m \in T /\ U \subseteq Int
    BY <1>5
  <2> HIDE DEF Bad, U
  <2>4. \E a \in T : \A x \in T : a <= x
    BY <1>5, <2>1, <2>2, <2>3
  <2>5. \E a \in T : \A x \in T : x <= a
    BY <1>5, <2>1, <2>2, <2>3
  <2> QED BY <1>5, <2>4, <2>5
<1> QED BY <1>6, <1>7

LEMMA MinMax ==
    ASSUME NEW S \in SUBSET Int, S # {}, IsFiniteSet(S)
    PROVE  /\ Min(S) \in S /\ \A x \in S : Min(S) <= x
           /\ Max(S) \in S /\ \A x \in S : x <= Max(S)
<1>1. Min(S) \in S /\ \A x \in S : Min(S) <= x
  BY Extremes DEF Min
<1>2. \E m \in S : \A x \in S : m >= x
  BY Extremes
<1> QED BY <1>1, <1>2 DEF Max

-----------------------------------------------------------------------------
(* Types                                                                    *)

Judging == at \notin {"idle", "listing"}

LEMMA Domain ==
    ASSUME TypeOK
    PROVE  /\ DOMAIN said = 1..Len(said) /\ Len(said) \in Nat
           /\ DOMAIN said \subseteq Comments /\ DOMAIN said \subseteq Int
           /\ IsFiniteSet(DOMAIN said)
           /\ \A c \in DOMAIN said :
                 said[c] \in [pull: Pulls, by: Authors, there: BOOLEAN]
<1>1. said \in Seq([pull: Pulls, by: Authors, there: BOOLEAN]) /\ Len(said) <= MaxComments
  BY DEF TypeOK
<1>2. IsFiniteSet(1..Len(said))
  BY <1>1, FS_Interval
<1>3. DOMAIN said = 1..Len(said) /\ Len(said) \in Nat
  BY <1>1
<1>4. 1..Len(said) \subseteq 1..MaxComments
  <2>1. Len(said) <= MaxComments /\ Len(said) \in Int /\ MaxComments \in Int
    BY <1>1, <1>3, BoundAssumption
  <2> QED BY <2>1
<1>5. ASSUME NEW c \in 1..Len(said)
      PROVE  said[c] \in [pull: Pulls, by: Authors, there: BOOLEAN]
  <2> DEFINE R == [pull: Pulls, by: Authors, there: BOOLEAN]
  <2>1. said \in Seq(R)
    BY <1>1
  <2> HIDE DEF R
  <2>2. said[c] \in R
    BY <2>1, <1>5
  <2> QED BY <2>2 DEF R
<1> QED BY <1>2, <1>3, <1>4, <1>5 DEF Comments

LEMMA HandIsLeast ==
    ASSUME TypeOK, Judging
    PROVE  /\ AtHand \in queue /\ \A c \in queue : AtHand <= c
           /\ AtHand \in DOMAIN said /\ AtHand \in Comments
           /\ pull \in Pulls /\ said[AtHand].pull = pull
           /\ up = "polling"
<1>1. queue # {} /\ queue \subseteq DOMAIN said /\ pull \in Pulls /\ up = "polling"
      /\ \A c \in queue : said[c].pull = pull
  BY DEF TypeOK, Judging
<1>2. queue \in SUBSET Int /\ IsFiniteSet(queue)
  BY <1>1, Domain, FS_Subset
<1>3. AtHand \in queue /\ \A c \in queue : AtHand <= c
  BY <1>1, <1>2, MinMax DEF AtHand, OldestIn
<1> QED BY <1>1, <1>3, Domain

(* On to the next proposal.                                                 *)
LEMMA GoesOn ==
    ASSUME NEW rest \in SUBSET Pulls, GoOn(rest)
    PROVE  /\ at' \in {"idle", "listing"} /\ (at' = "idle" <=> pull' = Nothing)
           /\ pull' \in Pulls \cup {Nothing} /\ todo' \in SUBSET Pulls
           /\ page' = 0 /\ queue' = {} /\ draft' = {}
<1>1. CASE rest = {}
  BY <1>1 DEF GoOn
<1>2. CASE rest # {}
  <2>1. IsFiniteSet(rest)
    BY PullsAssumption, FS_Subset
  <2>2. rest \in SUBSET Int
    BY PullsAssumption
  <2>3. Max(rest) \in rest
    BY <1>2, <2>1, <2>2, MinMax
  <2> QED BY <1>2, <2>3, PullsAssumption DEF GoOn, Nothing
<1> QED BY <1>1, <1>2

(* What a step of the job that leaves the host, the reviewers and the       *)
(* process alone has to establish for its types.                            *)
JobTypes ==
    /\ at \in {"idle", "listing", "judging", "reading", "thinking", "stating",
               "putting", "put"}
    /\ todo \subseteq Pulls /\ pull \in Pulls \cup {Nothing}
    /\ page \in 0..MaxComments /\ queue \subseteq DOMAIN said /\ draft \subseteq Marks
    /\ at = "idle" <=> pull = Nothing
    /\ at = "idle" \/ up = "polling"
    /\ at \notin {"idle", "listing"} => queue # {}
    /\ \A c \in queue : said[c].pull = pull

HostTypes ==
    /\ up \in {"down", "quiet", "polling"} /\ allowed \subseteq Authors
    /\ row \in [Pulls -> [status: {"open", "settled"}, last: 0..MaxComments]]
    /\ head \in [Pulls -> SUBSET Marks]
    /\ said \in Seq([pull: Pulls, by: Authors, there: BOOLEAN])
    /\ Len(said) <= MaxComments
    /\ flight \subseteq Sent
    /\ mishaps \in 0..MaxMishaps
    /\ judged \subseteq DOMAIN said
    /\ landed \in [Comments -> Nat] /\ cut \in [Comments -> 0..MaxMishaps]
    /\ shifted \subseteq Pulls /\ raced \subseteq Pushes /\ dropped \subseteq Pushes

(* No more cuts than mishaps, which keeps their number in its type.         *)
CutInv == \A c \in Comments : cut[c] <= mishaps

LEMMA GoOnTypes ==
    ASSUME TypeOK, up = "polling", NEW rest \in SUBSET Pulls, GoOn(rest), UNCHANGED <<up, said>>
    PROVE  JobTypes'
BY GoesOn, BoundAssumption DEF JobTypes

LEMMA AnswerTypes ==
    ASSUME TypeOK, at # "idle", UNCHANGED <<up, said>>,
           NEW q \in SUBSET DOMAIN said, \A c \in q : said[c].pull = pull, Answer(q)
    PROVE  JobTypes'
<1>1. up = "polling" /\ todo \in SUBSET Pulls
  BY DEF TypeOK
<1>2. CASE q = {} /\ GoOn(todo)
  BY <1>1, <1>2, GoOnTypes
<1>3. CASE q # {} /\ at' = "judging" /\ queue' = q /\ draft' = {} /\ UNCHANGED <<todo, pull, page>>
  BY <1>1, <1>3 DEF JobTypes, TypeOK, Nothing
<1> QED BY <1>2, <1>3 DEF Answer

LEMMA SavedTypes == ASSUME TypeOK, Judging, Saved PROVE TypeOK'
<1>1. AtHand \in DOMAIN said /\ AtHand \in 0..MaxComments
  BY HandIsLeast DEF Comments
<1>2. queue \ {AtHand} \in SUBSET DOMAIN said
      /\ \A c \in queue \ {AtHand} : said[c].pull = pull
  BY DEF TypeOK
<1>3. JobTypes'
  BY <1>2, AnswerTypes DEF Saved, Judging, host
<1>4. row' \in [Pulls -> [status: {"open", "settled"}, last: 0..MaxComments]]
  BY <1>1, HandIsLeast DEF Saved, TypeOK
<1>5. HostTypes'
  BY <1>1, <1>4 DEF HostTypes, TypeOK, Saved, host
<1> QED BY <1>3, <1>5 DEF TypeOK, JobTypes, HostTypes

(* Steps of the job that stay with the comment at hand.                     *)
LEMMA PageInDomain ==
    ASSUME TypeOK, NEW n \in Nat
    PROVE  /\ Page(pull, n) \subseteq There(pull) /\ There(pull) \subseteq DOMAIN said
           /\ \A c \in There(pull) : said[c].pull = pull /\ said[c].there
BY DEF Page, There

(* A page that is full has comments after all those of the pages before it. *)
LEMMA FullPage ==
    ASSUME TypeOK, Cardinality(Page(pull, page + 1)) = PageSize
    PROVE  page + 1 <= MaxComments
<1> DEFINE before(c) == {d \in There(pull) : d <= c}
<1>1. page \in Nat /\ MaxComments \in Nat /\ PageSize \in Nat /\ PageSize > 0
  BY BoundAssumption, PageAssumption DEF TypeOK
<1>2. Page(pull, page + 1) # {}
  BY <1>1, FS_EmptySet
<1>3. PICK c \in There(pull) : Cardinality(before(c)) >= page * PageSize + 1
  BY <1>1, <1>2 DEF Page
<1>4. IsFiniteSet(Comments) /\ Cardinality(Comments) = MaxComments
  BY <1>1, FS_Interval DEF Comments
<1>5. before(c) \in SUBSET Comments
  BY Domain DEF There
<1>6. Cardinality(before(c)) <= MaxComments /\ Cardinality(before(c)) \in Nat
  BY <1>4, <1>5, FS_Subset, FS_CardinalityType
<1>7. page * PageSize >= page /\ page * PageSize \in Nat
  BY <1>1
<1> HIDE DEF before
<1> QED BY <1>1, <1>3, <1>6, <1>7

LEMMA InitTypes == Init => TypeOK /\ CutInv
<1> SUFFICES ASSUME Init PROVE TypeOK /\ CutInv
  OBVIOUS
<1>1. row \in [Pulls -> [status: {"open", "settled"}, last: 0..MaxComments]]
  BY BoundAssumption DEF Init
<1>2. said \in Seq([pull: Pulls, by: Authors, there: BOOLEAN]) /\ Len(said) = 0 /\ DOMAIN said = {}
  BY DEF Init
<1> QED BY <1>1, <1>2, BoundAssumption DEF Init, TypeOK, Nothing, CutInv

LEMMA CutStays ==
    ASSUME TypeOK, CutInv, UNCHANGED cut, UNCHANGED mishaps \/ Mishap
    PROVE  CutInv'
BY BoundAssumption DEF CutInv, Mishap, TypeOK

LEMMA StopTypes == ASSUME TypeOK, CutInv, Stop PROVE TypeOK' /\ CutInv'
<1>1. mishaps' \in 0..MaxMishaps /\ mishaps' = mishaps + 1
  <2>1. mishaps \in 0..MaxMishaps
    BY DEF TypeOK
  <2>2. mishaps < MaxMishaps /\ mishaps' = mishaps + 1
    BY DEF Stop, Mishap
  <2> QED BY <2>1, <2>2, BoundAssumption
<1>2. ASSUME NEW f \in flight PROVE [f EXCEPT !.live = FALSE] \in Sent
  BY <1>2 DEF TypeOK, Sent
<1>3. flight' \subseteq Sent
  BY <1>2 DEF Stop
<1>4. cut' \in [Comments -> 0..MaxMishaps] /\ CutInv'
  <2>1. cut \in [Comments -> 0..MaxMishaps] /\ mishaps \in 0..MaxMishaps
    BY DEF TypeOK
  <2>2. CASE at \in {"putting", "put"}
    <3>1. PICK h \in Comments : cut' = [cut EXCEPT ![h] = @ + 1]
      BY <2>2, HandIsLeast DEF Stop, Judging, AtHand, OldestIn
    <3>2. cut[h] + 1 \in 0..MaxMishaps /\ cut[h] + 1 <= mishaps'
      BY <1>1, <2>1, BoundAssumption DEF CutInv
    <3>3. \A c \in Comments : cut'[c] = IF c = h THEN cut[h] + 1 ELSE cut[c]
      BY <2>1, <3>1
    <3>4. cut' \in [Comments -> 0..MaxMishaps]
      BY <2>1, <3>1, <3>2
    <3>5. \A c \in Comments : cut'[c] <= mishaps'
      BY <1>1, <2>1, <3>2, <3>3, BoundAssumption DEF CutInv
    <3> QED BY <3>4, <3>5 DEF CutInv
  <2>3. CASE at \notin {"putting", "put"}
    BY <1>1, <2>1, <2>3 DEF Stop, CutInv
  <2> QED BY <2>2, <2>3
<1>5. /\ UNCHANGED <<row, head, said, judged, landed, shifted, raced, dropped>>
      /\ up' = "down" /\ allowed' = {} /\ at' = "idle" /\ todo' = {} /\ pull' = Nothing
      /\ page' = 0 /\ queue' = {} /\ draft' = {}
  BY DEF Stop
<1> QED BY <1>1, <1>3, <1>4, <1>5, BoundAssumption DEF TypeOK

LEMMA PageTypes == ASSUME TypeOK, PageArrives PROVE TypeOK'
<1>1. HostTypes' /\ UNCHANGED <<up, said>> /\ at = "listing" /\ pull \in Pulls
  BY DEF PageArrives, HostTypes, TypeOK, host, ghost, Nothing
<1>2. page + 1 \in Nat
  BY BoundAssumption DEF TypeOK
<1> DEFINE batch == Page(pull, page + 1)
<1>3. batch \subseteq DOMAIN said /\ \A c \in batch : said[c].pull = pull
  BY DEF Page, There
<1>4. queue \subseteq DOMAIN said /\ \A c \in queue : said[c].pull = pull
  BY DEF TypeOK
<1> HIDE DEF batch
<1>5. CASE Answer(New(queue \cup batch))
  <2>1. New(queue \cup batch) \in SUBSET DOMAIN said
        /\ \A c \in New(queue \cup batch) : said[c].pull = pull
    BY <1>3, <1>4 DEF New
  <2>2. JobTypes'
    BY <1>1, <1>5, <2>1, AnswerTypes
  <2> QED BY <1>1, <2>2 DEF TypeOK, JobTypes, HostTypes
<1>6. CASE /\ Cardinality(batch) = PageSize
           /\ queue' = queue \cup batch /\ page' = page + 1
           /\ UNCHANGED <<at, todo, pull, draft>>
  <2>1. page' \in 0..MaxComments
    BY <1>2, <1>6, FullPage, BoundAssumption DEF batch
  <2>2. JobTypes'
    BY <1>1, <1>3, <1>4, <1>6, <2>1 DEF JobTypes, TypeOK, Nothing
  <2> QED BY <1>1, <2>2 DEF TypeOK, JobTypes, HostTypes
<1> QED BY <1>5, <1>6 DEF PageArrives, batch

LEMMA StaysTypes ==
    ASSUME TypeOK, TakesUp \/ ReadReturns \/ Revises \/ StatReturns
    PROVE  TypeOK'
<1>1. /\ pull \in Pulls /\ AtHand \in Comments /\ head[pull] \subseteq Marks
      /\ draft \subseteq Marks
  BY HandIsLeast DEF TakesUp, ReadReturns, Revises, StatReturns, TypeOK, Judging
<1>2. CASE TakesUp \/ ReadReturns \/ Revises
  BY <1>1, <1>2 DEF TakesUp, ReadReturns, Revises, TypeOK, host, ghost, Marks
<1>3. CASE StatReturns
  <2>1. [pull |-> pull, comment |-> AtHand, draft |-> draft, over |-> head[pull], live |-> TRUE]
            \in Sent
    BY <1>1 DEF Sent
  <2>2. flight' \subseteq Sent
    BY <1>3, <2>1 DEF StatReturns, TypeOK
  <2> QED BY <1>1, <1>3, <2>2 DEF StatReturns, TypeOK, ghost
<1> QED BY <1>2, <1>3

LEMMA LandTypes == ASSUME TypeOK, NEW f \in flight, PutLands(f) PROVE TypeOK'
<1>1. f \in Sent /\ f.pull \in Pulls /\ f.comment \in Comments /\ f.draft \subseteq Marks
  BY DEF TypeOK, Sent
<1>2. CASE head[f.pull] = f.over
  <2>1. head' \in [Pulls -> SUBSET Marks] /\ dropped' \subseteq Pushes
    BY <1>1, <1>2 DEF PutLands, TypeOK
  <2>3. landed' \in [Comments -> Nat]
    <3>1. landed \in [Comments -> Nat] /\ landed[f.comment] + 1 \in Nat
      BY <1>1 DEF TypeOK
    <3> QED BY <1>2, <3>1 DEF PutLands
  <2>2. at' = at \/ (at = "putting" /\ at' = "put")
    BY <1>2 DEF PutLands, Mine
  <2> QED BY <2>1, <2>2, <2>3 DEF PutLands, TypeOK
<1>3. CASE head[f.pull] # f.over
  BY <1>3 DEF PutLands, TypeOK
<1> QED BY <1>2, <1>3

(* Comments keep their ids.                                                 *)
LEMMA SaidGrows ==
    ASSUME TypeOK, NEW p \in Pulls, NEW who \in Authors, Comment(p, who)
    PROVE  /\ said' \in Seq([pull: Pulls, by: Authors, there: BOOLEAN])
           /\ Len(said') = Len(said) + 1 /\ Len(said') <= MaxComments
           /\ DOMAIN said' = DOMAIN said \cup {Len(said) + 1}
           /\ \A c \in DOMAIN said : said'[c] = said[c]
           /\ said'[Len(said) + 1] = [pull |-> p, by |-> who, there |-> TRUE]
<1> DEFINE R == [pull: Pulls, by: Authors, there: BOOLEAN]
           new == [pull |-> p, by |-> who, there |-> TRUE]
<1>1. new \in R /\ said \in Seq(R) /\ said' = Append(said, new)
  BY DEF Comment, TypeOK
<1>2. Len(said) < MaxComments
  BY DEF Comment
<1> HIDE DEF R, new
<1>3. /\ said' \in Seq(R) /\ Len(said') = Len(said) + 1
      /\ \A c \in 1..Len(said) : said'[c] = said[c]
      /\ said'[Len(said) + 1] = new
  BY <1>1
<1>4. DOMAIN said = 1..Len(said) /\ DOMAIN said' = 1..Len(said') /\ Len(said) \in Nat
  BY <1>1, <1>3
<1>5. DOMAIN said' = DOMAIN said \cup {Len(said) + 1}
  BY <1>3, <1>4
<1> QED BY <1>2, <1>3, <1>4, <1>5, BoundAssumption DEF R, new

LEMMA SaidShrinks ==
    ASSUME TypeOK, NEW c \in DOMAIN said, Delete(c)
    PROVE  /\ said' \in Seq([pull: Pulls, by: Authors, there: BOOLEAN])
           /\ Len(said') = Len(said) /\ DOMAIN said' = DOMAIN said
           /\ \A d \in DOMAIN said :
                 said'[d].pull = said[d].pull /\ (said'[d].there => said[d].there)
<1> DEFINE R == [pull: Pulls, by: Authors, there: BOOLEAN]
<1>1. PICK gone \in R : said' = [said EXCEPT ![c] = gone]
                         /\ gone.pull = said[c].pull /\ ~ gone.there
  <2>1. [said[c] EXCEPT !.there = FALSE] \in R
        /\ [said[c] EXCEPT !.there = FALSE].pull = said[c].pull
        /\ ~ [said[c] EXCEPT !.there = FALSE].there
    BY Domain
  <2>2. said' = [said EXCEPT ![c] = [said[c] EXCEPT !.there = FALSE]]
    BY DEF Delete
  <2> HIDE DEF R
  <2> QED BY <2>1, <2>2
<1>2. said \in Seq(R) /\ c \in 1..Len(said) /\ DOMAIN said = 1..Len(said)
  BY Domain DEF TypeOK
<1> HIDE DEF R
<1>3. said' \in Seq(R) /\ Len(said') = Len(said) /\ DOMAIN said' = DOMAIN said
  BY <1>1, <1>2
<1>4. \A d \in DOMAIN said : said'[d] = IF d = c THEN gone ELSE said[d]
  BY <1>1, <1>2
<1> QED BY <1>1, <1>3, <1>4 DEF R

LEMMA NextTypes == TypeOK /\ CutInv /\ [Next]_vars => TypeOK' /\ CutInv'
<1> SUFFICES ASSUME TypeOK, CutInv, [Next]_vars PROVE TypeOK' /\ CutInv'
  OBVIOUS
<1>0. ASSUME ~ Stop PROVE CutInv'
  BY <1>0, CutStays DEF Next, Start, PollStarts, Poll, PageArrives, ListFails, Ignores, TakesUp,
     ReadReturns, ReadFails, Unreadable, Revises, Rejects, StatReturns, StatFails,
     PutSucceeds, PutFails, Saved, PutLands, Comment, Delete, Push, Settle, vars, ghost
<1>1. ASSUME NEW c \in Configs, Start(c) PROVE TypeOK'
  <2>1. allowed' \subseteq Authors
    BY <1>1, ConfigAssumption DEF Start
  <2>2. at = "idle"
    BY <1>1 DEF Start, TypeOK
  <2> QED BY <1>1, <2>1, <2>2 DEF Start, TypeOK, host, job, ghost
<1>2. CASE Stop
  BY <1>2, StopTypes
<1>3. ASSUME PollStarts PROVE TypeOK'
  <2>1. JobTypes'
    BY <1>3, GoOnTypes DEF PollStarts, host
  <2>2. HostTypes'
    BY <1>3 DEF PollStarts, HostTypes, TypeOK, host, ghost
  <2> QED BY <2>1, <2>2 DEF TypeOK, JobTypes, HostTypes
<1>4. ASSUME PageArrives PROVE TypeOK'
  BY <1>4, PageTypes
<1>5. ASSUME ListFails \/ Unreadable PROVE TypeOK'
  <2>1. mishaps' \in 0..MaxMishaps
    BY <1>5, BoundAssumption DEF ListFails, Unreadable, Mishap, TypeOK
  <2>2. JobTypes'
    BY <1>5, GoOnTypes DEF ListFails, Unreadable, host, TypeOK
  <2>3. HostTypes'
    BY <1>5, <2>1 DEF ListFails, Unreadable, HostTypes, TypeOK, host, ghost
  <2> QED BY <2>2, <2>3 DEF TypeOK, JobTypes, HostTypes
<1>6. ASSUME TakesUp \/ ReadReturns \/ Revises \/ StatReturns PROVE TypeOK'
  BY <1>6, StaysTypes
<1>7. ASSUME Ignores \/ ReadFails \/ Rejects \/ StatFails \/ PutSucceeds \/ PutFails PROVE TypeOK'
  BY <1>7, SavedTypes DEF Ignores, ReadFails, Rejects, StatFails, PutSucceeds, PutFails, Judging
<1>8. ASSUME NEW f \in flight, PutLands(f) PROVE TypeOK'
  BY <1>8, LandTypes
<1>9. ASSUME NEW p \in Pulls, NEW who \in Authors, Comment(p, who) PROVE TypeOK'
  BY <1>9, SaidGrows DEF Comment, TypeOK, job, ghost
<1>10. ASSUME NEW c \in DOMAIN said, Delete(c) PROVE TypeOK'
  <2>1. mishaps' \in 0..MaxMishaps /\ shifted' \subseteq Pulls
    BY <1>10, BoundAssumption DEF Delete, Mishap, TypeOK, Nothing
  <2> QED BY <1>10, <2>1, SaidShrinks DEF Delete, TypeOK, job
<1>11. ASSUME NEW p \in Pulls, NEW m \in Pushes, Push(p, m) PROVE TypeOK'
  <2>1. mishaps' \in 0..MaxMishaps /\ raced' \subseteq Pushes
        /\ head' \in [Pulls -> SUBSET Marks]
    BY <1>11, BoundAssumption DEF Push, Mishap, TypeOK, Marks
  <2> QED BY <1>11, <2>1 DEF Push, TypeOK, job
<1>12. ASSUME NEW p \in Pulls, Settle(p) PROVE TypeOK'
  <2>1. mishaps' \in 0..MaxMishaps
    BY <1>12, BoundAssumption DEF Settle, Mishap, TypeOK
  <2>2. row' \in [Pulls -> [status: {"open", "settled"}, last: 0..MaxComments]]
    <3>1. row[p] \in [status: {"open", "settled"}, last: 0..MaxComments]
      BY DEF TypeOK
    <3>2. [row[p] EXCEPT !.status = "settled"]
             \in [status: {"open", "settled"}, last: 0..MaxComments]
      BY <3>1
    <3> QED BY <1>12, <3>2 DEF Settle, TypeOK
  <2> QED BY <1>12, <2>1, <2>2 DEF Settle, TypeOK, host, job, ghost
<1>13. ASSUME UNCHANGED vars PROVE TypeOK'
  BY <1>13 DEF vars, host, job, ghost, TypeOK
<1> QED BY <1>0, <1>1, <1>2, <1>3, <1>4, <1>5, <1>6, <1>7, <1>8, <1>9, <1>10, <1>11, <1>12,
           <1>13 DEF Next, Poll

THEOREM TypeCorrect == Spec => []TypeOK
BY InitTypes, NextTypes, PTL DEF Spec

-----------------------------------------------------------------------------
(* The job's steps by what they do to its place, for the invariants below.  *)

Leaves ==       \* on to the next proposal, with nothing saved
    /\ at' \in {"idle", "listing"} /\ page' = 0 /\ queue' = {}
    /\ at \notin {"putting", "put"}
    /\ UNCHANGED <<row, host, ghost>>

Stays ==        \* one step on with the comment at hand
    /\ Judging /\ Judging' /\ at \notin {"putting", "put"}
    /\ UNCHANGED <<row, head, said, pull, page, queue, ghost>>

LEMMA JobSteps ==
    ASSUME TypeOK, PollStarts \/ Poll
    PROVE  \/ Leaves
           \/ PageArrives
           \/ Stays /\ TakesUp
           \/ Stays /\ ReadReturns
           \/ Stays /\ Revises
           \/ Stays /\ StatReturns
           \/ Judging /\ Saved
<1>1. CASE PollStarts
  <2>1. PICK rest \in SUBSET Pulls : GoOn(rest)
    BY <1>1 DEF PollStarts
  <2> QED BY <1>1, <2>1, GoesOn DEF PollStarts, Leaves
<1>2. CASE ListFails \/ Unreadable
  <2>1. todo \in SUBSET Pulls /\ GoOn(todo)
    BY <1>2 DEF ListFails, Unreadable, TypeOK
  <2> QED BY <1>2, <2>1, GoesOn DEF ListFails, Unreadable, Leaves
<1>3. CASE TakesUp \/ ReadReturns \/ Revises \/ StatReturns
  BY <1>3 DEF TakesUp, ReadReturns, Revises, StatReturns, Stays, Judging, host
<1>4. CASE Ignores \/ ReadFails \/ Rejects \/ StatFails \/ PutSucceeds \/ PutFails
  BY <1>4 DEF Ignores, ReadFails, Rejects, StatFails, PutSucceeds, PutFails, Judging
<1> QED BY <1>1, <1>2, <1>3, <1>4 DEF Poll

(* What the row has counts as dealt with; the comments in hand are newer.   *)
QueueInv == Judging => \A c \in queue : c > row[pull].last

(* Where Saved leads.                                                       *)
LEMMA SavedLeads ==
    ASSUME TypeOK, Judging, Saved
    PROVE  /\ queue \ {AtHand} = {} => at' \in {"idle", "listing"}
           /\ queue \ {AtHand} # {} => /\ at' = "judging" /\ pull' = pull
                                       /\ queue' = queue \ {AtHand}
           /\ at' \in {"idle", "listing"} => page' = 0 /\ queue' = {}
           /\ at' \notin {"thinking", "stating", "putting", "put"}
           /\ row'[pull].last = AtHand
           /\ \A p \in Pulls : p # pull => row'[p] = row[p]
<1>1. row' = [row EXCEPT ![pull].last = AtHand] /\ Answer(queue \ {AtHand})
  BY DEF Saved
<1>2. row'[pull].last = AtHand /\ \A p \in Pulls : p # pull => row'[p] = row[p]
  <2>1. row[pull] \in [status: {"open", "settled"}, last: 0..MaxComments]
    BY HandIsLeast DEF TypeOK
  <2> QED BY <1>1, <2>1, HandIsLeast DEF TypeOK
<1>3. CASE queue \ {AtHand} = {} /\ GoOn(todo)
  <2>1. todo \in SUBSET Pulls
    BY DEF TypeOK
  <2> QED BY <1>2, <1>3, <2>1, GoesOn
<1>4. CASE /\ queue \ {AtHand} # {} /\ at' = "judging" /\ queue' = queue \ {AtHand}
           /\ UNCHANGED <<todo, pull, page>>
  BY <1>2, <1>4
<1> QED BY <1>1, <1>3, <1>4 DEF Answer

LEMMA NextQueue == ASSUME TypeOK, QueueInv, [Next]_vars PROVE QueueInv'
<1>1. ASSUME at' \in {"idle", "listing"} PROVE QueueInv'
  BY <1>1 DEF QueueInv, Judging
<1>2. ASSUME Judging' => Judging, UNCHANGED <<row, pull, queue>> PROVE QueueInv'
  BY <1>2 DEF QueueInv, Judging
<1>3. ASSUME PageArrives PROVE QueueInv'
  <2>1. CASE Answer(New(queue \cup Page(pull, page + 1)))
    <3>1. \A c \in New(queue \cup Page(pull, page + 1)) : c > row[pull].last
      BY DEF New
    <3>2. UNCHANGED row /\ todo \in SUBSET Pulls
      BY <1>3 DEF PageArrives, TypeOK
    <3> HIDE DEF New
    <3> QED BY <1>1, <2>1, <3>1, <3>2, GoesOn DEF Answer, QueueInv
  <2>2. CASE UNCHANGED <<at, todo, pull, draft>>
    BY <1>1, <1>3, <2>2 DEF PageArrives
  <2> QED BY <1>3, <2>1, <2>2 DEF PageArrives
<1>4. ASSUME Judging, Saved PROVE QueueInv'
  <2>1. ASSUME NEW c \in queue \ {AtHand} PROVE c > AtHand
    <3>1. queue \subseteq Int
      BY Domain DEF TypeOK
    <3>2. AtHand \in queue /\ \A d \in queue : AtHand <= d
      BY <1>4, HandIsLeast
    <3> QED BY <3>1, <3>2
  <2> QED BY <1>1, <1>4, <2>1, SavedLeads DEF QueueInv
<1>5. ASSUME NEW p \in Pulls, Settle(p) PROVE QueueInv'
  <2>1. \A q \in Pulls : row'[q].last = row[q].last
    BY <1>5 DEF Settle, TypeOK
  <2> QED BY <1>5, <2>1, HandIsLeast DEF QueueInv, Settle, job, Judging
<1>6. ASSUME NEW f \in flight, PutLands(f) PROVE QueueInv'
  BY <1>2, <1>6 DEF PutLands, Mine, Judging
<1>7. ASSUME PollStarts \/ Poll PROVE QueueInv'
  BY <1>1, <1>2, <1>3, <1>4, <1>7, JobSteps DEF Leaves, Stays
<1> QED
  BY <1>1, <1>2, <1>5, <1>6, <1>7
     DEF Next, Start, Stop, Comment, Delete, Push, vars, job, Judging

-----------------------------------------------------------------------------
(* Pushes                                                                   *)

Differ(a, b) == ((a \ b) \cup (b \ a)) \cap Pushes

(* A draft, at work or under way, and the file it is to replace differ in   *)
(* no push but those made while one was being drafted.                      *)
PushInv ==
    /\ dropped \subseteq raced
    /\ at \in {"thinking", "stating"} => Differ(draft, head[pull]) \subseteq raced
    /\ \A f \in flight : Differ(f.draft, f.over) \subseteq raced

LEMMA CommentsAreNoPushes == Comments \cap Pushes = {}
BY BoundAssumption DEF Comments, Pushes

LEMMA NextPush == ASSUME TypeOK, PushInv, [Next]_vars PROVE PushInv'
<1>1. ASSUME at' \notin {"thinking", "stating"}, UNCHANGED <<dropped, raced, flight>>
      PROVE  PushInv'
  BY <1>1 DEF PushInv
<1>2. ASSUME UNCHANGED <<at, draft, head, pull, dropped, raced, flight>> PROVE PushInv'
  BY <1>2 DEF PushInv
<1>3. ASSUME Stop PROVE PushInv'
  <2>1. ASSUME NEW f \in flight
        PROVE  LET g == [f EXCEPT !.live = FALSE] IN g.draft = f.draft /\ g.over = f.over
    BY DEF TypeOK, Sent
  <2>2. ASSUME NEW g \in flight' PROVE \E f \in flight : g.draft = f.draft /\ g.over = f.over
    BY <1>3, <2>1 DEF Stop
  <2>3. UNCHANGED <<raced, dropped>> /\ at' = "idle"
    BY <1>3 DEF Stop
  <2> QED BY <2>2, <2>3 DEF PushInv, Differ
<1>4. ASSUME ReadReturns PROVE PushInv'
  BY <1>4 DEF ReadReturns, PushInv, Differ, host, ghost
<1>5. ASSUME Revises PROVE PushInv'
  <2>1. AtHand \notin Pushes
    BY <1>5, HandIsLeast, CommentsAreNoPushes DEF Revises, Judging
  <2>2. Differ(draft', head[pull]) = Differ(draft, head[pull])
    BY <1>5, <2>1 DEF Revises, Differ
  <2> QED BY <1>5, <2>2 DEF Revises, PushInv, host, ghost
<1>6. ASSUME StatReturns PROVE PushInv'
  BY <1>6 DEF StatReturns, PushInv, ghost
<1>7. ASSUME NEW f \in flight, PutLands(f) PROVE PushInv'
  <2>1. CASE head[f.pull] = f.over
    <3>1. dropped' \subseteq raced' /\ raced' = raced
      BY <1>7, <2>1 DEF PutLands, PushInv, Differ
    <3>2. ASSUME at' \in {"thinking", "stating"}
          PROVE  Differ(draft', head'[pull']) \subseteq raced'
      <4>1. at \in {"thinking", "stating"} /\ UNCHANGED <<draft, pull, raced>> /\ pull \in Pulls
        BY <1>7, <3>2 DEF PutLands, Mine, TypeOK, Nothing
      <4>2. CASE f.pull = pull
        <5>1. head'[pull] = f.draft /\ head[pull] = f.over
          BY <1>7, <2>1, <4>1, <4>2 DEF PutLands, TypeOK
        <5> QED BY <4>1, <5>1 DEF PushInv, Differ
      <4>3. CASE f.pull # pull
        <5>1. head'[pull] = head[pull]
          BY <1>7, <2>1, <4>1, <4>3 DEF PutLands, TypeOK
        <5> QED BY <4>1, <5>1 DEF PushInv
      <4> QED BY <4>2, <4>3
    <3> QED BY <1>7, <3>1, <3>2 DEF PutLands, PushInv
  <2>2. CASE head[f.pull] # f.over
    BY <1>7, <2>2 DEF PutLands, PushInv
  <2> QED BY <2>1, <2>2
<1>8. ASSUME NEW p \in Pulls, NEW m \in Pushes, Push(p, m) PROVE PushInv'
  <2>1. raced \subseteq raced' /\ UNCHANGED <<flight, dropped, at, draft, pull>>
    BY <1>8 DEF Push, job
  <2>2. ASSUME at \in {"thinking", "stating"} PROVE Differ(draft, head'[pull]) \subseteq raced'
    <3>1. pull \in Pulls
      BY <2>2 DEF TypeOK, Nothing
    <3>2. CASE p = pull
      <4>1. head'[pull] = head[pull] \cup {m} /\ raced' = raced \cup {m}
        BY <1>8, <2>2, <3>1, <3>2 DEF Push, TypeOK
      <4> QED BY <2>2, <4>1 DEF PushInv, Differ
    <3>3. CASE p # pull
      <4>1. head'[pull] = head[pull]
        BY <1>8, <3>1, <3>3 DEF Push, TypeOK
      <4> QED BY <2>1, <2>2, <4>1 DEF PushInv
    <3> QED BY <3>2, <3>3
  <2> QED BY <2>1, <2>2 DEF PushInv
<1>9. ASSUME Judging, Saved PROVE PushInv'
  BY <1>1, <1>9, SavedLeads DEF Saved, host
<1>10. ASSUME PageArrives PROVE PushInv'
  <2>1. at' \notin {"thinking", "stating"}
    <3>1. todo \in SUBSET Pulls
      BY DEF TypeOK
    <3> QED BY <1>10, <3>1, GoesOn DEF PageArrives, Answer
  <2> QED BY <1>1, <1>10, <2>1 DEF PageArrives, host, ghost
<1>11. ASSUME PollStarts \/ Poll PROVE PushInv'
  BY <1>1, <1>4, <1>5, <1>6, <1>9, <1>10, <1>11, JobSteps
     DEF Leaves, TakesUp, host, ghost
<1>12. ASSUME NEW c \in Configs, Start(c) PROVE PushInv'
  BY <1>2, <1>12 DEF Start, host, job, ghost
<1>13. ASSUME UNCHANGED vars PROVE PushInv'
  BY <1>2, <1>13 DEF vars, host, job, ghost
<1>14. ASSUME NEW p \in Pulls, NEW who \in Authors, Comment(p, who) PROVE PushInv'
  BY <1>2, <1>14 DEF Comment, job, ghost
<1>15. ASSUME NEW c \in DOMAIN said, Delete(c) PROVE PushInv'
  BY <1>2, <1>15 DEF Delete, job
<1>16. ASSUME NEW p \in Pulls, Settle(p) PROVE PushInv'
  BY <1>2, <1>16 DEF Settle, host, job, ghost
<1> QED
  BY <1>3, <1>7, <1>8, <1>11, <1>12, <1>13, <1>14, <1>15, <1>16 DEF Next

(* A revision takes back no push but those made while it, or another one,   *)
(* was being drafted: proposal/engine.py reads the file, then drafts, then  *)
(* asks for the sha.                                                        *)
THEOREM KeepsPushes == Spec => []PushesKept
<1>1. Init => PushInv
  BY DEF Init, PushInv
<1>2. PushInv => PushesKept
  BY DEF PushInv, PushesKept
<1>3. TypeOK /\ PushInv /\ [Next]_vars => PushInv'
  BY NextPush
<1> QED BY <1>1, <1>2, <1>3, TypeCorrect, PTL DEF Spec

-----------------------------------------------------------------------------
(* Commits                                                                  *)

Sending(c) == at \in {"putting", "put"} /\ c = AtHand

(* A commit for c was sent, and it will not be taken up again unless the    *)
(* process is stopped now.                                                  *)
Attempted(c) ==
    c \in DOMAIN said /\ (c <= row[said[c].pull].last \/ Sending(c))

OnTheWay(c) == {f \in flight : f.comment = c}

(* Each attempt lands at most once, and there is one attempt, and one more  *)
(* for each of those the process was stopped in.                            *)
CommitInv ==
    /\ IsFiniteSet(flight)
    /\ \A c \in Comments :
          landed[c] + Cardinality(OnTheWay(c)) <= cut[c] + (IF Attempted(c) THEN 1 ELSE 0)

LEMMA CommitTypes ==
    ASSUME TypeOK, CommitInv, NEW c \in Comments
    PROVE  /\ IsFiniteSet(OnTheWay(c)) /\ Cardinality(OnTheWay(c)) \in Nat
           /\ landed[c] \in Nat /\ cut[c] \in Nat
<1>1. OnTheWay(c) \in SUBSET flight
  BY DEF OnTheWay
<1>2. cut[c] \in 0..MaxMishaps
  BY DEF TypeOK
<1> QED BY <1>1, <1>2, FS_Subset, FS_CardinalityType, BoundAssumption DEF CommitInv, TypeOK

LEMMA CommitStays ==
    ASSUME TypeOK, CommitInv, UNCHANGED <<flight, landed, cut>>,
           \A c \in Comments : Attempted(c) => Attempted(c)'
    PROVE  CommitInv'
<1> SUFFICES ASSUME NEW c \in Comments
             PROVE  landed[c] + Cardinality(OnTheWay(c)) <= cut[c] + (IF Attempted(c)' THEN 1 ELSE 0)
  BY DEF CommitInv, OnTheWay
<1>1. landed[c] + Cardinality(OnTheWay(c)) <= cut[c] + (IF Attempted(c) THEN 1 ELSE 0)
  BY DEF CommitInv
<1> HIDE DEF Attempted
<1> QED BY <1>1, CommitTypes

(* A stop: what was attempted and not saved is cut.                         *)
LEMMA StopCommit == ASSUME TypeOK, CutInv, CommitInv, Stop PROVE CommitInv'
<1> DEFINE dead == [f \in flight |-> [f EXCEPT !.live = FALSE]]
<1>1. flight' = {dead[f] : f \in flight}
  BY DEF Stop
<1>2. \A f \in flight : dead[f].comment = f.comment
  BY DEF TypeOK, Sent
<1>3. IsFiniteSet(flight')
  <2>1. dead \in Surjection(flight, flight')
    BY <1>1 DEF Surjection
  <2> QED BY <2>1, FS_Surjection DEF CommitInv
<1> SUFFICES ASSUME NEW c \in Comments
             PROVE  landed'[c] + Cardinality(OnTheWay(c)')
                        <= cut'[c] + (IF Attempted(c)' THEN 1 ELSE 0)
  BY <1>3 DEF CommitInv
<1>4. Cardinality(OnTheWay(c)') <= Cardinality(OnTheWay(c)) /\ Cardinality(OnTheWay(c)') \in Nat
  <2> DEFINE mine == [f \in OnTheWay(c) |-> [f EXCEPT !.live = FALSE]]
  <2>1. mine \in Surjection(OnTheWay(c), OnTheWay(c)')
    <3>1. \A g \in OnTheWay(c)' : \E f \in OnTheWay(c) : g = mine[f]
      BY <1>1, <1>2 DEF OnTheWay
    <3>2. \A f \in OnTheWay(c) : mine[f] = dead[f] /\ mine[f] \in OnTheWay(c)'
      BY <1>1, <1>2 DEF OnTheWay
    <3> HIDE DEF dead
    <3> QED BY <3>1, <3>2 DEF Surjection
  <2> QED BY <2>1, CommitTypes, FS_Surjection, FS_CardinalityType
<1>5. landed' = landed /\ UNCHANGED <<row, said>> /\ at' = "idle"
  BY DEF Stop
<1>6. landed[c] + Cardinality(OnTheWay(c)) <= cut[c] + (IF Attempted(c) THEN 1 ELSE 0)
  BY DEF CommitInv
<1>7. CASE Sending(c)
  <2>1. cut'[c] = cut[c] + 1
    BY <1>7 DEF Stop, Sending, TypeOK, AtHand, OldestIn
  <2> HIDE DEF Attempted
  <2> QED BY <1>4, <1>5, <1>6, <2>1, CommitTypes
<1>8. CASE ~ Sending(c)
  <2>1. Attempted(c)' <=> Attempted(c)
    BY <1>5, <1>8 DEF Attempted, Sending
  <2>2. cut'[c] = cut[c]
    <3>1. CASE at \in {"putting", "put"}
      <4>1. AtHand \in Comments /\ AtHand # c
        BY <1>8, <3>1, HandIsLeast DEF Judging, Sending
      <4> QED BY <3>1, <4>1 DEF Stop, TypeOK, AtHand, OldestIn
    <3>2. CASE at \notin {"putting", "put"}
      BY <3>2 DEF Stop
    <3> QED BY <3>1, <3>2
  <2> QED BY <1>4, <1>5, <1>6, <2>1, <2>2, CommitTypes
<1> QED BY <1>7, <1>8

(* A commit is sent for a comment that was not attempted before.            *)
LEMMA SendCommit ==
    ASSUME TypeOK, QueueInv, CommitInv, StatReturns
    PROVE  CommitInv'
<1> DEFINE new == [pull |-> pull, comment |-> AtHand, draft |-> draft,
                   over |-> head[pull], live |-> TRUE]
<1>1. flight' = flight \cup {new} /\ UNCHANGED <<row, said, queue, landed, cut>>
      /\ at = "stating" /\ at' = "putting"
  BY DEF StatReturns, ghost
<1>2. AtHand \in queue /\ AtHand \in DOMAIN said /\ AtHand \in Int
      /\ said[AtHand].pull = pull /\ pull \in Pulls
  BY <1>1, HandIsLeast, Domain DEF Judging
<1>3. IsFiniteSet(flight')
  BY <1>1, FS_AddElement DEF CommitInv
<1> SUFFICES ASSUME NEW c \in Comments
             PROVE  landed[c] + Cardinality(OnTheWay(c)')
                        <= cut[c] + (IF Attempted(c)' THEN 1 ELSE 0)
  BY <1>1, <1>3 DEF CommitInv
<1>4. landed[c] + Cardinality(OnTheWay(c)) <= cut[c] + (IF Attempted(c) THEN 1 ELSE 0)
  BY DEF CommitInv
<1>5. CASE c = AtHand
  <2>1. ~ Attempted(c)
    <3>1. AtHand > row[pull].last /\ row[pull].last \in Int
      BY <1>1, <1>2 DEF QueueInv, Judging, TypeOK
    <3> QED BY <1>1, <1>2, <1>5, <3>1 DEF Attempted, Sending
  <2>2. Attempted(c)'
    BY <1>1, <1>2, <1>5 DEF Attempted, Sending, AtHand
  <2>3. OnTheWay(c)' = OnTheWay(c) \cup {new}
    BY <1>1, <1>5 DEF OnTheWay
  <2>4. Cardinality(OnTheWay(c)') <= Cardinality(OnTheWay(c)) + 1
        /\ Cardinality(OnTheWay(c)') \in Nat
    <3> HIDE DEF new
    <3>1. Cardinality(OnTheWay(c)') = IF new \in OnTheWay(c) THEN Cardinality(OnTheWay(c))
                                                           ELSE Cardinality(OnTheWay(c)) + 1
      BY <2>3, CommitTypes, FS_AddElement
    <3> QED BY <3>1, CommitTypes
  <2> HIDE DEF Attempted
  <2> QED BY <1>4, <2>1, <2>2, <2>4, CommitTypes
<1>6. CASE c # AtHand
  <2>1. OnTheWay(c)' = OnTheWay(c)
    BY <1>1, <1>6 DEF OnTheWay
  <2>2. Attempted(c)' <=> Attempted(c)
    BY <1>1, <1>6 DEF Attempted, Sending, AtHand
  <2> QED BY <1>4, <2>1, <2>2
<1> QED BY <1>5, <1>6

LEMMA LandCommit ==
    ASSUME TypeOK, CommitInv, NEW f \in flight, PutLands(f)
    PROVE  CommitInv'
<1>1. flight' = flight \ {f} /\ UNCHANGED <<row, said, queue, cut>>
      /\ at' \in {at, "put"} /\ (at' # at => at = "putting")
  BY DEF PutLands, Mine
<1>2. IsFiniteSet(flight')
  BY <1>1, FS_RemoveElement DEF CommitInv
<1> SUFFICES ASSUME NEW c \in Comments
             PROVE  landed'[c] + Cardinality(OnTheWay(c)')
                        <= cut[c] + (IF Attempted(c)' THEN 1 ELSE 0)
  BY <1>1, <1>2 DEF CommitInv
<1>3. landed[c] + Cardinality(OnTheWay(c)) <= cut[c] + (IF Attempted(c) THEN 1 ELSE 0)
  BY DEF CommitInv
<1>4. Attempted(c)' <=> Attempted(c)
  BY <1>1 DEF Attempted, Sending, AtHand
<1>5. CASE c = f.comment
  <2>1. OnTheWay(c)' = OnTheWay(c) \ {f} /\ f \in OnTheWay(c)
    BY <1>1, <1>5 DEF OnTheWay
  <2>2. Cardinality(OnTheWay(c)') = Cardinality(OnTheWay(c)) - 1
    BY <2>1, CommitTypes, FS_RemoveElement
  <2>3. landed'[c] \in {landed[c], landed[c] + 1}
    BY <1>5 DEF PutLands, TypeOK
  <2> HIDE DEF Attempted
  <2> QED BY <1>3, <1>4, <2>2, <2>3, CommitTypes
<1>6. CASE c # f.comment
  <2>1. OnTheWay(c)' = OnTheWay(c) /\ landed'[c] = landed[c]
    BY <1>1, <1>6 DEF OnTheWay, PutLands, TypeOK
  <2> QED BY <1>3, <1>4, <2>1
<1> QED BY <1>5, <1>6

LEMMA NextCommit == ASSUME TypeOK, CutInv, QueueInv, CommitInv, [Next]_vars PROVE CommitInv'
<1>1. ASSUME UNCHANGED <<flight, landed, cut, row, said>>,
             at \in {"putting", "put"} => UNCHANGED <<at, queue>>
      PROVE  CommitInv'
  BY <1>1, CommitStays DEF Attempted, Sending, AtHand
<1>2. ASSUME Judging, Saved PROVE CommitInv'
  <2>1. UNCHANGED <<flight, landed, cut, said>>
    BY <1>2 DEF Saved, host
  <2>2. /\ AtHand \in queue /\ AtHand \in DOMAIN said /\ AtHand \in Int
        /\ said[AtHand].pull = pull /\ pull \in Pulls
        /\ row[pull].last \in Int /\ AtHand > row[pull].last
    BY <1>2, HandIsLeast, Domain DEF QueueInv, TypeOK
  <2>3. ASSUME NEW c \in Comments, Attempted(c) PROVE Attempted(c)'
    <3>1. c \in DOMAIN said /\ c \in Int /\ said[c].pull \in Pulls
      BY <2>3, Domain DEF Attempted
    <3>2. c <= row'[said[c].pull].last
      BY <1>2, <2>2, <2>3, <3>1, SavedLeads DEF Attempted, Sending
    <3> QED BY <2>1, <3>1, <3>2 DEF Attempted
  <2> QED BY <2>1, <2>3, CommitStays
<1>3. ASSUME PollStarts \/ Poll PROVE CommitInv'
  BY <1>1, <1>2, <1>3, JobSteps, SendCommit
     DEF Leaves, Stays, TakesUp, ReadReturns, Revises, PageArrives, host, ghost
<1>4. ASSUME NEW c \in Configs, Start(c) PROVE CommitInv'
  BY <1>1, <1>4 DEF Start, host, job, ghost
<1>5. ASSUME NEW p \in Pulls, NEW who \in Authors, Comment(p, who) PROVE CommitInv'
  <2>1. ASSUME NEW c \in Comments, Attempted(c) PROVE Attempted(c)'
    BY <1>5, <2>1, SaidGrows DEF Comment, Attempted, Sending, AtHand, job
  <2> QED BY <1>5, <2>1, CommitStays DEF Comment, ghost
<1>6. ASSUME NEW d \in DOMAIN said, Delete(d) PROVE CommitInv'
  <2>1. ASSUME NEW c \in Comments, Attempted(c) PROVE Attempted(c)'
    BY <1>6, <2>1, SaidShrinks DEF Delete, Attempted, Sending, AtHand, job
  <2> QED BY <1>6, <2>1, CommitStays DEF Delete
<1>7. ASSUME NEW p \in Pulls, NEW m \in Pushes, Push(p, m) PROVE CommitInv'
  BY <1>1, <1>7 DEF Push, job
<1>8. ASSUME NEW p \in Pulls, Settle(p) PROVE CommitInv'
  <2>1. \A q \in Pulls : row'[q].last = row[q].last
    BY <1>8 DEF Settle, TypeOK
  <2>2. ASSUME NEW c \in Comments, Attempted(c) PROVE Attempted(c)'
    BY <1>8, <2>1, <2>2, Domain DEF Settle, Attempted, Sending, AtHand, job, host
  <2> QED BY <1>8, <2>2, CommitStays DEF Settle, host, ghost
<1>9. ASSUME UNCHANGED vars PROVE CommitInv'
  BY <1>1, <1>9 DEF vars, host, job, ghost
<1> QED
  BY <1>3, <1>4, <1>5, <1>6, <1>7, <1>8, <1>9, StopCommit, LandCommit DEF Next

(* engine.py:500: a comment is "never reprocessed", for any number of       *)
(* comments, lost and late answers and stops: one commit for it, and one    *)
(* more for every stop between commit and row.                              *)
THEOREM OneCommit == Spec => []OneCommitPerComment
<1>1. Init => QueueInv /\ CommitInv
  <2> SUFFICES ASSUME Init, NEW c \in Comments
               PROVE  QueueInv /\ IsFiniteSet(flight)
                      /\ landed[c] + Cardinality(OnTheWay(c))
                             <= cut[c] + (IF Attempted(c) THEN 1 ELSE 0)
    BY FS_EmptySet DEF Init, CommitInv, QueueInv, Judging
  <2>1. OnTheWay(c) = {} /\ landed[c] = 0 /\ cut[c] = 0 /\ ~ Attempted(c)
    BY DEF Init, OnTheWay, Attempted
  <2> QED BY <2>1, FS_EmptySet DEF Init, QueueInv, Judging
<1>2. TypeOK /\ CommitInv => OneCommitPerComment
  <2> SUFFICES ASSUME TypeOK, CommitInv, NEW c \in Comments PROVE landed[c] <= 1 + cut[c]
    BY DEF OneCommitPerComment
  <2>1. landed[c] + Cardinality(OnTheWay(c)) <= cut[c] + (IF Attempted(c) THEN 1 ELSE 0)
    BY DEF CommitInv
  <2> HIDE DEF Attempted
  <2> QED BY <2>1, CommitTypes
<1>3. TypeOK /\ CutInv /\ QueueInv /\ CommitInv /\ [Next]_vars
         => TypeOK' /\ CutInv' /\ QueueInv' /\ CommitInv'
  BY NextTypes, NextQueue, NextCommit
<1> QED BY <1>1, <1>2, <1>3, InitTypes, PTL DEF Spec

-----------------------------------------------------------------------------
(* Pages                                                                    *)

UpTo(p, c) == {d \in There(p) : d <= c}
Rank(p, c) == Cardinality(UpTo(p, c))
Ranked(p, n) == {c \in There(p) : Rank(p, c) <= n * PageSize}

(* While pages are read, what was read is the pages so far, all of them     *)
(* full; then every comment that is newer than the row is at hand, or newer *)
(* than what is at hand -- unless one was deleted while they were listed.   *)
ListInv ==
    /\ at = "listing" /\ pull \notin shifted =>
          queue = Ranked(pull, page) /\ Cardinality(queue) = page * PageSize
    /\ Judging /\ pull \notin shifted =>
          \A c \in There(pull) :
              c > row[pull].last => c \in queue \/ \A d \in queue : d < c

LEMMA Ranks ==
    ASSUME TypeOK, NEW p
    PROVE  /\ There(p) \in SUBSET Int /\ IsFiniteSet(There(p))
           /\ \A c \in There(p) : IsFiniteSet(UpTo(p, c)) /\ Rank(p, c) \in Nat /\ Rank(p, c) >= 1
<1>1. There(p) \in SUBSET DOMAIN said
  BY DEF There
<1>2. There(p) \in SUBSET Int /\ IsFiniteSet(There(p))
  BY <1>1, Domain, FS_Subset
<1> SUFFICES ASSUME NEW c \in There(p)
             PROVE  IsFiniteSet(UpTo(p, c)) /\ Rank(p, c) \in Nat /\ Rank(p, c) >= 1
  BY <1>2
<1>3. UpTo(p, c) \in SUBSET There(p) /\ c \in UpTo(p, c)
  BY <1>2 DEF UpTo
<1>4. IsFiniteSet(UpTo(p, c)) /\ Rank(p, c) \in Nat
  BY <1>2, <1>3, FS_Subset, FS_CardinalityType DEF Rank
<1>5. Rank(p, c) # 0
  BY <1>3, <1>4, FS_EmptySet DEF Rank
<1> QED BY <1>4, <1>5

LEMMA NothingRankedFirst ==
    ASSUME TypeOK, NEW p
    PROVE  Ranked(p, 0) = {} /\ Cardinality({}) = 0 * PageSize
<1>1. 0 * PageSize = 0
  BY PageAssumption
<1> QED BY <1>1, Ranks, FS_EmptySet DEF Ranked

LEMMA PageByRank ==
    ASSUME NEW p, NEW n
    PROVE  Page(p, n) =
               {c \in There(p) : Rank(p, c) \in (n - 1) * PageSize + 1 .. n * PageSize}
BY Zenon DEF Page, Rank, UpTo

LEMMA PageAfterRanked ==
    ASSUME TypeOK, NEW p
    PROVE  /\ Ranked(p, page + 1) = Ranked(p, page) \cup Page(p, page + 1)
           /\ Ranked(p, page) \cap Page(p, page + 1) = {}
<1> DEFINE k == page * PageSize
<1>1. page \in Nat /\ PageSize \in Nat /\ PageSize > 0
  BY PageAssumption, BoundAssumption DEF TypeOK
<1>2. k \in Nat /\ (page + 1) * PageSize = k + PageSize /\ ((page + 1) - 1) * PageSize = k
  BY <1>1
<1>3. Page(p, page + 1) = {c \in There(p) : Rank(p, c) \in k + 1 .. k + PageSize}
  <2> DEFINE lo == ((page + 1) - 1) * PageSize
             hi == (page + 1) * PageSize
  <2>1. Page(p, page + 1) = {c \in There(p) : Rank(p, c) \in lo + 1 .. hi}
    BY PageByRank, Zenon
  <2>2. lo = k /\ hi = k + PageSize
    BY <1>2
  <2> HIDE DEF k, lo, hi
  <2> QED BY <2>1, <2>2
<1>4. Ranked(p, page + 1) = {c \in There(p) : Rank(p, c) <= k + PageSize}
      /\ Ranked(p, page) = {c \in There(p) : Rank(p, c) <= k}
  BY <1>2 DEF Ranked
<1> HIDE DEF k
<1> QED BY <1>1, <1>2, <1>3, <1>4, Ranks

(* A page with room left is the last: the least comment beyond it would     *)
(* have more comments up to it than were read.                              *)
LEMMA LastPage ==
    ASSUME TypeOK, NEW p, Cardinality(Ranked(p, page)) = page * PageSize,
           Cardinality(Page(p, page + 1)) < PageSize
    PROVE  There(p) = Ranked(p, page) \cup Page(p, page + 1)
<1> DEFINE read == Ranked(p, page + 1)
           rest == There(p) \ read
           k == page * PageSize
<1>1. page \in Nat /\ PageSize \in Nat /\ k \in Nat /\ (page + 1) * PageSize = k + PageSize
  BY PageAssumption, BoundAssumption DEF TypeOK
<1>2. read \in SUBSET There(p) /\ IsFiniteSet(read) /\ Cardinality(read) \in Nat
  <2>1. read \in SUBSET There(p)
    BY DEF Ranked
  <2> QED BY <2>1, Ranks, FS_Subset, FS_CardinalityType
<1>3. Cardinality(read) < k + PageSize
  <2> DEFINE a == Ranked(p, page)
             b == Page(p, page + 1)
  <2>1. a \cup b = read /\ a \cap b = {}
    BY PageAfterRanked
  <2> HIDE DEF a, b, read
  <2>2. IsFiniteSet(a) /\ IsFiniteSet(b)
    BY <1>2, <2>1, FS_Subset
  <2>3. Cardinality(read) = Cardinality(a) + Cardinality(b) - Cardinality({})
    BY <2>1, <2>2, FS_Union
  <2>4. Cardinality(a) = k /\ Cardinality(b) < PageSize /\ Cardinality(b) \in Nat
    BY <2>2, FS_CardinalityType DEF a, b
  <2> QED BY <1>1, <2>3, <2>4, FS_EmptySet
<1>4. SUFFICES ASSUME rest # {} PROVE FALSE
  BY PageAfterRanked DEF Ranked
<1>5. rest \in SUBSET Int /\ IsFiniteSet(rest)
  <2>1. rest \in SUBSET There(p)
    OBVIOUS
  <2> HIDE DEF rest
  <2> QED BY <2>1, Ranks, FS_Subset
<1>6. PICK c \in rest : \A d \in rest : c <= d
  <2> HIDE DEF rest
  <2> QED BY <1>4, <1>5, Extremes
<1>7. UpTo(p, c) \ {c} \subseteq read
  BY <1>5, <1>6, Ranks DEF UpTo
<1>8. Cardinality(UpTo(p, c) \ {c}) <= Cardinality(read)
  <2> HIDE DEF read
  <2> QED BY <1>2, <1>7, FS_Subset
<1>9. c \in There(p) /\ c \in UpTo(p, c) /\ IsFiniteSet(UpTo(p, c)) /\ Rank(p, c) \in Nat
  <2>1. c \in There(p) /\ c \in Int
    BY <1>5
  <2> QED BY <2>1, Ranks DEF UpTo
<1>10. Cardinality(UpTo(p, c) \ {c}) = Rank(p, c) - 1
  BY <1>9, FS_RemoveElement DEF Rank
<1>11. Rank(p, c) > (page + 1) * PageSize
  BY <1>1, <1>9 DEF Ranked
<1> HIDE DEF read, rest, k
<1> QED BY <1>1, <1>2, <1>3, <1>8, <1>9, <1>10, <1>11

LEMMA PageList == ASSUME TypeOK, ListInv, PageArrives PROVE ListInv'
<1> DEFINE batch == Page(pull, page + 1)
<1>1. at = "listing" /\ UNCHANGED <<row, said, shifted>> /\ \A p : There(p)' = There(p)
  BY DEF PageArrives, host, ghost, There
<1>2. \A p, n : Ranked(p, n)' = Ranked(p, n)
  BY <1>1 DEF Ranked, Rank, UpTo
<1>3. CASE Cardinality(batch) < PageSize /\ Answer(New(queue \cup batch))
  <2>1. CASE New(queue \cup batch) = {} /\ GoOn(todo)
    <3>1. page' = 0 /\ queue' = {} /\ at' \in {"idle", "listing"}
      BY <2>1, GoesOn DEF TypeOK
    <3> QED BY <1>2, <3>1, NothingRankedFirst DEF ListInv, Judging
  <2>2. CASE at' = "judging" /\ queue' = New(queue \cup batch) /\ UNCHANGED pull
    <3>1. ASSUME pull \notin shifted, NEW c \in There(pull), c > row[pull].last
          PROVE  c \in queue'
      <4>1. queue = Ranked(pull, page) /\ Cardinality(queue) = page * PageSize
        BY <1>1, <3>1 DEF ListInv
      <4>2. There(pull) = queue \cup batch
        BY <1>3, <4>1, LastPage
      <4> QED BY <2>2, <3>1, <4>2 DEF New
    <3> QED BY <1>1, <2>2, <3>1 DEF ListInv, Judging
  <2> QED BY <1>3, <2>1, <2>2 DEF Answer
<1>4. CASE /\ Cardinality(batch) = PageSize
           /\ queue' = queue \cup batch /\ page' = page + 1
           /\ UNCHANGED <<at, todo, pull, draft>>
  <2>1. ASSUME pull \notin shifted
        PROVE  queue' = Ranked(pull, page + 1) /\ Cardinality(queue') = (page + 1) * PageSize
    <3>1. queue = Ranked(pull, page) /\ Cardinality(queue) = page * PageSize
      BY <1>1, <2>1 DEF ListInv
    <3>2. queue' = Ranked(pull, page + 1) /\ queue \cap batch = {}
      BY <1>4, <3>1, PageAfterRanked
    <3>3. IsFiniteSet(queue) /\ IsFiniteSet(batch)
      <4>1. queue \in SUBSET There(pull) /\ batch \in SUBSET There(pull)
        BY <3>1 DEF Ranked, Page
      <4> HIDE DEF batch
      <4> QED BY <4>1, Ranks, FS_Subset
    <3>4. Cardinality(queue') = page * PageSize + PageSize - 0
      <4> HIDE DEF batch
      <4> QED BY <1>4, <3>1, <3>2, <3>3, FS_Union, FS_EmptySet
    <3>5. page \in Nat /\ PageSize \in Nat
      BY PageAssumption, BoundAssumption DEF TypeOK
    <3>6. page * PageSize + PageSize - 0 = (page + 1) * PageSize
      BY <3>5
    <3> QED BY <3>2, <3>4, <3>6
  <2> QED BY <1>1, <1>2, <1>4, <2>1 DEF ListInv, Judging
<1> QED BY <1>3, <1>4 DEF PageArrives

(* A new comment is younger than all others, and beyond every full page.    *)
LEMMA CommentList ==
    ASSUME TypeOK, ListInv, NEW p \in Pulls, NEW who \in Authors, Comment(p, who)
    PROVE  ListInv'
<1>0. PICK n : n = Len(said) + 1
  OBVIOUS
<1>1. UNCHANGED <<at, pull, page, queue, row, shifted>>
  BY DEF Comment, job, ghost
<1>2. n \in Int /\ \A c \in DOMAIN said : c \in Int /\ c < n
  BY <1>0, Domain
<1>3. PICK q : q = pull
  OBVIOUS
<1>4. There(q)' = There(q) \cup (IF p = q THEN {n} ELSE {})
  <2>1. /\ DOMAIN said' = DOMAIN said \cup {n}
        /\ \A c \in DOMAIN said : said'[c] = said[c]
        /\ said'[n] = [pull |-> p, by |-> who, there |-> TRUE]
    BY <1>0, SaidGrows, Zenon
  <2> QED BY <1>2, <2>1 DEF There
<1>5. ASSUME NEW c \in There(q) PROVE UpTo(q, c)' = UpTo(q, c)
  <2>1. c \in DOMAIN said /\ c \in Int /\ c < n
    BY <1>2 DEF There
  <2> QED BY <1>2, <1>4, <2>1 DEF UpTo
<1>6. ASSUME at = "listing", q \notin shifted
      PROVE  queue = Ranked(q, page)' /\ Cardinality(queue) = page * PageSize
  <2>1. queue = Ranked(q, page) /\ Cardinality(queue) = page * PageSize
    BY <1>3, <1>6 DEF ListInv
  <2>2. ASSUME NEW c \in There(q) PROVE c \in Ranked(q, page)' <=> c \in Ranked(q, page)
    BY <1>1, <1>4, <1>5 DEF Ranked, Rank
  <2>3. n \notin There(q)
    BY <1>2 DEF There
  <2>4. ASSUME p = q PROVE n \notin Ranked(q, page)'
    <3>1. queue \subseteq UpTo(q, n)' \ {n} /\ n \in UpTo(q, n)'
      <4>1. queue \subseteq There(q) /\ queue \subseteq DOMAIN said
        BY <2>1 DEF Ranked, There
      <4>2. There(q)' = There(q) \cup {n}
        BY <1>4, <2>4
      <4>3. UpTo(q, n)' = {d \in There(q) \cup {n} : d <= n}
        BY <4>2 DEF UpTo
      <4> QED BY <1>2, <4>1, <4>3
    <3>2. IsFiniteSet(UpTo(q, n)') /\ Cardinality(UpTo(q, n)') \in Nat
      <4>1. IsFiniteSet(There(q) \cup {n})
        BY Ranks, FS_AddElement
      <4>2. UpTo(q, n)' \in SUBSET (There(q) \cup {n})
        BY <1>4 DEF UpTo
      <4> QED BY <4>1, <4>2, FS_Subset, FS_CardinalityType
    <3>3. Cardinality(queue) <= Cardinality(UpTo(q, n)' \ {n})
      BY <3>1, <3>2, FS_RemoveElement, FS_Subset
    <3>4. Cardinality(UpTo(q, n)' \ {n}) = Cardinality(UpTo(q, n)') - 1
      BY <3>1, <3>2, FS_RemoveElement
    <3>5. page * PageSize \in Nat
      BY PageAssumption, BoundAssumption DEF TypeOK
    <3>6. Cardinality(UpTo(q, n)') > page * PageSize
      BY <2>1, <3>2, <3>3, <3>4, <3>5
    <3>7. Rank(q, n)' = Cardinality(UpTo(q, n)')
      BY DEF Rank
    <3> QED BY <1>1, <3>2, <3>5, <3>6, <3>7 DEF Ranked
  <2> QED BY <1>1, <1>4, <2>1, <2>2, <2>3, <2>4 DEF Ranked
<1>7. ASSUME Judging, q \notin shifted, NEW c \in There(q)', c > row[q].last
      PROVE  c \in queue \/ \A d \in queue : d < c
  <2>1. CASE c \in There(q)
    BY <1>3, <1>7, <2>1 DEF ListInv
  <2>2. CASE c = n
    BY <1>2, <2>2 DEF TypeOK
  <2> QED BY <1>4, <2>1, <2>2
<1>8. There(q)' = There(pull)' /\ Ranked(q, page)' = Ranked(pull, page)'
  BY <1>1, <1>3 DEF Ranked, Rank, UpTo, There
<1> QED BY <1>1, <1>3, <1>6, <1>7, <1>8 DEF ListInv, Judging

LEMMA SavedList ==
    ASSUME TypeOK, QueueInv, ListInv, Judging, Saved
    PROVE  ListInv'
<1>1. UNCHANGED <<said, shifted>>
  BY DEF Saved, host
<1>2. \A p, n : Ranked(p, n)' = Ranked(p, n) /\ There(p)' = There(p)
  BY <1>1 DEF Ranked, Rank, UpTo, There
<1>3. CASE at' \in {"idle", "listing"}
  <2>1. page' = 0 /\ queue' = {}
    BY <1>3, SavedLeads
  <2> QED BY <1>2, <1>3, <2>1, NothingRankedFirst DEF ListInv, Judging
<1>4. CASE at' \notin {"idle", "listing"}
  <2>1. pull' = pull /\ queue' = queue \ {AtHand} /\ at' = "judging" /\ row'[pull].last = AtHand
    BY <1>4, SavedLeads
  <2>2. /\ AtHand \in Int /\ row[pull].last \in Int /\ AtHand > row[pull].last
        /\ There(pull) \in SUBSET Int
    <3>1. AtHand \in queue /\ AtHand \in DOMAIN said /\ pull \in Pulls
      BY HandIsLeast
    <3>2. AtHand \in Int
      BY <3>1, Domain
    <3>3. row[pull].last \in Int
      BY <3>1 DEF TypeOK
    <3>4. There(pull) \in SUBSET Int
      BY <3>1, Domain, Ranks
    <3>5. AtHand > row[pull].last
      BY <3>1 DEF QueueInv
    <3> QED BY <3>2, <3>3, <3>4, <3>5
  <2>3. ASSUME pull \notin shifted, NEW c \in There(pull), c > AtHand
        PROVE  c \in queue' \/ \A d \in queue' : d < c
    BY <2>1, <2>2, <2>3 DEF ListInv
  <2> QED BY <1>1, <1>2, <2>1, <2>3 DEF ListInv, Judging
<1> QED BY <1>3, <1>4

LEMMA NextList == ASSUME TypeOK, QueueInv, ListInv, [Next]_vars PROVE ListInv'
<1>1. ASSUME UNCHANGED <<row, said, pull, page, queue, shifted>>,
             at' = at \/ (Judging /\ Judging')
      PROVE  ListInv'
  BY <1>1 DEF ListInv, Judging, There, Ranked, Rank, UpTo
<1>2. ASSUME Leaves PROVE ListInv'
  <2>1. \A p, n : Ranked(p, n)' = Ranked(p, n)
    BY <1>2 DEF Leaves, host, Ranked, Rank, UpTo, There
  <2> QED BY <1>2, <2>1, NothingRankedFirst DEF Leaves, ListInv, Judging
<1>3. ASSUME PollStarts \/ Poll PROVE ListInv'
  BY <1>1, <1>2, <1>3, JobSteps, PageList, SavedList DEF Stays, ghost
<1>4. ASSUME NEW c \in Configs, Start(c) PROVE ListInv'
  BY <1>1, <1>4 DEF Start, host, job, ghost
<1>5. ASSUME Stop PROVE ListInv'
  BY <1>5 DEF Stop, ListInv, Judging
<1>6. ASSUME NEW f \in flight, PutLands(f) PROVE ListInv'
  BY <1>1, <1>6 DEF PutLands, Mine, Judging
<1>7. ASSUME NEW d \in DOMAIN said, Delete(d) PROVE ListInv'
  BY <1>7 DEF Delete, ListInv, Judging, job
<1>8. ASSUME NEW p \in Pulls, NEW m \in Pushes, Push(p, m) PROVE ListInv'
  BY <1>1, <1>8 DEF Push, job
<1>9. ASSUME NEW p \in Pulls, Settle(p) PROVE ListInv'
  <2>1. UNCHANGED <<at, said, pull, page, queue, shifted>>
    BY <1>9 DEF Settle, host, job, ghost
  <2>2. \A q \in Pulls : row'[q].last = row[q].last
    BY <1>9 DEF Settle, TypeOK
  <2>3. at = "listing" \/ Judging => pull \in Pulls
    BY DEF TypeOK, Judging, Nothing
  <2> QED BY <2>1, <2>2, <2>3 DEF ListInv, Judging, There, Ranked, Rank, UpTo
<1>10. ASSUME UNCHANGED vars PROVE ListInv'
  BY <1>1, <1>10 DEF vars, host, job, ghost
<1> QED
  BY <1>3, <1>4, <1>5, <1>6, <1>7, <1>8, <1>9, <1>10, CommentList DEF Next

(* A row never has more than there is.                                      *)
LastInv == \A p \in Pulls : row[p].last <= Len(said)

LEMMA NextLast == ASSUME TypeOK, LastInv, [Next]_vars PROVE LastInv'
<1>1. ASSUME UNCHANGED row, said' = said \/ Len(said') = Len(said) PROVE LastInv'
  BY <1>1 DEF LastInv
<1>2. ASSUME Judging, Saved PROVE LastInv'
  <2>1. AtHand <= Len(said) /\ UNCHANGED said
    BY <1>2, HandIsLeast, Domain DEF Saved, host
  <2> QED BY <1>2, <2>1, SavedLeads DEF LastInv
<1>3. ASSUME PollStarts \/ Poll PROVE LastInv'
  BY <1>1, <1>2, <1>3, JobSteps DEF Leaves, Stays, PageArrives, host
<1>4. ASSUME NEW p \in Pulls, NEW who \in Authors, Comment(p, who) PROVE LastInv'
  <2>1. UNCHANGED row /\ Len(said') = Len(said) + 1 /\ Len(said) \in Nat
    BY <1>4, SaidGrows, Domain DEF Comment
  <2>2. \A q \in Pulls : row[q].last \in Int
    BY DEF TypeOK
  <2> QED BY <2>1, <2>2 DEF LastInv
<1>5. ASSUME NEW c \in DOMAIN said, Delete(c) PROVE LastInv'
  BY <1>1, <1>5, SaidShrinks DEF Delete
<1>6. ASSUME NEW p \in Pulls, Settle(p) PROVE LastInv'
  <2>1. \A q \in Pulls : row'[q].last = row[q].last
    BY <1>6 DEF Settle, TypeOK
  <2> QED BY <1>6, <2>1 DEF Settle, LastInv, host
<1> QED
  BY <1>1, <1>3, <1>4, <1>5, <1>6
     DEF Next, Start, Stop, PutLands, Push, vars, host

LEMMA NextSkip ==
    ASSUME TypeOK, ListInv, LastInv, NothingSkipped, [Next]_vars
    PROVE  NothingSkipped'
<1>1. ASSUME UNCHANGED <<row, said, judged, shifted>> PROVE NothingSkipped'
  BY <1>1 DEF NothingSkipped
<1>2. ASSUME Judging, Saved PROVE NothingSkipped'
  <2>1. UNCHANGED <<said, shifted>> /\ judged' = judged \cup {AtHand}
    BY <1>2 DEF Saved, host
  <2>2. /\ pull \in Pulls /\ AtHand \in Int /\ AtHand \in queue /\ \A c \in queue : AtHand <= c
        /\ row[pull].last \in Int /\ row'[pull].last = AtHand
        /\ \A p \in Pulls : p # pull => row'[p] = row[p]
    <3>1. pull \in Pulls /\ AtHand \in queue /\ AtHand \in DOMAIN said /\ \A c \in queue : AtHand <= c
      BY <1>2, HandIsLeast
    <3>2. AtHand \in Int
      BY <3>1, Domain
    <3>3. row[pull].last \in Int
      BY <3>1 DEF TypeOK
    <3> QED BY <1>2, <3>1, <3>2, <3>3, SavedLeads
  <2> SUFFICES ASSUME NEW c \in DOMAIN said, said[c].there, c <= row'[said[c].pull].last
               PROVE  c \in judged \cup {AtHand} \/ said[c].pull \in shifted
    BY <2>1 DEF NothingSkipped
  <2>3. c \in Int /\ said[c].pull \in Pulls
    BY Domain
  <2>4. CASE said[c].pull # pull \/ c <= row[pull].last
    BY <2>2, <2>3, <2>4 DEF NothingSkipped
  <2>5. CASE said[c].pull = pull /\ c > row[pull].last /\ pull \notin shifted
    <3>1. c \in There(pull) /\ c <= AtHand
      BY <2>2, <2>5 DEF There
    <3>2. c \in queue \/ \A d \in queue : d < c
      BY <1>2, <2>5, <3>1 DEF ListInv
    <3>3. c = AtHand
      BY <2>2, <2>3, <3>1, <3>2
    <3> QED BY <3>3
  <2> QED BY <2>2, <2>3, <2>4, <2>5
<1>3. ASSUME PollStarts \/ Poll PROVE NothingSkipped'
  BY <1>1, <1>2, <1>3, JobSteps DEF Leaves, Stays, PageArrives, host, ghost
<1>4. ASSUME NEW p \in Pulls, NEW who \in Authors, Comment(p, who) PROVE NothingSkipped'
  <2>0. PICK n : n = Len(said) + 1
    OBVIOUS
  <2>1. UNCHANGED <<row, judged, shifted>>
    BY <1>4 DEF Comment, ghost
  <2>2. /\ DOMAIN said' = DOMAIN said \cup {n} /\ said'[n].pull = p
        /\ \A c \in DOMAIN said : said'[c] = said[c]
    <3>1. said'[n] = [pull |-> p, by |-> who, there |-> TRUE]
      BY <1>4, <2>0, SaidGrows, Zenon
    <3>2. DOMAIN said' = DOMAIN said \cup {n} /\ \A c \in DOMAIN said : said'[c] = said[c]
      BY <1>4, <2>0, SaidGrows, Zenon
    <3> QED BY <3>1, <3>2
  <2>3. ~ (n <= row[p].last)
    <3>1. Len(said) \in Nat /\ row[p].last \in Int /\ row[p].last <= Len(said)
      BY Domain DEF TypeOK, LastInv
    <3> QED BY <2>0, <3>1
  <2> QED BY <2>1, <2>2, <2>3 DEF NothingSkipped
<1>5. ASSUME NEW d \in DOMAIN said, Delete(d) PROVE NothingSkipped'
  <2>1. UNCHANGED <<row, judged>> /\ shifted \subseteq shifted'
    BY <1>5 DEF Delete
  <2> QED BY <1>5, <2>1, SaidShrinks DEF NothingSkipped
<1>6. ASSUME NEW p \in Pulls, Settle(p) PROVE NothingSkipped'
  <2>1. (\A q \in Pulls : row'[q].last = row[q].last) /\ UNCHANGED <<said, judged, shifted>>
    BY <1>6 DEF Settle, TypeOK, host, ghost
  <2>2. \A c \in DOMAIN said : said[c].pull \in Pulls
    BY Domain
  <2> QED BY <2>1, <2>2 DEF NothingSkipped
<1> QED
  BY <1>1, <1>3, <1>4, <1>5, <1>6
     DEF Next, Start, Stop, PutLands, Push, vars, host, ghost

(* proposal/engine.py saves last_comment_id after every comment, in order:  *)
(* whatever fails in between, no comment at or below it went unconsidered,  *)
(* for any page size, unless the pages shifted while they were listed.      *)
THEOREM NothingIsSkipped == Spec => []NothingSkipped
<1>1. Init => QueueInv /\ ListInv /\ LastInv /\ NothingSkipped
  <2>1. Init => Len(said) = 0 /\ DOMAIN said = {} /\ \A p \in Pulls : row[p].last = 0
    BY DEF Init
  <2> QED BY <2>1 DEF Init, QueueInv, ListInv, LastInv, NothingSkipped, Judging
<1>2. TypeOK /\ QueueInv /\ ListInv /\ LastInv /\ NothingSkipped /\ [Next]_vars
         => QueueInv' /\ ListInv' /\ LastInv' /\ NothingSkipped'
  BY NextQueue, NextList, NextLast, NextSkip
<1> QED BY <1>1, <1>2, TypeCorrect, PTL DEF Spec
=============================================================================
