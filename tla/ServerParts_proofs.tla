-------------------------- MODULE ServerParts_proofs --------------------------
(***************************************************************************)
(* The parts that the server keeps in its memory: the sessions and         *)
(* processes of the previews (PreviewSessions), the SyncTeX sessions       *)
(* (SyncTexSessions) and the language servers (LanguageServers).  Each has *)
(* an invariant that its steps keep; Parts_proofs draws the theorems about *)
(* MCParts from these.  The lemmas on positions are in EditorParts_proofs. *)
(***************************************************************************)
EXTENDS ServerParts, EditorParts_proofs, Naturals, Sequences, Selection, FiniteSetTheorems, SequenceTheorems, TLAPS

-----------------------------------------------------------------------------
(* The preview sessions (PreviewSessions).                                   *)

Distinct == None \notin Nat /\ None \notin Pids /\ None \notin CallerKeys
            /\ None \notin [session : Nat, killed : BOOLEAN]

SessionRecs == [key : CallerKeys, entry : Entries \cup {None}, process : Pids \cup {None}]

SessionTypes ==
  /\ session \in Seq(SessionRecs)
  /\ recent \in Seq(1..Len(session))
  /\ byKey \in [CallerKeys -> Nat \cup {None}]
  /\ process \in [Pids -> [session : 1..Len(session), killed : BOOLEAN] \cup {None}]
  /\ ensure \in [Ensures -> [step : {"idle", "ports", "waiting"}, key : CallerKeys \cup {None},
                             entry : Entries \cup {None}, session : Nat \cup {None}]]
  /\ \A c \in Ensures : ensure[c].step = "ports" => ensure[c].key \in CallerKeys /\ ensure[c].entry \in Entries

OncePerSession == \A i, j \in DOMAIN recent : recent[i] = recent[j] => i = j

\* What a session names as its process runs, and for that session.
ProcessOfSession ==
  \A s \in DOMAIN session :
    session[s].process # None =>
      process[session[s].process] # None /\ process[session[s].process].session = s

-----------------------------------------------------------------------------
\* The same operators, as the instance names them.
LEMMA SelectHere ==
  ASSUME NEW s, NEW I
  PROVE  Previews!Select(s, I) = Select(s, I)
BY
   DEF Previews!Select, Select, Previews!Nth, Nth, Previews!RankIn, RankIn, Previews!Cardinality,
       Cardinality

LEMMA LiveHere == Previews!Live = {recent[i] : i \in DOMAIN recent}
BY DEF Previews!Live, Previews!ToSet

\* What stays when some sessions are dropped.
LEMMA KeepsOthers ==
  ASSUME SessionTypes, OncePerSession, NEW drop
  PROVE  /\ Previews!RecentWithout(drop) \in Seq(1..Len(session))
         /\ {Previews!RecentWithout(drop)[i] : i \in DOMAIN Previews!RecentWithout(drop)} = Previews!Live \ drop
         /\ \A i, j \in DOMAIN Previews!RecentWithout(drop) :
              Previews!RecentWithout(drop)[i] = Previews!RecentWithout(drop)[j] => i = j
<1> DEFINE I == {i \in DOMAIN recent : recent[i] \notin drop}
           left == Select(recent, I)
<1>1. left = Previews!RecentWithout(drop)
  BY SelectHere DEF Previews!RecentWithout
<1>2. recent \in Seq(1..Len(session)) /\ I \in SUBSET DOMAIN recent
  BY DEF SessionTypes
<1>3. /\ left \in Seq(1..Len(session)) /\ Len(left) = Cardinality(I)
      /\ Cardinality(I) \in Nat
      /\ \A k \in 1..Cardinality(I) : Nth(I, k) \in I /\ left[k] = recent[Nth(I, k)]
      /\ \A i \in I : \E k \in 1..Cardinality(I) : Nth(I, k) = i
      /\ \A k, l \in 1..Cardinality(I) : Nth(I, k) = Nth(I, l) => k = l
  <2> DEFINE X == 1..Len(session)
  <2>1. recent \in Seq(X) /\ I \in SUBSET DOMAIN recent
    BY <1>2
  <2> HIDE DEF I, X
  <2>2. left \in Seq(X)
    BY <2>1, Selected
  <2>3. /\ Len(left) = Cardinality(I) /\ Cardinality(I) \in Nat
        /\ \A k \in 1..Cardinality(I) : Nth(I, k) \in I /\ left[k] = recent[Nth(I, k)]
    BY <2>1, Selected
  <2>4. /\ \A i \in I : \E k \in 1..Cardinality(I) : Nth(I, k) = i
        /\ \A k, l \in 1..Cardinality(I) : Nth(I, k) = Nth(I, l) => k = l
    BY <2>1, Selected
  <2> QED
    BY <2>2, <2>3, <2>4 DEF X
<1>4. \A i \in I : i \in DOMAIN recent /\ recent[i] \notin drop
  OBVIOUS
<1>5. \A i \in DOMAIN recent : recent[i] \notin drop => i \in I
  OBVIOUS
<1> HIDE DEF I, left
<1>6. DOMAIN left = 1..Cardinality(I)
  BY <1>3
<1>8. {left[i] : i \in DOMAIN left} = Previews!Live \ drop
  <2>1. ASSUME NEW i \in DOMAIN left PROVE left[i] \in Previews!Live \ drop
    BY <1>3, <1>4, <1>6, LiveHere
  <2>2. ASSUME NEW s \in Previews!Live \ drop PROVE \E i \in DOMAIN left : left[i] = s
    <3>1. PICK i \in DOMAIN recent : recent[i] = s
      BY LiveHere
    <3>2. PICK k \in 1..Cardinality(I) : Nth(I, k) = i
      BY <1>3, <1>5, <3>1
    <3> QED
      BY <1>3, <1>6, <3>1, <3>2
  <2> QED
    BY <2>1, <2>2
<1>9. \A i, j \in DOMAIN left : left[i] = left[j] => i = j
  <2> SUFFICES ASSUME NEW i \in DOMAIN left, NEW j \in DOMAIN left, left[i] = left[j]
               PROVE  i = j
    OBVIOUS
  <2>1. Nth(I, i) \in DOMAIN recent /\ Nth(I, j) \in DOMAIN recent /\ recent[Nth(I, i)] = recent[Nth(I, j)]
    BY <1>3, <1>4, <1>6
  <2>2. Nth(I, i) = Nth(I, j)
    BY <2>1 DEF OncePerSession
  <2> QED
    BY <1>3, <1>6, <2>2
<1> QED
  BY <1>1, <1>3, <1>8, <1>9

LEMMA DroppedSessions ==
  ASSUME SessionTypes, NEW drop
  PROVE  /\ Previews!SessionsWithout(drop) \in Seq(SessionRecs)
         /\ DOMAIN Previews!SessionsWithout(drop) = DOMAIN session
         /\ Len(Previews!SessionsWithout(drop)) = Len(session)
         /\ \A s \in DOMAIN session :
              /\ Previews!SessionsWithout(drop)[s].key = session[s].key
              /\ s \notin drop => Previews!SessionsWithout(drop)[s] = session[s]
              /\ s \in drop => /\ Previews!SessionsWithout(drop)[s].entry = None
                               /\ Previews!SessionsWithout(drop)[s].process = None
<1> DEFINE left == Previews!SessionsWithout(drop)
<1>1. DOMAIN session = 1..Len(session) /\ Len(session) \in Nat
  BY DEF SessionTypes
<1>2. left = [s \in 1..Len(session) |->
                IF s \in drop THEN [session[s] EXCEPT !.entry = None, !.process = None] ELSE session[s]]
  BY <1>1 DEF Previews!SessionsWithout
<1>3. \A s \in 1..Len(session) : session[s] \in SessionRecs
  BY DEF SessionTypes
<1>4. ASSUME NEW s \in 1..Len(session)
      PROVE  /\ left[s] \in SessionRecs /\ left[s].key = session[s].key
             /\ s \notin drop => left[s] = session[s]
             /\ s \in drop => left[s].entry = None /\ left[s].process = None
  <2>1. session[s] \in SessionRecs
    BY <1>3
  <2>2. CASE s \in drop
    <3>1. left[s] = [session[s] EXCEPT !.entry = None, !.process = None]
      BY <1>2, <2>2
    <3> HIDE DEF left
    <3> QED
      BY <2>1, <2>2, <3>1 DEF SessionRecs
  <2>3. CASE s \notin drop
    <3>1. left[s] = session[s]
      BY <1>2, <2>3
    <3> HIDE DEF left
    <3> QED
      BY <2>1, <2>3, <3>1
  <2> QED
    BY <2>2, <2>3
<1>5. DOMAIN left = 1..Len(session)
  BY <1>2
<1> HIDE DEF left
<1>6. left = [s \in 1..Len(session) |-> left[s]]
  BY <1>2
<1>7. left \in Seq(SessionRecs) /\ Len(left) = Len(session)
  BY <1>1, <1>4, <1>6
<1> QED
  BY <1>1, <1>4, <1>5, <1>7 DEF left

LEMMA DroppedProcesses ==
  ASSUME SessionTypes, ProcessOfSession, Distinct, NEW drop \in SUBSET (1..Len(session))
  PROVE  /\ Previews!ProcessesWithout(drop) \in [Pids -> [session : 1..Len(session), killed : BOOLEAN] \cup {None}]
         /\ \A p \in Pids : /\ Previews!ProcessesWithout(drop)[p] = None <=> process[p] = None
                            /\ process[p] # None =>
                                 /\ Previews!ProcessesWithout(drop)[p].session = process[p].session
                                 /\ ~Previews!ProcessesWithout(drop)[p].killed =>
                                      ~process[p].killed /\ ~\E s \in drop : session[s].process = p
                                 /\ Previews!ProcessesWithout(drop)[p].killed =>
                                      process[p].killed \/ (process[p].session \in drop)
<1> DEFINE left == Previews!ProcessesWithout(drop)
           recs == [session : 1..Len(session), killed : BOOLEAN]
<1>1. left = [p \in Pids |-> IF \E s \in drop : session[s].process = p THEN Previews!Killed(p) ELSE process[p]]
  BY DEF Previews!ProcessesWithout
<1>2. ASSUME NEW p \in Pids
      PROVE  /\ left[p] \in recs \cup {None}
             /\ left[p] = None <=> process[p] = None
             /\ process[p] # None =>
                  /\ left[p].session = process[p].session
                  /\ ~left[p].killed => ~process[p].killed /\ ~\E s \in drop : session[s].process = p
                  /\ left[p].killed => process[p].killed \/ (process[p].session \in drop)
  <2>1. process[p] \in recs \cup {None}
    BY DEF SessionTypes
  <2>2. CASE \E s \in drop : session[s].process = p
    <3>1. PICK s \in drop : session[s].process = p
      BY <2>2
    <3>2. s \in DOMAIN session /\ p # None
      BY DEF SessionTypes, Distinct
    <3>3. process[p] # None /\ process[p].session = s
      BY <3>1, <3>2 DEF ProcessOfSession
    <3>4. left[p] = [process[p] EXCEPT !.killed = TRUE]
      BY <1>1, <2>2 DEF Previews!Killed
    <3>5. process[p] \in recs
      BY <2>1, <3>3
    <3>6. left[p] \in recs /\ left[p].session = process[p].session /\ left[p].killed
      <4> HIDE DEF left
      <4> QED
        BY <3>4, <3>5
    <3>7. left[p] # None
      <4>1. \A r \in recs : r # None
        BY DEF Distinct
      <4> QED
        BY <3>6, <4>1
    <3> HIDE DEF left, recs
    <3> QED
      BY <3>1, <3>3, <3>6, <3>7
  <2>3. CASE ~\E s \in drop : session[s].process = p
    <3>1. left[p] = process[p]
      BY <1>1, <2>3
    <3> HIDE DEF left, recs
    <3> QED
      BY <2>1, <2>3, <3>1
  <2> QED
    BY <2>2, <2>3
<1>3. left \in [Pids -> recs \cup {None}]
  <2>1. \A p \in Pids : left[p] \in recs \cup {None}
    BY <1>2
  <2>2. left = [p \in Pids |-> left[p]]
    BY <1>1
  <2> HIDE DEF left, recs
  <2> QED
    BY <2>1, <2>2
<1> HIDE DEF left
<1> QED
  BY <1>2, <1>3 DEF left

\* A process is started for a session that has none.
LEMMA Spawned ==
  ASSUME Distinct, NEW sess \in Seq(SessionRecs), NEW s \in DOMAIN sess,
         NEW procs \in [Pids -> [session : 1..Len(sess), killed : BOOLEAN] \cup {None}],
         \A x \in DOMAIN sess :
           sess[x].process # None => procs[sess[x].process] # None /\ procs[sess[x].process].session = x,
         Previews!Spawn(s, procs, sess)
  PROVE  /\ session' \in Seq(SessionRecs) /\ Len(session') = Len(sess) /\ DOMAIN session' = DOMAIN sess
         /\ \A x \in DOMAIN sess : session'[x].key = sess[x].key /\ session'[x].entry = sess[x].entry
         /\ process' \in [Pids -> [session : 1..Len(sess), killed : BOOLEAN] \cup {None}]
         /\ ProcessOfSession'
<1> DEFINE recs == [session : 1..Len(sess), killed : BOOLEAN]
<1>1. DOMAIN sess = 1..Len(sess) /\ Len(sess) \in Nat /\ \A x \in DOMAIN sess : sess[x] \in SessionRecs
  OBVIOUS
<1>2. CASE sess[s].process # None
  <2>1. process' = procs /\ session' = sess
    BY <1>2 DEF Previews!Spawn
  <2>2. ProcessOfSession'
    BY <2>1 DEF ProcessOfSession
  <2> QED
    BY <2>1, <2>2
<1>3. CASE sess[s].process = None
  <2>1. PICK p \in Pids :
          /\ procs[p] = None
          /\ process' = [procs EXCEPT ![p] = [session |-> s, killed |-> FALSE]]
          /\ session' = [x \in DOMAIN sess |-> IF x = s THEN [sess[x] EXCEPT !.process = p] ELSE sess[x]]
    BY <1>3 DEF Previews!Spawn
  <2> DEFINE new == [session |-> s, killed |-> FALSE]
  <2>2. new \in recs /\ new.session = s
    BY <1>1
  <2>3. new # None
    <3>1. new \in [session : Nat, killed : BOOLEAN]
      BY <1>1
    <3> QED
      BY <3>1 DEF Distinct
  <2>4. process' \in [Pids -> recs \cup {None}] /\ process'[p] = new /\ \A q \in Pids : q # p => process'[q] = procs[q]
    <3> HIDE DEF new, recs
    <3> QED
      BY <2>1, <2>2 DEF new, recs
  <2>5. ASSUME NEW x \in DOMAIN sess
        PROVE  /\ session'[x] \in SessionRecs
               /\ session'[x].key = sess[x].key /\ session'[x].entry = sess[x].entry
               /\ session'[x].process = IF x = s THEN p ELSE sess[x].process
    <3>1. sess[x] \in SessionRecs
      BY <1>1
    <3>2. session'[x] = IF x = s THEN [sess[x] EXCEPT !.process = p] ELSE sess[x]
      BY <2>1
    <3>3. CASE x = s
      BY <3>1, <3>2, <3>3 DEF SessionRecs
    <3>4. CASE x # s
      BY <3>1, <3>2, <3>4
    <3> QED
      BY <3>3, <3>4
  <2>6. session' \in Seq(SessionRecs) /\ Len(session') = Len(sess) /\ DOMAIN session' = DOMAIN sess
    <3>1. session' = [x \in 1..Len(sess) |-> session'[x]]
      BY <1>1, <2>1
    <3> QED
      BY <1>1, <2>5, <3>1
  <2>7. ProcessOfSession'
    <3> SUFFICES ASSUME NEW x \in DOMAIN sess, session'[x].process # None
                 PROVE  process'[session'[x].process] # None /\ process'[session'[x].process].session = x
      BY <2>6 DEF ProcessOfSession
    <3>1. CASE x = s
      BY <2>2, <2>3, <2>4, <2>5, <3>1
    <3>2. CASE x # s
      <4>1. session'[x].process = sess[x].process
        BY <2>5, <3>2
      <4>2. procs[sess[x].process] # None /\ procs[sess[x].process].session = x
        BY <4>1
      <4>3. sess[x].process \in Pids /\ sess[x].process # p
        <5>1. sess[x] \in SessionRecs
          BY <1>1
        <5> QED
          BY <2>1, <4>1, <4>2, <5>1 DEF SessionRecs
      <4> QED
        BY <2>4, <4>1, <4>2, <4>3
    <3> QED
      BY <3>1, <3>2
  <2> HIDE DEF recs
  <2> QED
    BY <2>4, <2>5, <2>6, <2>7 DEF recs
<1> QED
  BY <1>2, <1>3

-----------------------------------------------------------------------------
\* How many sessions live, and room for one more.

LimitsSet == MaxLive \in Nat \ {0} /\ MaxPerOwner \in Nat \ {0} /\ MaxCreating \in Nat /\ IsFiniteSet(Ensures)

LEMMA CountedHere ==
  ASSUME NEW S
  PROVE  Previews!Cardinality(S) = Cardinality(S)
BY DEF Previews!Cardinality, Cardinality

\* A sequence without repetition is as long as it has elements.
LEMMA CountedOnce ==
  ASSUME NEW X, NEW s \in Seq(X), \A i, j \in DOMAIN s : s[i] = s[j] => i = j
  PROVE  IsFiniteSet({s[i] : i \in DOMAIN s}) /\ Cardinality({s[i] : i \in DOMAIN s}) = Len(s)
<1> DEFINE S == {s[i] : i \in DOMAIN s}
<1>1. DOMAIN s = 1..Len(s) /\ Len(s) \in Nat
  OBVIOUS
<1>2. IsFiniteSet(1..Len(s)) /\ Cardinality(1..Len(s)) = Len(s)
  BY <1>1, FS_Interval
<1>3. s \in [1..Len(s) -> S]
  <2>1. s = [i \in 1..Len(s) |-> s[i]]
    BY <1>1
  <2>2. \A i \in 1..Len(s) : s[i] \in S
    BY <1>1
  <2> HIDE DEF S
  <2> QED
    BY <2>1, <2>2
<1>4. \A i, j \in 1..Len(s) : s[i] = s[j] => i = j
  BY <1>1
<1>5. \A x \in S : \E i \in 1..Len(s) : s[i] = x
  BY <1>1
<1> HIDE DEF S
<1>6. s \in Bijection(1..Len(s), S)
  BY <1>3, <1>4, <1>5 DEF Bijection, Injection, Surjection, IsInjective
<1>7. IsFiniteSet(S) /\ Cardinality(S) = Cardinality(1..Len(s))
  <2>1. ExistsBijection(1..Len(s), S)
    BY <1>6 DEF ExistsBijection
  <2> QED
    BY <1>2, <2>1, FS_Bijection
<1> QED
  BY <1>2, <1>7 DEF S

LEMMA LiveOnes ==
  ASSUME SessionTypes, OncePerSession
  PROVE  /\ IsFiniteSet(Previews!Live) /\ Cardinality(Previews!Live) = Len(recent)
         /\ Previews!Live \in SUBSET (1..Len(session)) /\ Len(session) \in Nat /\ Len(recent) \in Nat
<1>1. recent \in Seq(1..Len(session)) /\ Len(session) \in Nat
  BY DEF SessionTypes
<1>2. IsFiniteSet(Previews!Live) /\ Cardinality(Previews!Live) = Len(recent)
  <2> DEFINE X == 1..Len(session)
  <2>1. recent \in Seq(X)
    BY <1>1
  <2> HIDE DEF X
  <2> QED
    BY <2>1, CountedOnce, LiveHere DEF OncePerSession
<1> QED
  BY <1>1, <1>2, LiveHere

\* The one that is removed is one of those.
LEMMA OldestIsOne ==
  ASSUME SessionTypes, NEW L \in SUBSET Previews!Live, L # {}
  PROVE  Previews!Oldest(L) \in L
<1> DEFINE I == {i \in DOMAIN recent : recent[i] \in L}
<1>1. I \in SUBSET Nat /\ IsFiniteSet(I) /\ I # {}
  <2>1. DOMAIN recent = 1..Len(recent) /\ Len(recent) \in Nat
    BY DEF SessionTypes
  <2>2. IsFiniteSet(1..Len(recent))
    BY <2>1, FS_Interval
  <2>3. I # {}
    BY LiveHere
  <2>4. I \in SUBSET (1..Len(recent)) /\ 1..Len(recent) \in SUBSET Nat
    BY <2>1
  <2> HIDE DEF I
  <2> QED
    BY <2>1, <2>2, <2>3, <2>4, FS_Subset
<1>2. \E i \in I : \A j \in I : i <= j
  <2> HIDE DEF I
  <2> QED
    BY <1>1, LeastGreatest
<1>3. \E i \in DOMAIN recent : recent[i] \in L /\ \A j \in DOMAIN recent : recent[j] \in L => i <= j
  BY <1>2
<1> QED
  BY <1>3 DEF Previews!Oldest

LEMMA RoomMade ==
  ASSUME SessionTypes, OncePerSession, LimitsSet, NEW L \in SUBSET Previews!Live, NEW o
  PROVE  /\ Previews!Room(L, o) \in SUBSET L
         /\ \/ Cardinality(L \ Previews!Room(L, o)) <= MaxLive - 1
            \/ Cardinality(L \ Previews!Room(L, o)) <= Cardinality(L) - 1
         /\ \/ Cardinality(Previews!Owned(L \ Previews!Room(L, o), o)) <= MaxPerOwner - 1
            \/ Cardinality(Previews!Owned(L \ Previews!Room(L, o), o)) <= Cardinality(Previews!Owned(L, o)) - 1
<1> DEFINE own == Previews!Owned(L, o)
           first == IF Cardinality(own) >= MaxPerOwner THEN {Previews!Oldest(own)} ELSE {}
           rest == L \ first
           last == IF Cardinality(rest) >= MaxLive THEN {Previews!Oldest(rest)} ELSE {}
           left == L \ Previews!Room(L, o)
<1>1. Previews!Room(L, o) = first \cup last
  BY CountedHere DEF Previews!Room
<1>2. IsFiniteSet(L) /\ Cardinality(L) \in Nat
  BY LiveOnes, FS_Subset, FS_CardinalityType
<1>3. own \in SUBSET L /\ Previews!Owned(left, o) = own \ Previews!Room(L, o)
  BY DEF Previews!Owned
<1>4. IsFiniteSet(own) /\ Cardinality(own) \in Nat
  BY <1>2, <1>3, FS_Subset, FS_CardinalityType
<1>5. Cardinality(own) >= MaxPerOwner => Previews!Oldest(own) \in own
  <2> SUFFICES ASSUME Cardinality(own) >= MaxPerOwner PROVE Previews!Oldest(own) \in own
    OBVIOUS
  <2>1. own # {}
    <3> HIDE DEF own
    <3> QED
      BY <1>4, FS_EmptySet DEF LimitsSet
  <2> QED
    BY <1>3, <2>1, OldestIsOne
<1>6. rest \in SUBSET L /\ IsFiniteSet(rest) /\ Cardinality(rest) \in Nat /\ Cardinality(rest) <= Cardinality(L)
  <2>1. rest \in SUBSET L
    OBVIOUS
  <2> HIDE DEF rest
  <2> QED
    BY <1>2, <2>1, FS_Subset, FS_CardinalityType
<1>7. Cardinality(rest) >= MaxLive => Previews!Oldest(rest) \in rest
  <2> SUFFICES ASSUME Cardinality(rest) >= MaxLive PROVE Previews!Oldest(rest) \in rest
    OBVIOUS
  <2> HIDE DEF rest
  <2>1. rest # {}
    BY <1>6, FS_EmptySet DEF LimitsSet
  <2> QED
    BY <1>6, <2>1, OldestIsOne
<1>8. Previews!Room(L, o) \in SUBSET L
  BY <1>1, <1>3, <1>5, <1>7
<1>9. left = rest \ last
  BY <1>1
<1>10. Cardinality(left) <= MaxLive - 1 \/ Cardinality(left) <= Cardinality(L) - 1
  <2>1. CASE Cardinality(rest) >= MaxLive
    <3>1. left = rest \ {Previews!Oldest(rest)} /\ Previews!Oldest(rest) \in rest
      BY <1>7, <1>9, <2>1
    <3> HIDE DEF rest, left
    <3>2. Cardinality(left) = Cardinality(rest) - 1
      BY <1>6, <3>1, FS_RemoveElement
    <3> QED
      BY <1>2, <1>6, <3>2
  <2>2. CASE ~(Cardinality(rest) >= MaxLive)
    <3>1. left = rest
      BY <1>9, <2>2
    <3> HIDE DEF rest, left
    <3> QED
      BY <1>6, <2>2, <3>1 DEF LimitsSet
  <2> QED
    BY <2>1, <2>2
<1>11. \/ Cardinality(Previews!Owned(left, o)) <= MaxPerOwner - 1
       \/ Cardinality(Previews!Owned(left, o)) <= Cardinality(own) - 1
  <2> DEFINE ours == Previews!Owned(left, o)
  <2>1. CASE Cardinality(own) >= MaxPerOwner
    <3>1. ours \in SUBSET (own \ {Previews!Oldest(own)}) /\ Previews!Oldest(own) \in own
      BY <1>1, <1>3, <1>5, <2>1
    <3> HIDE DEF own, ours
    <3>2. IsFiniteSet(own \ {Previews!Oldest(own)})
          /\ Cardinality(own \ {Previews!Oldest(own)}) = Cardinality(own) - 1
      BY <1>4, <3>1, FS_RemoveElement
    <3>3. Cardinality(ours) <= Cardinality(own \ {Previews!Oldest(own)})
      BY <3>1, <3>2, FS_Subset
    <3>4. IsFiniteSet(ours) /\ Cardinality(ours) \in Nat
      BY <3>1, <3>2, FS_Subset, FS_CardinalityType
    <3>5. Cardinality(ours) <= Cardinality(own) - 1
      BY <1>4, <3>2, <3>3, <3>4
    <3> QED
      BY <3>5 DEF ours
  <2>2. CASE ~(Cardinality(own) >= MaxPerOwner)
    <3>1. ours \in SUBSET own
      BY <1>3
    <3> HIDE DEF own, ours
    <3>2. Cardinality(ours) <= Cardinality(own) /\ Cardinality(ours) \in Nat
      BY <1>4, <3>1, FS_Subset, FS_CardinalityType
    <3>3. Cardinality(ours) <= MaxPerOwner - 1
      BY <1>4, <2>2, <3>2 DEF LimitsSet
    <3> QED
      BY <3>3 DEF ours
  <2> QED
    BY <2>1, <2>2
<1> QED
  BY <1>8, <1>10, <1>11

-----------------------------------------------------------------------------
\* What every step keeps.
Base == SessionTypes /\ OncePerSession /\ ProcessOfSession

\* The sessions that a new one drops: the expired ones, and those that make room.
Expired(n) == {recent[i] : i \in 1..n}
DroppedFor(k, n) == Expired(n) \cup Previews!Room(Previews!Live \ Expired(n), OwnerOf[k])

LEMMA DroppedLive ==
  ASSUME Base, LimitsSet, NEW k \in CallerKeys, NEW n \in 0..Len(recent)
  PROVE  /\ Expired(n) \in SUBSET Previews!Live /\ DroppedFor(k, n) \in SUBSET Previews!Live
         /\ DroppedFor(k, n) \in SUBSET (1..Len(session)) /\ Expired(n) \in SUBSET (1..Len(session))
<1>1. Expired(n) \in SUBSET Previews!Live
  <2>1. Len(recent) \in Nat /\ DOMAIN recent = 1..Len(recent)
    BY DEF Base, SessionTypes
  <2>2. \A i \in 1..n : i \in DOMAIN recent
    BY <2>1
  <2> QED
    BY <2>2, LiveHere DEF Expired
<1>2. Previews!Room(Previews!Live \ Expired(n), OwnerOf[k]) \in SUBSET (Previews!Live \ Expired(n))
  <2> DEFINE L == Previews!Live \ Expired(n)
  <2>1. L \in SUBSET Previews!Live
    OBVIOUS
  <2> HIDE DEF L
  <2>2. Previews!Room(L, OwnerOf[k]) \in SUBSET L
    BY <2>1, RoomMade DEF Base
  <2> QED
    BY <2>2 DEF L
<1>3. Previews!Live \in SUBSET (1..Len(session))
  BY LiveOnes DEF Base
<1>4. DroppedFor(k, n) \in SUBSET Previews!Live
  BY <1>1, <1>2 DEF DroppedFor
<1> QED
  BY <1>1, <1>3, <1>4

LEMMA EnsureTypes ==
  ASSUME Base, NEW c \in Ensures, NEW r,
         r \in [step : {"idle", "ports", "waiting"}, key : CallerKeys \cup {None},
                entry : Entries \cup {None}, session : Nat \cup {None}],
         r.step = "ports" => r.key \in CallerKeys /\ r.entry \in Entries,
         ensure' = [ensure EXCEPT ![c] = r]
  PROVE  /\ ensure' \in [Ensures -> [step : {"idle", "ports", "waiting"}, key : CallerKeys \cup {None},
                                     entry : Entries \cup {None}, session : Nat \cup {None}]]
         /\ \A d \in Ensures : ensure'[d].step = "ports" => ensure'[d].key \in CallerKeys /\ ensure'[d].entry \in Entries
         /\ \A d \in Ensures : ensure'[d] = IF d = c THEN r ELSE ensure[d]
<1> DEFINE recs == [step : {"idle", "ports", "waiting"}, key : CallerKeys \cup {None},
                    entry : Entries \cup {None}, session : Nat \cup {None}]
<1>1. ensure \in [Ensures -> recs]
      /\ \A d \in Ensures : ensure[d].step = "ports" => ensure[d].key \in CallerKeys /\ ensure[d].entry \in Entries
  BY DEF Base, SessionTypes
<1>2. r \in recs
  OBVIOUS
<1> HIDE DEF recs
<1>3. ensure' \in [Ensures -> recs] /\ \A d \in Ensures : ensure'[d] = IF d = c THEN r ELSE ensure[d]
  BY <1>1, <1>2
<1> QED
  BY <1>1, <1>3 DEF recs

\* Sessions are dropped, and nothing is started.
LEMMA DropKeepsBase ==
  ASSUME Base, Distinct, NEW drop \in SUBSET (1..Len(session)),
         recent' = Previews!RecentWithout(drop), session' = Previews!SessionsWithout(drop),
         process' = Previews!ProcessesWithout(drop), byKey' = Previews!KeysWithout(drop),
         ensure' \in [Ensures -> [step : {"idle", "ports", "waiting"}, key : CallerKeys \cup {None},
                                  entry : Entries \cup {None}, session : Nat \cup {None}]],
         \A d \in Ensures : ensure'[d].step = "ports" => ensure'[d].key \in CallerKeys /\ ensure'[d].entry \in Entries
  PROVE  /\ Base' /\ Previews!Live' = Previews!Live \ drop
         /\ Len(session') = Len(session) /\ DOMAIN session' = DOMAIN session
         /\ \A s \in DOMAIN session : session'[s].key = session[s].key
<1>1. Len(session') = Len(session) /\ DOMAIN session' = DOMAIN session /\ session' \in Seq(SessionRecs)
      /\ \A s \in DOMAIN session : /\ session'[s].key = session[s].key
                                   /\ s \notin drop => session'[s] = session[s]
                                   /\ s \in drop => session'[s].process = None
  BY DroppedSessions DEF Base
<1>2. recent' \in Seq(1..Len(session')) /\ {recent'[i] : i \in DOMAIN recent'} = Previews!Live \ drop
      /\ \A i, j \in DOMAIN recent' : recent'[i] = recent'[j] => i = j
  BY <1>1, KeepsOthers DEF Base
<1>3. process' \in [Pids -> [session : 1..Len(session'), killed : BOOLEAN] \cup {None}]
      /\ \A p \in Pids : /\ process'[p] = None <=> process[p] = None
                         /\ process[p] # None => process'[p].session = process[p].session
  BY <1>1, DroppedProcesses DEF Base
<1>4. byKey' \in [CallerKeys -> Nat \cup {None}]
  BY DEF Previews!KeysWithout, Base, SessionTypes
<1>5. SessionTypes'
  BY <1>1, <1>2, <1>3, <1>4 DEF SessionTypes
<1>6. OncePerSession'
  BY <1>2 DEF OncePerSession
<1>7. Previews!Live' = Previews!Live \ drop
  BY <1>2 DEF Previews!Live, Previews!ToSet
<1>8. ProcessOfSession'
  <2> SUFFICES ASSUME NEW s \in DOMAIN session, session'[s].process # None
               PROVE  process'[session'[s].process] # None /\ process'[session'[s].process].session = s
    BY <1>1 DEF ProcessOfSession
  <2>1. session'[s] = session[s]
    BY <1>1
  <2>2. process[session[s].process] # None /\ process[session[s].process].session = s
    BY <2>1 DEF Base, ProcessOfSession
  <2>3. session[s].process \in Pids
    <3>1. session[s] \in SessionRecs
      BY DEF Base, SessionTypes
    <3> QED
      BY <2>1, <3>1 DEF SessionRecs
  <2> QED
    BY <1>3, <2>1, <2>2, <2>3
<1> QED
  BY <1>1, <1>5, <1>6, <1>7, <1>8 DEF Base

LEMMA EnsureNewStep ==
  ASSUME Base, Distinct, LimitsSet, NEW c \in Ensures, NEW k \in CallerKeys, NEW e \in Entries,
         NEW n \in 0..Len(recent), Previews!EnsureNew(c, k, e, n)
  PROVE  /\ Base' /\ Previews!Live' = Previews!Live \ DroppedFor(k, n)
         /\ Len(session') = Len(session) /\ DOMAIN session' = DOMAIN session
         /\ \A s \in DOMAIN session : session'[s].key = session[s].key
         /\ byKey' = Previews!KeysWithout(DroppedFor(k, n))
         /\ session' = Previews!SessionsWithout(DroppedFor(k, n))
         /\ process' = Previews!ProcessesWithout(DroppedFor(k, n))
         /\ ensure[c].step = "idle" /\ Cardinality(Previews!Creating) < MaxCreating
         /\ \A d \in Ensures : /\ d # c => ensure'[d] = ensure[d]
                               /\ d = c => ensure'[d].step = "ports" /\ ensure'[d].key = k
<1> DEFINE r == [step |-> "ports", key |-> k, entry |-> e, session |-> None]
           drop == DroppedFor(k, n)
<1>1. /\ ensure' = [ensure EXCEPT ![c] = r] /\ ensure[c].step = "idle"
      /\ Previews!Cardinality(Previews!Creating) < MaxCreating
      /\ recent' = Previews!RecentWithout(drop) /\ session' = Previews!SessionsWithout(drop)
      /\ process' = Previews!ProcessesWithout(drop) /\ byKey' = Previews!KeysWithout(drop)
  <2>1. /\ ensure' = [ensure EXCEPT ![c] =
                        [Previews!NoCallOf EXCEPT !.step = "ports", !.key = k, !.entry = e]]
        /\ ensure[c].step = "idle"
    BY DEF Previews!EnsureNew
  <2>2. [Previews!NoCallOf EXCEPT !.step = "ports", !.key = k, !.entry = e] = r
    <3> DEFINE nothing == Previews!NoCallOf
    <3>1. /\ nothing \in [step : {"idle"}, key : {None}, entry : {None}, session : {None}]
          /\ nothing.session = None
      BY DEF Previews!NoCallOf
    <3> HIDE DEF nothing
    <3> DEFINE new == [nothing EXCEPT !.step = "ports", !.key = k, !.entry = e]
    <3>2. new \in [step : {"ports"}, key : {k}, entry : {e}, session : {None}]
      BY <3>1
    <3> HIDE DEF new
    <3>3. new = r
      BY <3>2
    <3> QED
      BY <3>3 DEF nothing, new
  <2>3. /\ Previews!Cardinality(Previews!Creating) < MaxCreating
        /\ recent' = Previews!RecentWithout(drop) /\ session' = Previews!SessionsWithout(drop)
        /\ process' = Previews!ProcessesWithout(drop) /\ byKey' = Previews!KeysWithout(drop)
    BY Zenon DEF Previews!EnsureNew, DroppedFor, Expired
  <2> QED
    BY <2>1, <2>2, <2>3
<1>2. /\ ensure' \in [Ensures -> [step : {"idle", "ports", "waiting"}, key : CallerKeys \cup {None},
                                  entry : Entries \cup {None}, session : Nat \cup {None}]]
      /\ \A d \in Ensures : ensure'[d].step = "ports" => ensure'[d].key \in CallerKeys /\ ensure'[d].entry \in Entries
      /\ \A d \in Ensures : ensure'[d] = IF d = c THEN r ELSE ensure[d]
  <2>1. /\ r \in [step : {"idle", "ports", "waiting"}, key : CallerKeys \cup {None},
                  entry : Entries \cup {None}, session : Nat \cup {None}]
        /\ r.step = "ports" => r.key \in CallerKeys /\ r.entry \in Entries
    OBVIOUS
  <2> HIDE DEF r
  <2> QED
    BY <1>1, <2>1, EnsureTypes
<1>3. drop \in SUBSET (1..Len(session))
  BY DroppedLive
<1> HIDE DEF drop
<1>4. /\ Base' /\ Previews!Live' = Previews!Live \ drop
      /\ Len(session') = Len(session) /\ DOMAIN session' = DOMAIN session
      /\ \A s \in DOMAIN session : session'[s].key = session[s].key
  BY <1>1, <1>2, <1>3, DropKeepsBase
<1> QED
  BY <1>1, <1>2, <1>4, CountedHere DEF drop

LEMMA Appended ==
  ASSUME NEW X, NEW s \in Seq(X), NEW x \in X
  PROVE  /\ Append(s, x) \in Seq(X) /\ Len(s) \in Nat /\ Len(Append(s, x)) = Len(s) + 1
         /\ DOMAIN s = 1..Len(s) /\ DOMAIN Append(s, x) = 1..(Len(s) + 1)
         /\ Append(s, x)[Len(s) + 1] = x /\ \A i \in 1..Len(s) : Append(s, x)[i] = s[i]
OBVIOUS

\* ... and nothing comes twice, if it is new.
LEMMA AppendedOnce ==
  ASSUME NEW X, NEW s \in Seq(X), NEW x \in X, \A i \in DOMAIN s : s[i] # x,
         \A i, j \in DOMAIN s : s[i] = s[j] => i = j
  PROVE  /\ {Append(s, x)[i] : i \in DOMAIN Append(s, x)} = {s[i] : i \in DOMAIN s} \cup {x}
         /\ \A i, j \in DOMAIN Append(s, x) : Append(s, x)[i] = Append(s, x)[j] => i = j
<1> DEFINE t == Append(s, x)
           n == Len(s)
<1>1. /\ n \in Nat /\ DOMAIN s = 1..n /\ DOMAIN t = 1..(n + 1)
      /\ t[n + 1] = x /\ \A i \in 1..n : t[i] = s[i]
  BY Appended
<1> HIDE DEF t, n
<1>2. \A i \in DOMAIN t : i = n + 1 \/ i \in DOMAIN s
  BY <1>1
<1>3. \A i \in DOMAIN s : i \in DOMAIN t /\ t[i] = s[i] /\ t[i] # x
  BY <1>1
<1>4. n + 1 \in DOMAIN t /\ t[n + 1] = x
  BY <1>1
<1>5. {t[i] : i \in DOMAIN t} = {s[i] : i \in DOMAIN s} \cup {x}
  BY <1>2, <1>3, <1>4
<1>6. \A i, j \in DOMAIN t : t[i] = t[j] => i = j
  BY <1>2, <1>3, <1>4
<1> QED
  BY <1>5, <1>6 DEF t

\* A session is touched: it is the last of those that live.
LEMMA TouchedLive ==
  ASSUME SessionTypes, OncePerSession, NEW drop, NEW s \in Previews!Live \ drop
  PROVE  /\ Append(Previews!RecentWithout(drop \cup {s}), s) \in Seq(1..Len(session))
         /\ {Append(Previews!RecentWithout(drop \cup {s}), s)[i] :
              i \in DOMAIN Append(Previews!RecentWithout(drop \cup {s}), s)} = Previews!Live \ drop
         /\ \A i, j \in DOMAIN Append(Previews!RecentWithout(drop \cup {s}), s) :
              Append(Previews!RecentWithout(drop \cup {s}), s)[i]
                = Append(Previews!RecentWithout(drop \cup {s}), s)[j] => i = j
<1> DEFINE old == Previews!RecentWithout(drop \cup {s})
           X == 1..Len(session)
<1>1. /\ old \in Seq(X) /\ {old[i] : i \in DOMAIN old} = Previews!Live \ (drop \cup {s})
      /\ \A i, j \in DOMAIN old : old[i] = old[j] => i = j
  BY KeepsOthers
<1>2. s \in X
  BY LiveOnes
<1> HIDE DEF old, X
<1>3. \A i \in DOMAIN old : old[i] # s
  BY <1>1
<1>4. Append(old, s) \in Seq(X)
  BY <1>1, <1>2, Appended
<1>5. /\ {Append(old, s)[i] : i \in DOMAIN Append(old, s)} = {old[i] : i \in DOMAIN old} \cup {s}
      /\ \A i, j \in DOMAIN Append(old, s) : Append(old, s)[i] = Append(old, s)[j] => i = j
  BY <1>1, <1>2, <1>3, AppendedOnce
<1>6. {old[i] : i \in DOMAIN old} \cup {s} = Previews!Live \ drop
  BY <1>1
<1> QED
  BY <1>4, <1>5, <1>6 DEF old, X

LEMMA EnsureKnownStep ==
  ASSUME Base, Distinct, LimitsSet, NEW c \in Ensures, NEW k \in CallerKeys, NEW e \in Entries,
         NEW n \in 0..Len(recent), NEW synced \in BOOLEAN, Previews!EnsureKnown(c, k, e, n, synced)
  PROVE  /\ Base' /\ Previews!Live' = Previews!Live \ Expired(n)
         /\ Len(session') = Len(session) /\ DOMAIN session' = DOMAIN session
         /\ \A s \in DOMAIN session : session'[s].key = session[s].key
         /\ byKey' = Previews!KeysWithout(Expired(n))
         /\ byKey[k] \in Previews!Live \ Expired(n)
         /\ ensure[c].step = "idle"
         /\ \A d \in Ensures : ensure'[d].step = "ports" => ensure[d].step = "ports" /\ ensure'[d] = ensure[d]
         /\ session[byKey[k]].entry = e =>
              \/ Previews!Spawn(byKey[k], Previews!ProcessesWithout(Expired(n)), Previews!SessionsWithout(Expired(n)))
              \/ /\ process' = Previews!ProcessesWithout(Expired(n))
                 /\ session' = Previews!SessionsWithout(Expired(n))
<1> DEFINE s == byKey[k]
           drop == Expired(n)
           old == session[s].process
           switch == session[s].entry # e
           procs == [p \in Pids |-> IF switch /\ old = p THEN Previews!Killed(p)
                                    ELSE Previews!ProcessesWithout(drop)[p]]
           sess == [x \in DOMAIN session |->
                      IF switch /\ x = s THEN [session[s] EXCEPT !.entry = e, !.process = None]
                      ELSE Previews!SessionsWithout(drop)[x]]
<1>1. /\ ensure[c].step = "idle" /\ s \in Previews!Live \ drop
      /\ recent' = Append(Previews!RecentWithout(drop \cup {s}), s)
      /\ byKey' = Previews!KeysWithout(drop)
      /\ IF synced THEN Previews!Spawn(s, procs, sess) /\ ensure' = [ensure EXCEPT ![c] = Previews!WaitingFor(s)]
         ELSE process' = procs /\ session' = sess /\ UNCHANGED ensure
  BY Zenon DEF Previews!EnsureKnown, Expired
<1>2. /\ DOMAIN session = 1..Len(session) /\ Len(session) \in Nat
      /\ \A x \in DOMAIN session : session[x] \in SessionRecs
      /\ s \in DOMAIN session /\ s \in Nat
  <2>1. s \in 1..Len(session) /\ Len(session) \in Nat /\ session \in Seq(SessionRecs)
    BY <1>1, LiveOnes DEF Base, SessionTypes
  <2> QED
    BY <2>1
<1>3. drop \in SUBSET (1..Len(session))
  BY DroppedLive
<1> HIDE DEF drop, s
<1>4. /\ Previews!SessionsWithout(drop) \in Seq(SessionRecs)
      /\ DOMAIN Previews!SessionsWithout(drop) = DOMAIN session
      /\ \A x \in DOMAIN session :
           /\ Previews!SessionsWithout(drop)[x].key = session[x].key
           /\ x \notin drop => Previews!SessionsWithout(drop)[x] = session[x]
           /\ x \in drop => Previews!SessionsWithout(drop)[x].process = None
  BY DroppedSessions DEF Base
<1>5. /\ Previews!ProcessesWithout(drop) \in [Pids -> [session : 1..Len(session), killed : BOOLEAN] \cup {None}]
      /\ \A p \in Pids : process[p] # None =>
           /\ Previews!ProcessesWithout(drop)[p] # None
           /\ Previews!ProcessesWithout(drop)[p].session = process[p].session
  BY <1>3, DroppedProcesses DEF Base
<1>6. \A x \in DOMAIN session : session[x].process # None =>
        /\ session[x].process \in Pids /\ process[session[x].process] # None
        /\ process[session[x].process].session = x
  <2> SUFFICES ASSUME NEW x \in DOMAIN session, session[x].process # None
               PROVE  /\ session[x].process \in Pids /\ process[session[x].process] # None
                      /\ process[session[x].process].session = x
    OBVIOUS
  <2>1. session[x] \in SessionRecs
    BY <1>2
  <2>2. session[x].process \in Pids
    BY <2>1 DEF SessionRecs
  <2> QED
    BY <2>2 DEF Base, ProcessOfSession
<1>7. ASSUME NEW x \in DOMAIN session
      PROVE  /\ sess[x] \in SessionRecs /\ sess[x].key = session[x].key
             /\ sess[x].process # None => sess[x].process = session[x].process /\ ~(switch /\ x = s)
  <2>1. CASE switch /\ x = s
    <3>1. sess[x] = [session[s] EXCEPT !.entry = e, !.process = None]
      BY <2>1
    <3>2. session[s] \in SessionRecs
      BY <1>2
    <3> HIDE DEF sess
    <3> QED
      BY <2>1, <3>1, <3>2 DEF SessionRecs
  <2>2. CASE ~(switch /\ x = s)
    <3>1. sess[x] = Previews!SessionsWithout(drop)[x]
      BY <2>2
    <3>2. Previews!SessionsWithout(drop)[x] \in SessionRecs
      BY <1>4
    <3> HIDE DEF sess, switch
    <3> QED
      BY <1>4, <2>2, <3>1, <3>2
  <2> QED
    BY <2>1, <2>2
<1>8. /\ sess \in Seq(SessionRecs) /\ Len(sess) = Len(session) /\ DOMAIN sess = DOMAIN session
  <2>1. sess = [x \in 1..Len(session) |-> sess[x]]
    BY <1>2
  <2> HIDE DEF sess
  <2> QED
    BY <1>2, <1>7, <2>1
<1>9. procs \in [Pids -> [session : 1..Len(session), killed : BOOLEAN] \cup {None}]
      /\ \A p \in Pids : process[p] # None => procs[p] # None /\ procs[p].session = process[p].session
  <2> DEFINE recs == [session : 1..Len(session), killed : BOOLEAN]
  <2>1. ASSUME NEW p \in Pids
        PROVE  /\ procs[p] \in recs \cup {None}
               /\ process[p] # None => procs[p] # None /\ procs[p].session = process[p].session
    <3>1. CASE switch /\ old = p
      <4>1. process[p] # None
        BY <1>2, <1>6, <3>1 DEF Distinct
      <4>2. process[p] \in recs
        BY <4>1 DEF Base, SessionTypes
      <4>3. procs[p] = [process[p] EXCEPT !.killed = TRUE]
        BY <3>1 DEF Previews!Killed
      <4>4. procs[p] \in recs /\ procs[p].session = process[p].session
        <5> HIDE DEF procs
        <5> QED
          BY <4>2, <4>3
      <4>5. \A r \in recs : r # None
        BY <1>2 DEF Distinct
      <4> HIDE DEF procs, recs
      <4> QED
        BY <4>4, <4>5
    <3>2. CASE ~(switch /\ old = p)
      <4>1. procs[p] = Previews!ProcessesWithout(drop)[p]
        BY <3>2
      <4> HIDE DEF procs
      <4> QED
        BY <1>5, <4>1
    <3> QED
      BY <3>1, <3>2
  <2>2. procs = [p \in Pids |-> procs[p]]
    OBVIOUS
  <2> HIDE DEF procs, recs
  <2>3. procs \in [Pids -> recs \cup {None}]
    BY <2>1, <2>2
  <2> QED
    BY <2>1, <2>3 DEF recs
<1>10. \A x \in DOMAIN sess :
         sess[x].process # None => procs[sess[x].process] # None /\ procs[sess[x].process].session = x
  <2> HIDE DEF sess, procs, switch, old
  <2> QED
    BY <1>6, <1>7, <1>8, <1>9
<1>11. ~switch => procs = Previews!ProcessesWithout(drop) /\ sess = Previews!SessionsWithout(drop)
  <2> SUFFICES ASSUME ~switch
               PROVE  procs = Previews!ProcessesWithout(drop) /\ sess = Previews!SessionsWithout(drop)
    OBVIOUS
  <2>1. procs = [p \in Pids |-> Previews!ProcessesWithout(drop)[p]]
    OBVIOUS
  <2>2. sess = [x \in 1..Len(session) |-> Previews!SessionsWithout(drop)[x]]
    BY <1>2
  <2> HIDE DEF procs, sess
  <2> QED
    BY <1>2, <1>4, <1>5, <2>1, <2>2
<1> HIDE DEF procs, sess, old
<1>12. /\ session' \in Seq(SessionRecs) /\ Len(session') = Len(session) /\ DOMAIN session' = DOMAIN session
       /\ \A x \in DOMAIN session : session'[x].key = session[x].key
       /\ process' \in [Pids -> [session : 1..Len(session), killed : BOOLEAN] \cup {None}]
       /\ ProcessOfSession'
  <2>1. CASE synced
    <3>1. Previews!Spawn(s, procs, sess)
      BY <1>1, <2>1
    <3>2. s \in DOMAIN sess /\ procs \in [Pids -> [session : 1..Len(sess), killed : BOOLEAN] \cup {None}]
      BY <1>2, <1>8, <1>9
    <3>3. /\ session' \in Seq(SessionRecs) /\ Len(session') = Len(sess) /\ DOMAIN session' = DOMAIN sess
          /\ \A x \in DOMAIN sess : session'[x].key = sess[x].key
          /\ process' \in [Pids -> [session : 1..Len(sess), killed : BOOLEAN] \cup {None}]
          /\ ProcessOfSession'
      BY <1>8, <1>10, <3>1, <3>2, Spawned
    <3> QED
      BY <1>7, <1>8, <3>3
  <2>2. CASE ~synced
    <3>1. process' = procs /\ session' = sess
      BY <1>1, <2>2
    <3>2. ProcessOfSession'
      BY <1>10, <3>1 DEF ProcessOfSession
    <3> QED
      BY <1>7, <1>8, <1>9, <3>1, <3>2
  <2> QED
    BY <2>1, <2>2
<1>13. recent' \in Seq(1..Len(session)) /\ {recent'[i] : i \in DOMAIN recent'} = Previews!Live \ drop
       /\ \A i, j \in DOMAIN recent' : recent'[i] = recent'[j] => i = j
  <2> DEFINE new == Append(Previews!RecentWithout(drop \cup {s}), s)
  <2>1. new \in Seq(1..Len(session))
    BY <1>1, TouchedLive DEF Base
  <2>2. {new[i] : i \in DOMAIN new} = Previews!Live \ drop
    BY <1>1, TouchedLive DEF Base
  <2>3. \A i, j \in DOMAIN new : new[i] = new[j] => i = j
    BY <1>1, TouchedLive DEF Base
  <2>4. recent' = new
    BY <1>1
  <2> HIDE DEF new
  <2> QED
    BY <2>1, <2>2, <2>3, <2>4
<1>14. /\ ensure' \in [Ensures -> [step : {"idle", "ports", "waiting"}, key : CallerKeys \cup {None},
                                   entry : Entries \cup {None}, session : Nat \cup {None}]]
       /\ \A d \in Ensures : ensure'[d].step = "ports" => ensure'[d].key \in CallerKeys /\ ensure'[d].entry \in Entries
       /\ \A d \in Ensures : ensure'[d].step = "ports" => ensure[d].step = "ports" /\ ensure'[d] = ensure[d]
  <2>1. CASE synced
    <3> DEFINE r == Previews!WaitingFor(s)
    <3>1. /\ r \in [step : {"idle", "ports", "waiting"}, key : CallerKeys \cup {None},
                    entry : Entries \cup {None}, session : Nat \cup {None}]
          /\ r.step = "waiting"
      <4> DEFINE nothing == Previews!NoCallOf
      <4>1. nothing \in [step : {"idle"}, key : {None}, entry : {None}, session : {None}]
        BY DEF Previews!NoCallOf
      <4>2. r = [nothing EXCEPT !.step = "waiting", !.session = s]
        BY DEF Previews!WaitingFor
      <4> HIDE DEF nothing, r
      <4>3. r \in [step : {"waiting"}, key : {None}, entry : {None}, session : {s}]
        BY <4>1, <4>2
      <4> QED
        BY <1>2, <4>3
    <3>2. ensure' = [ensure EXCEPT ![c] = r]
      BY <1>1, <2>1
    <3> HIDE DEF r
    <3> QED
      BY <3>1, <3>2, EnsureTypes
  <2>2. CASE ~synced
    <3>1. ensure' = ensure
      BY <1>1, <2>2
    <3> QED
      BY <3>1 DEF Base, SessionTypes
  <2> QED
    BY <2>1, <2>2
<1>15. byKey' \in [CallerKeys -> Nat \cup {None}]
  BY <1>1 DEF Previews!KeysWithout, Base, SessionTypes
<1>16. SessionTypes' /\ OncePerSession'
  BY <1>12, <1>13, <1>14, <1>15 DEF SessionTypes, OncePerSession
<1>17. Previews!Live' = Previews!Live \ drop
  BY <1>13 DEF Previews!Live, Previews!ToSet
<1>18. ~switch => \/ Previews!Spawn(s, Previews!ProcessesWithout(drop), Previews!SessionsWithout(drop))
                  \/ process' = Previews!ProcessesWithout(drop) /\ session' = Previews!SessionsWithout(drop)
  <2> SUFFICES ASSUME ~switch
               PROVE  \/ Previews!Spawn(s, Previews!ProcessesWithout(drop), Previews!SessionsWithout(drop))
                      \/ process' = Previews!ProcessesWithout(drop) /\ session' = Previews!SessionsWithout(drop)
    OBVIOUS
  <2>1. procs = Previews!ProcessesWithout(drop) /\ sess = Previews!SessionsWithout(drop)
    BY <1>11
  <2>2. CASE synced
    BY Zenon, <1>1, <2>1, <2>2
  <2>3. CASE ~synced
    BY Zenon, <1>1, <2>1, <2>3
  <2> QED
    BY <2>2, <2>3
<1> QED
  BY <1>1, <1>12, <1>14, <1>16, <1>17, <1>18 DEF Base, s, drop

LEMMA CreateStep ==
  ASSUME Base, Distinct, LimitsSet, NEW c \in Ensures, NEW synced \in BOOLEAN, Previews!Create(c, synced)
  PROVE  /\ Base' /\ Previews!Live' = Previews!Live \cup {Len(session) + 1}
         /\ Len(session') = Len(session) + 1 /\ DOMAIN session' = 1..(Len(session) + 1)
         /\ \A s \in DOMAIN session : session'[s].key = session[s].key /\ session'[s].entry = session[s].entry
         /\ session'[Len(session) + 1].key = ensure[c].key /\ session'[Len(session) + 1].entry = ensure[c].entry
         /\ ensure[c].key \in CallerKeys /\ ensure[c].entry \in Entries
         /\ byKey' = [byKey EXCEPT ![ensure[c].key] = Len(session) + 1]
         /\ ensure[c].step = "ports" /\ ensure'[c].step # "ports"
         /\ \A d \in Ensures : d # c => ensure'[d] = ensure[d]
         /\ \/ Previews!Spawn(Len(session) + 1, process,
                              Append(session, [key |-> ensure[c].key, entry |-> ensure[c].entry, process |-> None]))
            \/ /\ process' = process
               /\ session' = Append(session, [key |-> ensure[c].key, entry |-> ensure[c].entry, process |-> None])
<1> DEFINE s == Len(session) + 1
           k == ensure[c].key
           r == [key |-> k, entry |-> ensure[c].entry, process |-> None]
           sess == Append(session, r)
           recs(n) == [session : 1..n, killed : BOOLEAN]
<1>1. /\ ensure[c].step = "ports" /\ recent' = Append(recent, s) /\ byKey' = [byKey EXCEPT ![k] = s]
      /\ IF synced
         THEN Previews!Spawn(s, process, sess) /\ ensure' = [ensure EXCEPT ![c] = Previews!WaitingFor(s)]
         ELSE session' = sess /\ ensure' = [ensure EXCEPT ![c] = Previews!NoCallOf] /\ UNCHANGED process
  BY Zenon DEF Previews!Create
<1>2. /\ session \in Seq(SessionRecs) /\ DOMAIN session = 1..Len(session) /\ Len(session) \in Nat
      /\ recent \in Seq(1..Len(session)) /\ k \in CallerKeys /\ ensure[c].entry \in Entries
  BY <1>1 DEF Base, SessionTypes
<1>3. r \in SessionRecs /\ r.key = k /\ r.entry = ensure[c].entry /\ r.process = None
  BY <1>2 DEF SessionRecs
<1> HIDE DEF k, r
<1>4. /\ sess \in Seq(SessionRecs) /\ Len(sess) = s /\ DOMAIN sess = 1..s
      /\ sess[s] = r /\ \A x \in 1..Len(session) : sess[x] = session[x]
  <2> DEFINE R == SessionRecs
  <2>1. session \in Seq(R) /\ r \in R
    BY <1>2, <1>3
  <2> HIDE DEF R
  <2> QED
    BY <2>1, Appended DEF R
<1> HIDE DEF sess
<1>5. process \in [Pids -> recs(s) \cup {None}]
  <2>1. process \in [Pids -> recs(Len(session)) \cup {None}]
    BY DEF Base, SessionTypes
  <2>2. recs(Len(session)) \in SUBSET recs(s)
    BY <1>2
  <2> HIDE DEF recs, s
  <2> QED
    BY <2>1, <2>2
<1>6. \A x \in DOMAIN sess :
        sess[x].process # None => process[sess[x].process] # None /\ process[sess[x].process].session = x
  <2> SUFFICES ASSUME NEW x \in DOMAIN sess, sess[x].process # None
               PROVE  process[sess[x].process] # None /\ process[sess[x].process].session = x
    OBVIOUS
  <2>1. x # s
    BY <1>3, <1>4
  <2>2. x \in DOMAIN session /\ sess[x] = session[x]
    BY <1>2, <1>4, <2>1
  <2> QED
    BY <2>2 DEF Base, ProcessOfSession
<1>7. /\ session' \in Seq(SessionRecs) /\ Len(session') = s /\ DOMAIN session' = 1..s
      /\ \A x \in 1..s : session'[x].key = sess[x].key /\ session'[x].entry = sess[x].entry
      /\ process' \in [Pids -> recs(s) \cup {None}] /\ ProcessOfSession'
  <2>1. CASE synced
    <3>1. Previews!Spawn(s, process, sess)
      BY <1>1, <2>1
    <3>2. s \in DOMAIN sess /\ process \in [Pids -> [session : 1..Len(sess), killed : BOOLEAN] \cup {None}]
      BY <1>2, <1>4, <1>5
    <3>3. /\ session' \in Seq(SessionRecs) /\ Len(session') = Len(sess) /\ DOMAIN session' = DOMAIN sess
          /\ \A x \in DOMAIN sess : session'[x].key = sess[x].key /\ session'[x].entry = sess[x].entry
          /\ process' \in [Pids -> [session : 1..Len(sess), killed : BOOLEAN] \cup {None}]
          /\ ProcessOfSession'
      <4> HIDE DEF s, recs
      <4> QED
        BY <1>4, <1>6, <3>1, <3>2, Spawned
    <3> QED
      BY <1>4, <3>3
  <2>2. CASE ~synced
    <3>1. process' = process /\ session' = sess
      BY <1>1, <2>2
    <3>2. ProcessOfSession'
      BY <1>6, <3>1 DEF ProcessOfSession
    <3> QED
      BY <1>4, <1>5, <3>1, <3>2
  <2> QED
    BY <2>1, <2>2
<1>8. /\ recent' \in Seq(1..s)
      /\ {recent'[i] : i \in DOMAIN recent'} = Previews!Live \cup {s}
      /\ \A i, j \in DOMAIN recent' : recent'[i] = recent'[j] => i = j
  <2> DEFINE X == 1..s
  <2>1. recent \in Seq(X)
    <3>1. \A i \in 1..Len(recent) : recent[i] \in X
      BY <1>2
    <3> HIDE DEF X
    <3> QED
      BY <1>2, <3>1
  <2>2. s \in X
    BY <1>2
  <2>3. \A i \in DOMAIN recent : recent[i] # s
    BY <1>2
  <2>4. \A i, j \in DOMAIN recent : recent[i] = recent[j] => i = j
    BY DEF Base, OncePerSession
  <2> HIDE DEF X, s
  <2>5. Append(recent, s) \in Seq(X)
    BY <2>1, <2>2, Appended
  <2>6. /\ {Append(recent, s)[i] : i \in DOMAIN Append(recent, s)} = {recent[i] : i \in DOMAIN recent} \cup {s}
        /\ \A i, j \in DOMAIN Append(recent, s) : Append(recent, s)[i] = Append(recent, s)[j] => i = j
    BY <2>1, <2>2, <2>3, <2>4, AppendedOnce
  <2> QED
    BY <1>1, <2>5, <2>6, LiveHere DEF X
<1>9. PICK q :
        /\ q \in [step : {"idle", "ports", "waiting"}, key : CallerKeys \cup {None},
                  entry : Entries \cup {None}, session : Nat \cup {None}]
        /\ q.step # "ports" /\ ensure' = [ensure EXCEPT ![c] = q]
  <2> DEFINE nothing == Previews!NoCallOf
  <2>1. nothing \in [step : {"idle"}, key : {None}, entry : {None}, session : {None}]
    BY DEF Previews!NoCallOf
  <2>2. CASE synced
    <3>1. Previews!WaitingFor(s) = [nothing EXCEPT !.step = "waiting", !.session = s]
      BY DEF Previews!WaitingFor
    <3>2. ensure' = [ensure EXCEPT ![c] = Previews!WaitingFor(s)]
      BY <1>1, <2>2
    <3> DEFINE new == [nothing EXCEPT !.step = "waiting", !.session = s]
    <3> HIDE DEF nothing
    <3>3. new \in [step : {"waiting"}, key : {None}, entry : {None}, session : {s}]
      BY <2>1
    <3> HIDE DEF new
    <3>4. s \in Nat
      BY <1>2
    <3>5. new \in [step : {"idle", "ports", "waiting"}, key : CallerKeys \cup {None},
                   entry : Entries \cup {None}, session : Nat \cup {None}] /\ new.step # "ports"
      BY <3>3, <3>4
    <3> QED
      BY <3>1, <3>2, <3>5 DEF new
  <2>3. CASE ~synced
    <3>1. ensure' = [ensure EXCEPT ![c] = nothing]
      BY <1>1, <2>3
    <3> HIDE DEF nothing
    <3> QED
      BY <2>1, <3>1
  <2> QED
    BY <2>2, <2>3
<1>10. /\ ensure' \in [Ensures -> [step : {"idle", "ports", "waiting"}, key : CallerKeys \cup {None},
                                   entry : Entries \cup {None}, session : Nat \cup {None}]]
       /\ \A d \in Ensures : ensure'[d].step = "ports" => ensure'[d].key \in CallerKeys /\ ensure'[d].entry \in Entries
       /\ \A d \in Ensures : ensure'[d] = IF d = c THEN q ELSE ensure[d]
  BY <1>9, EnsureTypes
<1>11. byKey' \in [CallerKeys -> Nat \cup {None}]
  BY <1>1, <1>2 DEF Base, SessionTypes
<1>12. SessionTypes' /\ OncePerSession'
  BY <1>7, <1>8, <1>10, <1>11 DEF SessionTypes, OncePerSession
<1>13. Previews!Live' = Previews!Live \cup {s}
  BY <1>8 DEF Previews!Live, Previews!ToSet
<1>14. \/ Previews!Spawn(s, process, sess)
       \/ process' = process /\ session' = sess
  BY <1>1
<1>15. /\ \A x \in DOMAIN session : session'[x].key = session[x].key /\ session'[x].entry = session[x].entry
       /\ session'[s].key = k /\ session'[s].entry = ensure[c].entry
  <2>1. s \in 1..s /\ \A x \in 1..Len(session) : x \in 1..s
    BY <1>2
  <2> HIDE DEF s
  <2> QED
    BY <1>2, <1>3, <1>4, <1>7, <2>1
<1>16. ensure[c].step = "ports" /\ ensure'[c].step # "ports" /\ \A d \in Ensures : d # c => ensure'[d] = ensure[d]
  BY <1>1, <1>9, <1>10
<1> QED
  BY <1>1, <1>2, <1>7, <1>12, <1>13, <1>14, <1>15, <1>16 DEF Base, k, r, sess

LEMMA AnswerStep ==
  ASSUME Base, NEW c \in Ensures, Previews!Answer(c)
  PROVE  /\ Base' /\ session' = session /\ recent' = recent /\ byKey' = byKey /\ process' = process
         /\ \A d \in Ensures : ensure'[d].step = "ports" => ensure[d].step = "ports" /\ ensure'[d] = ensure[d]
<1> DEFINE r == Previews!NoCallOf
<1>1. /\ ensure' = [ensure EXCEPT ![c] = r]
      /\ session' = session /\ recent' = recent /\ byKey' = byKey /\ process' = process
  BY DEF Previews!Answer
<1>2. /\ r \in [step : {"idle", "ports", "waiting"}, key : CallerKeys \cup {None},
                entry : Entries \cup {None}, session : Nat \cup {None}]
      /\ r.step = "idle"
  BY DEF Previews!NoCallOf
<1> HIDE DEF r
<1>3. /\ ensure' \in [Ensures -> [step : {"idle", "ports", "waiting"}, key : CallerKeys \cup {None},
                                  entry : Entries \cup {None}, session : Nat \cup {None}]]
      /\ \A d \in Ensures : ensure'[d].step = "ports" => ensure'[d].key \in CallerKeys /\ ensure'[d].entry \in Entries
      /\ \A d \in Ensures : ensure'[d] = IF d = c THEN r ELSE ensure[d]
  BY <1>1, <1>2, EnsureTypes
<1>4. SessionTypes' /\ OncePerSession' /\ ProcessOfSession'
  BY <1>1, <1>3 DEF Base, SessionTypes, OncePerSession, ProcessOfSession
<1> QED
  BY <1>1, <1>2, <1>3, <1>4 DEF Base

LEMMA ExitStep ==
  ASSUME Base, Distinct, NEW p \in Pids, Previews!Exit(p)
  PROVE  /\ Base' /\ recent' = recent /\ byKey' = byKey /\ ensure' = ensure
         /\ Len(session') = Len(session) /\ DOMAIN session' = DOMAIN session
         /\ process[p] # None /\ process[p].session \in DOMAIN session
         /\ \A s \in DOMAIN session :
              /\ session'[s].key = session[s].key /\ session'[s].entry = session[s].entry
              /\ session'[s].process = IF s = process[p].session THEN None ELSE session[s].process
         /\ process'[p] = None /\ \A q \in Pids : q # p => process'[q] = process[q]
<1> DEFINE gone == process[p].session
           recs == [session : 1..Len(session), killed : BOOLEAN]
<1>1. /\ process[p] # None /\ process' = [process EXCEPT ![p] = None]
      /\ session' = [session EXCEPT ![gone].process = None]
      /\ recent' = recent /\ byKey' = byKey /\ ensure' = ensure
  BY DEF Previews!Exit, Previews!Running
<1>2. /\ session \in Seq(SessionRecs) /\ DOMAIN session = 1..Len(session) /\ Len(session) \in Nat
      /\ process \in [Pids -> recs \cup {None}] /\ gone \in 1..Len(session)
  BY <1>1 DEF Base, SessionTypes
<1> HIDE DEF gone, recs
<1>3. DOMAIN session' = 1..Len(session)
  BY <1>1, <1>2
<1>4. ASSUME NEW s \in 1..Len(session)
      PROVE  /\ session'[s] \in SessionRecs /\ session'[s].key = session[s].key /\ session'[s].entry = session[s].entry
             /\ session'[s].process = IF s = gone THEN None ELSE session[s].process
  <2>1. session[s] \in SessionRecs
    BY <1>2
  <2>2. session'[s] = IF s = gone THEN [session[s] EXCEPT !.process = None] ELSE session[s]
    BY <1>1, <1>2
  <2>3. CASE s = gone
    BY <2>1, <2>2, <2>3 DEF SessionRecs
  <2>4. CASE s # gone
    BY <2>1, <2>2, <2>4
  <2> QED
    BY <2>3, <2>4
<1>5. session' \in Seq(SessionRecs) /\ Len(session') = Len(session)
  <2>1. session' = [s \in 1..Len(session) |-> session'[s]]
    BY <1>1, <1>2, <1>3
  <2> QED
    BY <1>2, <1>4, <2>1
<1>6. process' \in [Pids -> recs \cup {None}] /\ process'[p] = None /\ \A q \in Pids : q # p => process'[q] = process[q]
  BY <1>1, <1>2
<1>7. SessionTypes' /\ OncePerSession'
  BY <1>1, <1>5, <1>6 DEF Base, SessionTypes, OncePerSession, recs
<1>8. ProcessOfSession'
  <2> SUFFICES ASSUME NEW s \in DOMAIN session, session'[s].process # None
               PROVE  process'[session'[s].process] # None /\ process'[session'[s].process].session = s
    BY <1>2, <1>3 DEF ProcessOfSession
  <2>1. s # gone /\ session'[s].process = session[s].process
    BY <1>2, <1>4
  <2>2. process[session[s].process] # None /\ process[session[s].process].session = s
    BY <2>1 DEF Base, ProcessOfSession
  <2>3. session[s].process \in Pids
    <3>1. session[s] \in SessionRecs
      BY <1>2
    <3> QED
      BY <2>1, <3>1 DEF SessionRecs
  <2>4. session[s].process # p
    BY <2>1, <2>2 DEF gone
  <2> QED
    BY <1>6, <2>1, <2>2, <2>3, <2>4
<1> QED
  BY <1>1, <1>2, <1>3, <1>4, <1>5, <1>6, <1>7, <1>8 DEF Base, gone

LEMMA ProxyStep ==
  ASSUME Base, NEW s \in Previews!Live, Previews!Proxy(s)
  PROVE  /\ Base' /\ Previews!Live' = Previews!Live
         /\ session' = session /\ byKey' = byKey /\ process' = process /\ ensure' = ensure
<1> DEFINE new == Append(Previews!RecentWithout({} \cup {s}), s)
<1>1. recent' = new /\ session' = session /\ byKey' = byKey /\ process' = process /\ ensure' = ensure
  <2>1. {} \cup {s} = {s}
    OBVIOUS
  <2> QED
    BY <2>1 DEF Previews!Proxy, Previews!Touch
<1>2. /\ new \in Seq(1..Len(session)) /\ {new[i] : i \in DOMAIN new} = Previews!Live \ {}
      /\ \A i, j \in DOMAIN new : new[i] = new[j] => i = j
  <2>1. new \in Seq(1..Len(session))
    BY TouchedLive DEF Base
  <2>2. {new[i] : i \in DOMAIN new} = Previews!Live \ {}
    BY TouchedLive DEF Base
  <2>3. \A i, j \in DOMAIN new : new[i] = new[j] => i = j
    BY TouchedLive DEF Base
  <2> QED
    BY <2>1, <2>2, <2>3
<1> HIDE DEF new
<1>3. SessionTypes' /\ OncePerSession' /\ ProcessOfSession'
  BY <1>1, <1>2 DEF Base, SessionTypes, OncePerSession, ProcessOfSession
<1>4. Previews!Live' = Previews!Live
  BY <1>1, <1>2 DEF Previews!Live, Previews!ToSet
<1> QED
  BY <1>1, <1>3, <1>4 DEF Base

-----------------------------------------------------------------------------
\* The latest session of a key stays known when sessions are dropped or touched.
LEMMA LatestKept ==
  ASSUME Base, LatestSessionKnown, DOMAIN session' = DOMAIN session,
         \A s \in DOMAIN session : session'[s].key = session[s].key,
         Previews!Live' \in SUBSET Previews!Live,
         \A s \in Previews!Live' : byKey[session[s].key] = s => byKey'[session[s].key] = s
  PROVE  LatestSessionKnown'
<1>1. \A s \in Previews!Live : s \in DOMAIN session
  <2>1. DOMAIN session = 1..Len(session)
    BY DEF Base, SessionTypes
  <2> QED
    BY <2>1, LiveOnes DEF Base
<1>2. ASSUME NEW s \in Previews!Live', \A x \in DOMAIN session' : session'[x].key = session'[s].key => x <= s
      PROVE  byKey'[session'[s].key] = s
  <2>1. s \in Previews!Live /\ s \in DOMAIN session
    BY <1>1
  <2>2. \A x \in DOMAIN session : session[x].key = session[s].key => x <= s
    BY <1>2, <2>1
  <2>3. byKey[session[s].key] = s
    BY <2>1, <2>2 DEF LatestSessionKnown, Previews!LatestSessionKnown
  <2> QED
    BY <2>1, <2>3
<1> QED
  BY <1>2 DEF LatestSessionKnown, Previews!LatestSessionKnown

LEMMA SessionRecords ==
  ASSUME SessionTypes
  PROVE  /\ DOMAIN session = 1..Len(session) /\ Len(session) \in Nat
         /\ \A s \in DOMAIN session :
              /\ session[s].key \in CallerKeys /\ session[s].entry \in Entries \cup {None}
              /\ session[s].process \in Pids \cup {None}
<1>1. session \in Seq(SessionRecs)
  BY DEF SessionTypes
<1>2. DOMAIN session = 1..Len(session) /\ Len(session) \in Nat /\ \A s \in DOMAIN session : session[s] \in SessionRecs
  BY <1>1
<1> QED
  BY <1>2 DEF SessionRecs

LEMMA KeysStay ==
  ASSUME Base, NEW drop \in SUBSET (1..Len(session)), NEW s \in DOMAIN session, s \notin drop,
         byKey[session[s].key] = s
  PROVE  Previews!KeysWithout(drop)[session[s].key] = s
<1>1. session[s].key \in CallerKeys
  BY SessionRecords DEF Base
<1> QED
  BY <1>1 DEF Previews!KeysWithout

LEMMA LatestNext ==
  ASSUME Base, Distinct, LimitsSet, LatestSessionKnown, Previews!Next
  PROVE  LatestSessionKnown'
<1>0. /\ DOMAIN session = 1..Len(session) /\ Len(session) \in Nat
      /\ \A s \in Previews!Live : s \in DOMAIN session
      /\ \A s \in DOMAIN session : session[s].key \in CallerKeys
  <2>1. DOMAIN session = 1..Len(session) /\ Len(session) \in Nat /\ \A s \in DOMAIN session : session[s].key \in CallerKeys
    BY SessionRecords DEF Base
  <2> QED
    BY <2>1, LiveOnes DEF Base
<1>1. ASSUME NEW c \in Ensures, NEW k \in CallerKeys, NEW e \in Entries, NEW n \in 0..Len(recent),
             Previews!EnsureNew(c, k, e, n)
      PROVE  LatestSessionKnown'
  <2>1. /\ Previews!Live' = Previews!Live \ DroppedFor(k, n)
        /\ DOMAIN session' = DOMAIN session
        /\ \A s \in DOMAIN session : session'[s].key = session[s].key
        /\ byKey' = Previews!KeysWithout(DroppedFor(k, n))
    BY <1>1, EnsureNewStep
  <2>2. DroppedFor(k, n) \in SUBSET (1..Len(session))
    BY DroppedLive
  <2>3. \A s \in Previews!Live' : byKey[session[s].key] = s => byKey'[session[s].key] = s
    BY <1>0, <2>1, <2>2, KeysStay
  <2>4. Previews!Live' \in SUBSET Previews!Live
    BY <2>1
  <2> QED
    BY <2>1, <2>3, <2>4, LatestKept
<1>2. ASSUME NEW c \in Ensures, NEW k \in CallerKeys, NEW e \in Entries, NEW n \in 0..Len(recent),
             NEW synced \in BOOLEAN, Previews!EnsureKnown(c, k, e, n, synced)
      PROVE  LatestSessionKnown'
  <2>1. /\ Previews!Live' = Previews!Live \ Expired(n)
        /\ DOMAIN session' = DOMAIN session
        /\ \A s \in DOMAIN session : session'[s].key = session[s].key
        /\ byKey' = Previews!KeysWithout(Expired(n))
    BY <1>2, EnsureKnownStep
  <2>2. Expired(n) \in SUBSET (1..Len(session))
    BY <1>2, DroppedLive
  <2>3. \A s \in Previews!Live' : byKey[session[s].key] = s => byKey'[session[s].key] = s
    BY <1>0, <2>1, <2>2, KeysStay
  <2>4. Previews!Live' \in SUBSET Previews!Live
    BY <2>1
  <2> QED
    BY <2>1, <2>3, <2>4, LatestKept
<1>3. ASSUME NEW c \in Ensures, NEW synced \in BOOLEAN, Previews!Create(c, synced)
      PROVE  LatestSessionKnown'
  <2> DEFINE new == Len(session) + 1
             k == ensure[c].key
  <2>1. /\ Previews!Live' = Previews!Live \cup {new} /\ DOMAIN session' = 1..new
        /\ \A s \in DOMAIN session : session'[s].key = session[s].key
        /\ session'[new].key = k /\ k \in CallerKeys /\ byKey' = [byKey EXCEPT ![k] = new]
    BY <1>3, CreateStep
  <2>2. byKey \in [CallerKeys -> Nat \cup {None}] /\ new \in 1..new
    BY <1>0 DEF Base, SessionTypes
  <2> HIDE DEF k
  <2>3. ASSUME NEW s \in Previews!Live', \A x \in DOMAIN session' : session'[x].key = session'[s].key => x <= s
        PROVE  byKey'[session'[s].key] = s
    <3>1. CASE s = new
      BY <2>1, <2>2, <3>1
    <3>2. CASE s # new
      <4>1. s \in Previews!Live /\ s \in DOMAIN session /\ s <= Len(session)
        BY <1>0, <2>1, <3>2
      <4>2. session[s].key # k
        BY <1>0, <2>1, <2>2, <2>3, <4>1
      <4>3. \A x \in DOMAIN session : session[x].key = session[s].key => x <= s
        BY <1>0, <2>1, <2>3, <4>1
      <4>4. byKey[session[s].key] = s
        BY <4>1, <4>3 DEF LatestSessionKnown, Previews!LatestSessionKnown
      <4> QED
        BY <1>0, <2>1, <2>2, <4>1, <4>2, <4>4
    <3> QED
      BY <3>1, <3>2
  <2> QED
    BY <2>3 DEF LatestSessionKnown, Previews!LatestSessionKnown
<1>4. ASSUME NEW c \in Ensures, Previews!Answer(c)
      PROVE  LatestSessionKnown'
  <2>1. session' = session /\ recent' = recent /\ byKey' = byKey
    BY <1>4, AnswerStep
  <2> QED
    BY <2>1 DEF LatestSessionKnown, Previews!LatestSessionKnown, Previews!Live
<1>5. ASSUME NEW p \in Pids, Previews!Exit(p)
      PROVE  LatestSessionKnown'
  <2>1. recent' = recent /\ byKey' = byKey /\ DOMAIN session' = DOMAIN session
        /\ \A s \in DOMAIN session : session'[s].key = session[s].key
    BY <1>5, ExitStep
  <2>2. Previews!Live' = Previews!Live
    BY <2>1 DEF Previews!Live
  <2> QED
    BY <2>1, <2>2, LatestKept
<1>6. ASSUME NEW s \in Previews!Live, Previews!Proxy(s)
      PROVE  LatestSessionKnown'
  <2>1. Previews!Live' = Previews!Live /\ session' = session /\ byKey' = byKey
    BY <1>6, ProxyStep
  <2> QED
    BY <2>1, LatestKept
<1> QED
  BY <1>1, <1>2, <1>3, <1>4, <1>5, <1>6 DEF Previews!Next

LEMMA BaseNext ==
  ASSUME Base, Distinct, LimitsSet, Previews!Next
  PROVE  Base'
BY EnsureNewStep, EnsureKnownStep, CreateStep, AnswerStep, ExitStep, ProxyStep DEF Previews!Next

-----------------------------------------------------------------------------
(* The limits: sessions, and calls that will create one.                     *)

CreatingFor(o) == {c \in Ensures : ensure[c].step = "ports" /\ OwnerOf[ensure[c].key] = o}

RoomKept ==
  /\ Cardinality(Previews!Live) + Cardinality(Previews!Creating) <= MaxLive + MaxCreating - 1
  /\ \A k \in CallerKeys :
       Cardinality(Previews!Owned(Previews!Live, OwnerOf[k])) + Cardinality(CreatingFor(OwnerOf[k]))
         <= MaxPerOwner + MaxCreating - 1

LEMMA Counts ==
  ASSUME Base, LimitsSet
  PROVE  /\ IsFiniteSet(Previews!Live) /\ Cardinality(Previews!Live) \in Nat
         /\ IsFiniteSet(Previews!Creating) /\ Cardinality(Previews!Creating) \in Nat
         /\ \A o : /\ IsFiniteSet(Previews!Owned(Previews!Live, o)) /\ Cardinality(Previews!Owned(Previews!Live, o)) \in Nat
                   /\ IsFiniteSet(CreatingFor(o)) /\ Cardinality(CreatingFor(o)) \in Nat
                   /\ Cardinality(CreatingFor(o)) <= Cardinality(Previews!Creating)
<1>1. IsFiniteSet(Previews!Live)
  BY LiveOnes DEF Base
<1>2. Previews!Creating \in SUBSET Ensures /\ IsFiniteSet(Ensures)
  BY DEF Previews!Creating, LimitsSet
<1>3. IsFiniteSet(Previews!Creating)
  BY <1>2, FS_Subset
<1>4. \A o : Previews!Owned(Previews!Live, o) \in SUBSET Previews!Live /\ CreatingFor(o) \in SUBSET Previews!Creating
  BY DEF Previews!Owned, CreatingFor, Previews!Creating
<1>5. \A o : IsFiniteSet(Previews!Owned(Previews!Live, o)) /\ IsFiniteSet(CreatingFor(o))
             /\ Cardinality(CreatingFor(o)) <= Cardinality(Previews!Creating)
  BY <1>1, <1>3, <1>4, FS_Subset
<1> QED
  BY <1>1, <1>3, <1>5, FS_CardinalityType

\* Nothing comes, to the sessions or to the calls.
LEMMA RoomKeptByLess ==
  ASSUME Base, LimitsSet, RoomKept,
         \A s \in Previews!Live : session'[s].key = session[s].key,
         Previews!Live' \in SUBSET Previews!Live,
         \A d \in Ensures : ensure'[d].step = "ports" => ensure[d].step = "ports" /\ ensure'[d] = ensure[d]
  PROVE  RoomKept'
<1>1. Previews!Creating' \in SUBSET Previews!Creating
  BY DEF Previews!Creating
<1>2. \A o : CreatingFor(o)' \in SUBSET CreatingFor(o)
  BY DEF CreatingFor
<1>3. \A o : Previews!Owned(Previews!Live, o)' \in SUBSET Previews!Owned(Previews!Live, o)
  BY DEF Previews!Owned
<1> DEFINE less(a, b) == IsFiniteSet(a) /\ Cardinality(a) \in Nat /\ Cardinality(a) <= Cardinality(b)
<1>4. less(Previews!Live', Previews!Live) /\ less(Previews!Creating', Previews!Creating)
  BY <1>1, Counts, FS_Subset, FS_CardinalityType
<1>5. \A o : less(CreatingFor(o)', CreatingFor(o))
             /\ less(Previews!Owned(Previews!Live, o)', Previews!Owned(Previews!Live, o))
  BY <1>2, <1>3, Counts, FS_Subset, FS_CardinalityType
<1>6. Cardinality(Previews!Live') + Cardinality(Previews!Creating') <= MaxLive + MaxCreating - 1
  BY <1>4, Counts DEF RoomKept, LimitsSet
<1>7. ASSUME NEW k \in CallerKeys
      PROVE  Cardinality(Previews!Owned(Previews!Live, OwnerOf[k])') + Cardinality(CreatingFor(OwnerOf[k])')
               <= MaxPerOwner + MaxCreating - 1
  <2> DEFINE a == Cardinality(Previews!Owned(Previews!Live, OwnerOf[k]))
             b == Cardinality(CreatingFor(OwnerOf[k]))
             c == Cardinality(Previews!Owned(Previews!Live, OwnerOf[k])')
             d == Cardinality(CreatingFor(OwnerOf[k])')
  <2>1. a + b <= MaxPerOwner + MaxCreating - 1
    BY DEF RoomKept
  <2>2. c \in Nat /\ d \in Nat /\ c <= a /\ d <= b /\ a \in Nat /\ b \in Nat
    BY <1>5, Counts
  <2> HIDE DEF a, b, c, d
  <2>3. c + d <= MaxPerOwner + MaxCreating - 1
    BY <2>1, <2>2 DEF LimitsSet
  <2> QED
    BY <2>3 DEF c, d
<1> QED
  BY <1>6, <1>7 DEF RoomKept

\* A call drops what makes room, and waits for its ports.
LEMMA RoomKeptByEnsureNew ==
  ASSUME Base, Distinct, LimitsSet, RoomKept, NEW c \in Ensures, NEW k \in CallerKeys, NEW e \in Entries,
         NEW n \in 0..Len(recent), Previews!EnsureNew(c, k, e, n)
  PROVE  RoomKept'
<1> DEFINE L == Previews!Live \ Expired(n)
           o == OwnerOf[k]
<1>1. /\ Previews!Live' = Previews!Live \ DroppedFor(k, n)
      /\ \A s \in DOMAIN session : session'[s].key = session[s].key
      /\ ensure[c].step = "idle" /\ Cardinality(Previews!Creating) < MaxCreating
      /\ \A d \in Ensures : /\ d # c => ensure'[d] = ensure[d]
                            /\ d = c => ensure'[d].step = "ports" /\ ensure'[d].key = k
  BY EnsureNewStep
<1>2. \A s \in Previews!Live : s \in DOMAIN session
  BY LiveOnes, SessionRecords DEF Base
<1>3. Previews!Live' = L \ Previews!Room(L, o)
  BY <1>1 DEF DroppedFor
<1>4. L \in SUBSET Previews!Live
  OBVIOUS
<1> HIDE DEF L, o
<1>5. /\ \/ Cardinality(Previews!Live') <= MaxLive - 1
         \/ Cardinality(Previews!Live') <= Cardinality(L) - 1
      /\ \/ Cardinality(Previews!Owned(Previews!Live', o)) <= MaxPerOwner - 1
         \/ Cardinality(Previews!Owned(Previews!Live', o)) <= Cardinality(Previews!Owned(L, o)) - 1
  BY <1>3, <1>4, RoomMade DEF Base
<1>6. /\ IsFiniteSet(Previews!Live') /\ Cardinality(Previews!Live') \in Nat
      /\ Cardinality(L) \in Nat /\ Cardinality(L) <= Cardinality(Previews!Live)
  BY <1>1, <1>4, Counts, FS_Subset, FS_CardinalityType
<1>7. /\ Cardinality(Previews!Creating') = Cardinality(Previews!Creating) + 1
  <2>1. Previews!Creating' = Previews!Creating \cup {c} /\ c \notin Previews!Creating
    BY <1>1 DEF Previews!Creating
  <2> QED
    BY <2>1, Counts, FS_AddElement
<1>8. Cardinality(Previews!Live') + Cardinality(Previews!Creating') <= MaxLive + MaxCreating - 1
  <2> DEFINE a == Cardinality(Previews!Live)
             b == Cardinality(Previews!Creating)
             l == Cardinality(L)
             r == Cardinality(Previews!Live')
  <2>1. a + b <= MaxLive + MaxCreating - 1 /\ b < MaxCreating
    BY <1>1 DEF RoomKept
  <2>2. a \in Nat /\ b \in Nat /\ l \in Nat /\ r \in Nat /\ l <= a
    BY <1>6, Counts
  <2>3. r <= MaxLive - 1 \/ r <= l - 1
    BY <1>5
  <2>4. MaxLive \in Nat /\ MaxCreating \in Nat
    BY DEF LimitsSet
  <2> HIDE DEF a, b, l, r
  <2>5. r + (b + 1) <= MaxLive + MaxCreating - 1
    BY <2>1, <2>2, <2>3, <2>4
  <2> QED
    BY <1>7, <2>5 DEF b, r
<1>9. \A q : /\ Previews!Owned(Previews!Live, q)' = Previews!Owned(Previews!Live', q)
             /\ Previews!Owned(Previews!Live', q) \in SUBSET Previews!Owned(Previews!Live, q)
             /\ Previews!Owned(L, q) \in SUBSET Previews!Owned(Previews!Live, q)
  BY <1>1, <1>2, <1>4 DEF Previews!Owned
<1>10. ASSUME NEW j \in CallerKeys
       PROVE  Cardinality(Previews!Owned(Previews!Live, OwnerOf[j])') + Cardinality(CreatingFor(OwnerOf[j])')
                <= MaxPerOwner + MaxCreating - 1
  <2> DEFINE q == OwnerOf[j]
             a == Cardinality(Previews!Owned(Previews!Live, q))
             b == Cardinality(CreatingFor(q))
             all == Cardinality(Previews!Creating)
             aa == Cardinality(Previews!Owned(Previews!Live', q))
             bb == Cardinality(CreatingFor(OwnerOf[j])')
             l == Cardinality(Previews!Owned(L, q))
  <2>1. a + b <= MaxPerOwner + MaxCreating - 1
    BY DEF RoomKept
  <2>2. a \in Nat /\ b \in Nat /\ all \in Nat /\ b <= all /\ all < MaxCreating
    BY <1>1, Counts
  <2>3. aa \in Nat /\ aa <= a /\ l \in Nat /\ l <= a
    BY <1>9, Counts, FS_Subset, FS_CardinalityType
  <2>4. CASE q = o
    <3>1. CreatingFor(OwnerOf[j])' = CreatingFor(q) \cup {c} /\ c \notin CreatingFor(q)
      BY <1>1, <2>4 DEF CreatingFor, o
    <3>2. bb = b + 1
      BY <3>1, Counts, FS_AddElement
    <3>3. aa <= MaxPerOwner - 1 \/ aa <= l - 1
      BY <1>5, <2>4
    <3> HIDE DEF a, b, all, aa, bb, l
    <3>4. aa + bb <= MaxPerOwner + MaxCreating - 1
      BY <2>1, <2>2, <2>3, <3>2, <3>3 DEF LimitsSet
    <3> QED
      BY <1>9, <3>4 DEF aa, bb
  <2>5. CASE q # o
    <3>1. CreatingFor(OwnerOf[j])' = CreatingFor(q)
      BY <1>1, <2>5 DEF CreatingFor, o
    <3>2. bb = b
      BY <3>1
    <3> HIDE DEF a, b, all, aa, bb, l
    <3>3. aa + bb <= MaxPerOwner + MaxCreating - 1
      BY <2>1, <2>2, <2>3, <3>2 DEF LimitsSet
    <3> QED
      BY <1>9, <3>3 DEF aa, bb
  <2> QED
    BY <2>4, <2>5
<1> QED
  BY <1>8, <1>10 DEF RoomKept

\* A call that waited has its session.
LEMMA RoomKeptByCreate ==
  ASSUME Base, Distinct, LimitsSet, RoomKept, NEW c \in Ensures, NEW synced \in BOOLEAN, Previews!Create(c, synced)
  PROVE  RoomKept'
<1> DEFINE s == Len(session) + 1
           k == ensure[c].key
<1>1. /\ Previews!Live' = Previews!Live \cup {s}
      /\ \A x \in DOMAIN session : session'[x].key = session[x].key
      /\ session'[s].key = k
      /\ ensure[c].step = "ports" /\ ensure'[c].step # "ports"
      /\ \A d \in Ensures : d # c => ensure'[d] = ensure[d]
  BY CreateStep
<1>2. s \notin Previews!Live /\ \A x \in Previews!Live : x \in DOMAIN session
  BY LiveOnes, SessionRecords DEF Base
<1> HIDE DEF s
<1>3. Cardinality(Previews!Live') = Cardinality(Previews!Live) + 1
  BY <1>1, <1>2, Counts, FS_AddElement
<1>4. Cardinality(Previews!Creating') = Cardinality(Previews!Creating) - 1
  <2>1. Previews!Creating' = Previews!Creating \ {c} /\ c \in Previews!Creating
    BY <1>1 DEF Previews!Creating
  <2> QED
    BY <2>1, Counts, FS_RemoveElement
<1>5. Cardinality(Previews!Live') + Cardinality(Previews!Creating') <= MaxLive + MaxCreating - 1
  BY <1>3, <1>4, Counts DEF RoomKept, LimitsSet
<1>6. ASSUME NEW j \in CallerKeys
      PROVE  Cardinality(Previews!Owned(Previews!Live, OwnerOf[j])') + Cardinality(CreatingFor(OwnerOf[j])')
               <= MaxPerOwner + MaxCreating - 1
  <2> DEFINE q == OwnerOf[j]
             a == Cardinality(Previews!Owned(Previews!Live, q))
             b == Cardinality(CreatingFor(q))
             aa == Cardinality(Previews!Owned(Previews!Live, OwnerOf[j])')
             bb == Cardinality(CreatingFor(OwnerOf[j])')
  <2>1. a + b <= MaxPerOwner + MaxCreating - 1
    BY DEF RoomKept
  <2>2. a \in Nat /\ b \in Nat
    BY Counts
  <2>3. CASE OwnerOf[k] = q
    <3>1. CreatingFor(OwnerOf[j])' = CreatingFor(q) \ {c} /\ c \in CreatingFor(q)
      BY <1>1, <2>3 DEF CreatingFor
    <3>2. bb = b - 1
      BY <3>1, Counts, FS_RemoveElement
    <3>3. Previews!Owned(Previews!Live, OwnerOf[j])' = Previews!Owned(Previews!Live, q) \cup {s}
          /\ s \notin Previews!Owned(Previews!Live, q)
      BY <1>1, <1>2, <2>3 DEF Previews!Owned
    <3>4. aa = a + 1
      BY <3>3, Counts, FS_AddElement
    <3> HIDE DEF a, b, aa, bb
    <3>5. aa + bb <= MaxPerOwner + MaxCreating - 1
      BY <2>1, <2>2, <3>2, <3>4 DEF LimitsSet
    <3> QED
      BY <3>5 DEF aa, bb
  <2>4. CASE OwnerOf[k] # q
    <3>1. CreatingFor(OwnerOf[j])' = CreatingFor(q)
      BY <1>1, <2>4 DEF CreatingFor
    <3>2. Previews!Owned(Previews!Live, OwnerOf[j])' = Previews!Owned(Previews!Live, q)
      BY <1>1, <1>2, <2>4 DEF Previews!Owned
    <3>3. aa = a /\ bb = b
      BY <3>1, <3>2
    <3> HIDE DEF a, b, aa, bb
    <3>4. aa + bb <= MaxPerOwner + MaxCreating - 1
      BY <2>1, <3>3
    <3> QED
      BY <3>4 DEF aa, bb
  <2> QED
    BY <2>3, <2>4
<1> QED
  BY <1>5, <1>6 DEF RoomKept

LEMMA RoomNext ==
  ASSUME Base, Distinct, LimitsSet, RoomKept, Previews!Next
  PROVE  RoomKept'
<1>0. \A s \in Previews!Live : s \in DOMAIN session
  BY LiveOnes, SessionRecords DEF Base
<1>1. ASSUME NEW c \in Ensures, NEW k \in CallerKeys, NEW e \in Entries, NEW n \in 0..Len(recent),
             NEW synced \in BOOLEAN, Previews!EnsureKnown(c, k, e, n, synced)
      PROVE  RoomKept'
  <2>1. /\ Previews!Live' = Previews!Live \ Expired(n)
        /\ \A s \in DOMAIN session : session'[s].key = session[s].key
        /\ \A d \in Ensures : ensure'[d].step = "ports" => ensure[d].step = "ports" /\ ensure'[d] = ensure[d]
    BY <1>1, EnsureKnownStep
  <2> QED
    BY <1>0, <2>1, RoomKeptByLess
<1>2. ASSUME NEW c \in Ensures, Previews!Answer(c)
      PROVE  RoomKept'
  <2>1. /\ session' = session /\ recent' = recent
        /\ \A d \in Ensures : ensure'[d].step = "ports" => ensure[d].step = "ports" /\ ensure'[d] = ensure[d]
    BY <1>2, AnswerStep
  <2>2. Previews!Live' = Previews!Live
    BY <2>1 DEF Previews!Live
  <2> QED
    BY <2>1, <2>2, RoomKeptByLess
<1>3. ASSUME NEW p \in Pids, Previews!Exit(p)
      PROVE  RoomKept'
  <2>1. /\ recent' = recent /\ ensure' = ensure
        /\ \A s \in DOMAIN session : session'[s].key = session[s].key
    BY <1>3, ExitStep
  <2>2. Previews!Live' = Previews!Live
    BY <2>1 DEF Previews!Live
  <2> QED
    BY <1>0, <2>1, <2>2, RoomKeptByLess
<1>4. ASSUME NEW s \in Previews!Live, Previews!Proxy(s)
      PROVE  RoomKept'
  <2>1. Previews!Live' = Previews!Live /\ session' = session /\ ensure' = ensure
    BY <1>4, ProxyStep
  <2> QED
    BY <2>1, RoomKeptByLess
<1> QED
  BY <1>1, <1>2, <1>3, <1>4, RoomKeptByEnsureNew, RoomKeptByCreate DEF Previews!Next

-----------------------------------------------------------------------------
(* The processes: a call that asks for another main file ends the process    *)
(* of the session and starts another, and the end of the first one makes the *)
(* session forget the second.  With one main file there are no such calls.   *)

OneEntry == \A d, e \in Entries : d = e

Known(procs, sess, L) ==
  /\ \A p \in Pids : procs[p] # None =>
       /\ ~procs[p].killed => procs[p].session \in L /\ sess[procs[p].session].process = p
       /\ procs[p].killed => procs[p].session \notin L
  /\ \A s \in DOMAIN sess : s \notin L => sess[s].process = None
  /\ \A s \in L : sess[s].entry \in Entries

LEMMA KnownDropped ==
  ASSUME Base, Distinct, Known(process, session, Previews!Live), NEW drop \in SUBSET (1..Len(session))
  PROVE  Known(Previews!ProcessesWithout(drop), Previews!SessionsWithout(drop), Previews!Live \ drop)
<1> DEFINE procs == Previews!ProcessesWithout(drop)
           sess == Previews!SessionsWithout(drop)
<1>1. /\ DOMAIN sess = DOMAIN session
      /\ \A s \in DOMAIN session : /\ s \notin drop => sess[s] = session[s]
                                   /\ s \in drop => sess[s].process = None
  BY DroppedSessions DEF Base
<1>2. \A p \in Pids : /\ procs[p] = None <=> process[p] = None
                      /\ process[p] # None =>
                           /\ procs[p].session = process[p].session
                           /\ ~procs[p].killed => ~process[p].killed /\ ~\E s \in drop : session[s].process = p
                           /\ procs[p].killed => process[p].killed \/ (process[p].session \in drop)
  BY DroppedProcesses DEF Base
<1>3. \A s \in Previews!Live : s \in DOMAIN session
  BY LiveOnes, SessionRecords DEF Base
<1> HIDE DEF procs, sess
<1>4. ASSUME NEW p \in Pids, procs[p] # None
      PROVE  /\ ~procs[p].killed => procs[p].session \in Previews!Live \ drop /\ sess[procs[p].session].process = p
             /\ procs[p].killed => procs[p].session \notin Previews!Live \ drop
  <2>1. CASE procs[p].killed
    BY <1>2, <1>4, <2>1 DEF Known
  <2>2. CASE ~procs[p].killed
    <3>1. process[p] # None /\ ~process[p].killed /\ procs[p].session = process[p].session
          /\ ~\E s \in drop : session[s].process = p
      BY <1>2, <1>4, <2>2
    <3>2. process[p].session \in Previews!Live /\ session[process[p].session].process = p
      BY <3>1 DEF Known
    <3> QED
      BY <1>1, <1>3, <2>2, <3>1, <3>2
  <2> QED
    BY <2>1, <2>2
<1>5. \A s \in DOMAIN sess : s \notin Previews!Live \ drop => sess[s].process = None
  BY <1>1 DEF Known
<1>6. \A s \in Previews!Live \ drop : sess[s].entry \in Entries
  BY <1>1, <1>3 DEF Known
<1> QED
  BY <1>4, <1>5, <1>6 DEF Known, procs, sess

LEMMA KnownSpawned ==
  ASSUME Distinct, NEW sess \in Seq(SessionRecs), NEW L \in SUBSET DOMAIN sess, NEW s \in L,
         NEW procs \in [Pids -> [session : 1..Len(sess), killed : BOOLEAN] \cup {None}],
         Known(procs, sess, L), Previews!Spawn(s, procs, sess)
  PROVE  Known(process', session', L)
<1>1. CASE sess[s].process # None
  BY <1>1 DEF Previews!Spawn
<1>2. CASE sess[s].process = None
  <2>1. PICK p \in Pids :
          /\ procs[p] = None
          /\ process' = [procs EXCEPT ![p] = [session |-> s, killed |-> FALSE]]
          /\ session' = [x \in DOMAIN sess |-> IF x = s THEN [sess[x] EXCEPT !.process = p] ELSE sess[x]]
    BY <1>2 DEF Previews!Spawn
  <2> DEFINE new == [session |-> s, killed |-> FALSE]
  <2>2. new.session = s /\ ~new.killed
    OBVIOUS
  <2>3. process'[p] = new /\ \A q \in Pids : q # p => process'[q] = procs[q]
    BY <2>1
  <2> HIDE DEF new
  <2>4. ASSUME NEW x \in DOMAIN sess
        PROVE  /\ session'[x].entry = sess[x].entry
               /\ session'[x].process = IF x = s THEN p ELSE sess[x].process
    <3>1. sess[x] \in SessionRecs
      OBVIOUS
    <3>2. session'[x] = IF x = s THEN [sess[x] EXCEPT !.process = p] ELSE sess[x]
      BY <2>1
    <3>3. CASE x = s
      BY <3>1, <3>2, <3>3 DEF SessionRecs
    <3>4. CASE x # s
      BY <3>1, <3>2, <3>4
    <3> QED
      BY <3>3, <3>4
  <2>5. DOMAIN session' = DOMAIN sess
    BY <2>1
  <2>6. ASSUME NEW q \in Pids, process'[q] # None
        PROVE  /\ ~process'[q].killed => process'[q].session \in L /\ session'[process'[q].session].process = q
               /\ process'[q].killed => process'[q].session \notin L
    <3>1. CASE q = p
      BY <2>2, <2>3, <2>4, <3>1
    <3>2. CASE q # p
      <4>1. process'[q] = procs[q]
        BY <2>3, <3>2
      <4>2. /\ ~procs[q].killed => procs[q].session \in L /\ sess[procs[q].session].process = q
            /\ procs[q].killed => procs[q].session \notin L
        BY <2>6, <4>1 DEF Known
      <4>3. q # None
        BY DEF Distinct
      <4> QED
        BY <1>2, <2>4, <4>1, <4>2, <4>3
    <3> QED
      BY <3>1, <3>2
  <2>7. \A x \in DOMAIN session' : x \notin L => session'[x].process = None
    BY <2>4, <2>5 DEF Known
  <2>8. \A x \in L : session'[x].entry \in Entries
    BY <2>4 DEF Known
  <2> QED
    BY <2>6, <2>7, <2>8 DEF Known
<1> QED
  BY <1>1, <1>2

LEMMA KnownNext ==
  ASSUME Base, Distinct, LimitsSet, OneEntry, Known(process, session, Previews!Live), Previews!Next
  PROVE  Known(process, session, Previews!Live)'
<1>0. /\ DOMAIN session = 1..Len(session) /\ Len(session) \in Nat
      /\ Previews!Live \in SUBSET (1..Len(session))
  BY LiveOnes, SessionRecords DEF Base
<1>1. ASSUME NEW c \in Ensures, NEW k \in CallerKeys, NEW e \in Entries, NEW n \in 0..Len(recent),
             Previews!EnsureNew(c, k, e, n)
      PROVE  Known(process, session, Previews!Live)'
  <2>1. /\ Previews!Live' = Previews!Live \ DroppedFor(k, n)
        /\ session' = Previews!SessionsWithout(DroppedFor(k, n))
        /\ process' = Previews!ProcessesWithout(DroppedFor(k, n))
    BY <1>1, EnsureNewStep
  <2>2. DroppedFor(k, n) \in SUBSET (1..Len(session))
    BY <1>1, DroppedLive
  <2>3. Known(process', session', Previews!Live')
    BY <2>1, <2>2, KnownDropped
  <2> QED
    BY <2>3 DEF Known
<1>2. ASSUME NEW c \in Ensures, NEW k \in CallerKeys, NEW e \in Entries, NEW n \in 0..Len(recent),
             NEW synced \in BOOLEAN, Previews!EnsureKnown(c, k, e, n, synced)
      PROVE  Known(process, session, Previews!Live)'
  <2> DEFINE drop == Expired(n)
             s == byKey[k]
             procs == Previews!ProcessesWithout(drop)
             sess == Previews!SessionsWithout(drop)
             L == Previews!Live \ drop
  <2>1. /\ Previews!Live' = L /\ s \in L
        /\ session[s].entry = e => \/ Previews!Spawn(s, procs, sess)
                                   \/ process' = procs /\ session' = sess
    BY <1>2, EnsureKnownStep
  <2>2. session[s].entry = e
    BY <2>1 DEF Known, OneEntry
  <2>3. drop \in SUBSET (1..Len(session))
    BY <1>2, DroppedLive
  <2>4. Known(procs, sess, L)
    BY <2>3, KnownDropped
  <2>5. sess \in Seq(SessionRecs) /\ DOMAIN sess = DOMAIN session /\ Len(sess) = Len(session)
    BY DroppedSessions DEF Base
  <2>6. procs \in [Pids -> [session : 1..Len(sess), killed : BOOLEAN] \cup {None}]
    BY <2>3, <2>5, DroppedProcesses DEF Base
  <2>7. L \in SUBSET DOMAIN sess
    BY <1>0, <2>5
  <2> HIDE DEF drop, s, procs, sess, L
  <2>8. Known(process', session', L)
    <3>1. CASE process' = procs /\ session' = sess
      BY <2>4, <3>1
    <3>2. CASE Previews!Spawn(s, procs, sess)
      BY <2>1, <2>4, <2>5, <2>6, <2>7, <3>2, KnownSpawned
    <3> QED
      BY <2>1, <2>2, <3>1, <3>2
  <2> QED
    BY <2>1, <2>8 DEF Known
<1>3. ASSUME NEW c \in Ensures, NEW synced \in BOOLEAN, Previews!Create(c, synced)
      PROVE  Known(process, session, Previews!Live)'
  <2> DEFINE s == Len(session) + 1
             r == [key |-> ensure[c].key, entry |-> ensure[c].entry, process |-> None]
             sess == Append(session, r)
             L == Previews!Live \cup {s}
  <2>1. /\ Previews!Live' = L /\ ensure[c].key \in CallerKeys /\ ensure[c].entry \in Entries
        /\ \/ Previews!Spawn(s, process, sess)
           \/ process' = process /\ session' = sess
    BY <1>3, CreateStep
  <2>2. r \in SessionRecs /\ r.entry \in Entries /\ r.process = None
    BY <2>1 DEF SessionRecs
  <2> HIDE DEF r
  <2>3. /\ sess \in Seq(SessionRecs) /\ Len(sess) = s /\ DOMAIN sess = 1..s
        /\ sess[s] = r /\ \A x \in 1..Len(session) : sess[x] = session[x]
    <3> DEFINE R == SessionRecs
    <3>1. session \in Seq(R) /\ r \in R
      BY <2>2 DEF Base, SessionTypes
    <3> HIDE DEF R
    <3> QED
      BY <1>0, <3>1, Appended DEF R
  <2> HIDE DEF sess
  <2>4. process \in [Pids -> [session : 1..Len(session), killed : BOOLEAN] \cup {None}]
    BY DEF Base, SessionTypes
  <2>5. process \in [Pids -> [session : 1..Len(sess), killed : BOOLEAN] \cup {None}]
    <3> DEFINE recs(m) == [session : 1..m, killed : BOOLEAN]
    <3>1. recs(Len(session)) \in SUBSET recs(s)
      BY <1>0
    <3> HIDE DEF recs, s
    <3>2. process \in [Pids -> recs(Len(session)) \cup {None}]
      BY <2>4 DEF recs
    <3>3. process \in [Pids -> recs(s) \cup {None}]
      BY <3>1, <3>2
    <3> QED
      BY <2>3, <3>3 DEF recs
  <2>6. \A p \in Pids : process[p] # None => process[p].session \in 1..Len(session)
    BY <2>4
  <2>7. s \notin 1..Len(session) /\ \A x \in 1..s : x = s \/ x \in 1..Len(session)
    BY <1>0
  <2> HIDE DEF s
  <2>8. Known(process, sess, L)
    <3>1. ASSUME NEW p \in Pids, process[p] # None
          PROVE  /\ ~process[p].killed => process[p].session \in L /\ sess[process[p].session].process = p
                 /\ process[p].killed => process[p].session \notin L
      BY <2>3, <2>6, <2>7, <3>1 DEF Known
    <3>2. \A x \in DOMAIN sess : x \notin L => sess[x].process = None
      BY <1>0, <2>2, <2>3, <2>7 DEF Known
    <3>3. \A x \in L : sess[x].entry \in Entries
      BY <1>0, <2>2, <2>3 DEF Known
    <3> QED
      BY <3>1, <3>2, <3>3 DEF Known
  <2>9. L \in SUBSET DOMAIN sess /\ s \in L
    <3>1. s \in 1..s /\ \A x \in 1..Len(session) : x \in 1..s
      BY <1>0 DEF s
    <3> QED
      BY <1>0, <2>3, <3>1
  <2> HIDE DEF L
  <2>10. Known(process', session', L)
    <3>1. CASE process' = process /\ session' = sess
      BY <2>8, <3>1
    <3>2. CASE Previews!Spawn(s, process, sess)
      BY <2>3, <2>5, <2>8, <2>9, <3>2, KnownSpawned
    <3> QED
      BY <2>1, <3>1, <3>2
  <2> QED
    BY <2>1, <2>10 DEF Known
<1>4. ASSUME NEW c \in Ensures, Previews!Answer(c)
      PROVE  Known(process, session, Previews!Live)'
  <2>1. session' = session /\ recent' = recent /\ process' = process
    BY <1>4, AnswerStep
  <2>2. Previews!Live' = Previews!Live
    BY <2>1 DEF Previews!Live
  <2> QED
    BY <2>1, <2>2 DEF Known
<1>5. ASSUME NEW p \in Pids, Previews!Exit(p)
      PROVE  Known(process, session, Previews!Live)'
  <2> DEFINE gone == process[p].session
  <2>1. /\ recent' = recent /\ DOMAIN session' = DOMAIN session
        /\ process[p] # None /\ gone \in DOMAIN session
        /\ \A s \in DOMAIN session :
             /\ session'[s].entry = session[s].entry
             /\ session'[s].process = IF s = gone THEN None ELSE session[s].process
        /\ process'[p] = None /\ \A q \in Pids : q # p => process'[q] = process[q]
    BY <1>5, ExitStep
  <2>2. Previews!Live' = Previews!Live
    BY <2>1 DEF Previews!Live
  <2>3. ASSUME NEW q \in Pids, process'[q] # None
        PROVE  /\ ~process'[q].killed =>
                    process'[q].session \in Previews!Live /\ session'[process'[q].session].process = q
               /\ process'[q].killed => process'[q].session \notin Previews!Live
    <3>1. q # p /\ process'[q] = process[q]
      BY <2>1, <2>3
    <3>2. CASE process[q].killed
      BY <2>3, <3>1, <3>2 DEF Known
    <3>3. CASE ~process[q].killed
      <4>1. process[q].session \in Previews!Live /\ session[process[q].session].process = q
        BY <2>3, <3>1, <3>3 DEF Known
      <4>2. process[q].session # gone
        <5>1. CASE process[p].killed
          BY <2>1, <4>1, <5>1 DEF Known
        <5>2. CASE ~process[p].killed
          BY <2>1, <3>1, <4>1, <5>2 DEF Known
        <5> QED
          BY <5>1, <5>2
      <4> QED
        BY <1>0, <2>1, <3>1, <3>3, <4>1, <4>2
    <3> QED
      BY <3>2, <3>3
  <2>4. \A s \in DOMAIN session' : s \notin Previews!Live => session'[s].process = None
    BY <2>1 DEF Known
  <2>5. \A s \in Previews!Live : session'[s].entry \in Entries
    BY <1>0, <2>1 DEF Known
  <2> QED
    BY <2>2, <2>3, <2>4, <2>5 DEF Known
<1>6. ASSUME NEW s \in Previews!Live, Previews!Proxy(s)
      PROVE  Known(process, session, Previews!Live)'
  <2>1. Previews!Live' = Previews!Live /\ session' = session /\ process' = process
    BY <1>6, ProxyStep
  <2> QED
    BY <2>1 DEF Known
<1> QED
  BY <1>1, <1>2, <1>3, <1>4, <1>5, <1>6 DEF Previews!Next

-----------------------------------------------------------------------------
(* The SyncTeX sessions (SyncTexSessions).                                   *)

TexSessions == [token : Nat, user : TexUsers, lastUsedAt : Nat]
TexTypes == texSession \in Seq(TexSessions) /\ texTokens \in Nat /\ clock \in Nat

LEMMA OneToOne ==
  ASSUME NEW A, NEW B, NEW h \in Injection(A, B), h \in Surjection(A, B), IsFiniteSet(A)
  PROVE  Cardinality(A) = Cardinality(B)
<1>1. h \in Bijection(A, B)
  BY DEF Bijection
<1>2. ExistsBijection(A, B)
  BY <1>1 DEF ExistsBijection
<1> QED
  BY <1>2, FS_Bijection

\* Of the numbers below n, given to n things each to one, the last M go to
\* M things, or to all when there are not more.
LEMMA LastNumbers ==
  ASSUME NEW n \in Nat, NEW M \in Nat, NEW f \in [1..n -> 0..(n-1)],
         \A i, j \in 1..n : f[i] = f[j] => i = j
  PROVE  LET K == {i \in 1..n : f[i] + M >= n}
         IN  Cardinality(K) = IF n <= M THEN n ELSE M
<1> DEFINE K == {i \in 1..n : f[i] + M >= n}
<1>1. IsFiniteSet(1..n) /\ Cardinality(1..n) = n
  BY FS_Interval
<1>2. CASE n <= M
  <2>1. K = 1..n
    BY <1>2
  <2> QED
    BY <1>1, <1>2, <2>1
<1>3. CASE n > M
  <2> DEFINE g == [i \in K |-> f[i]]
             high == (n-M)..(n-1)
  <2>1. IsFiniteSet(0..(n-1)) /\ Cardinality(0..(n-1)) = n
    BY <1>3, FS_Interval
  <2>2. f \in Injection(1..n, 0..(n-1))
    BY DEF Injection, IsInjective
  <2>3. f \in Surjection(1..n, 0..(n-1))
    BY <1>1, <2>1, <2>2, FS_Injection
  <2>4. g \in [K -> high]
    BY <1>3
  <2>5. g \in Injection(K, high)
    BY <2>4 DEF Injection, IsInjective
  <2>6. \A k \in high : \E i \in K : g[i] = k
    <3> SUFFICES ASSUME NEW k \in high PROVE \E i \in K : g[i] = k
      OBVIOUS
    <3>1. k \in 0..(n-1) /\ k + M >= n
      BY <1>3
    <3>2. PICK i \in 1..n : f[i] = k
      BY <2>3, <3>1 DEF Surjection
    <3> QED
      BY <3>1, <3>2
  <2>7. g \in Surjection(K, high)
    BY <2>4, <2>6 DEF Surjection
  <2>8. IsFiniteSet(K)
    BY <1>1, FS_Subset
  <2>9. Cardinality(K) = Cardinality(high)
    <3> HIDE DEF K, g, high
    <3> QED
      BY <2>5, <2>7, <2>8, OneToOne
  <2>10. Cardinality(high) = M
    BY <1>3, FS_Interval
  <2> QED
    BY <1>3, <2>9, <2>10
<1> QED
  BY <1>2, <1>3

LEMMA TexElements ==
  ASSUME NEW s \in Seq(TexSessions)
  PROVE  /\ Len(s) \in Nat /\ DOMAIN s = 1..Len(s)
         /\ \A i \in DOMAIN s : i \in Nat /\ s[i] \in TexSessions /\ s[i].token \in Nat /\ s[i].lastUsedAt \in Nat
<1>1. \A x \in TexSessions : x.token \in Nat /\ x.lastUsedAt \in Nat
  BY DEF TexSessions
<1> QED
  BY <1>1

\* What was used earlier has the lower rank.
LEMMA RankOrder ==
  ASSUME NEW s \in Seq(TexSessions), NEW i \in DOMAIN s, NEW j \in DOMAIN s,
         s[i].lastUsedAt < s[j].lastUsedAt \/ (s[i].lastUsedAt = s[j].lastUsedAt /\ i < j)
  PROVE  Tex!Rank(s, i) < Tex!Rank(s, j)
<1> DEFINE low(k) == {x \in DOMAIN s : \/ s[x].lastUsedAt < s[k].lastUsedAt
                                       \/ s[x].lastUsedAt = s[k].lastUsedAt /\ x < k}
<1>1. \A x \in DOMAIN s : x \in Nat /\ s[x].lastUsedAt \in Nat
  BY TexElements
<1>2. low(i) \in SUBSET low(j) /\ i \in low(j) /\ i \notin low(i) /\ low(j) \in SUBSET DOMAIN s
  <2>1. \A x \in low(i) : x \in low(j)
    BY <1>1
  <2>2. i \in low(j) /\ i \notin low(i)
    BY <1>1
  <2> QED
    BY <2>1, <2>2
<1>3. IsFiniteSet(DOMAIN s)
  <2>1. DOMAIN s = 1..Len(s) /\ Len(s) \in Nat
    OBVIOUS
  <2> QED
    BY <2>1, FS_Interval
<1> DEFINE A == low(i)
           B == low(j)
<1>4. A \in SUBSET B /\ i \in B /\ i \notin A /\ B \in SUBSET DOMAIN s
  BY <1>2
<1>5. Tex!Rank(s, i) = Cardinality(A) /\ Tex!Rank(s, j) = Cardinality(B)
  BY DEF Tex!Rank, Tex!Cardinality, Cardinality
<1> HIDE DEF A, B
<1>6. IsFiniteSet(B)
  BY <1>3, <1>4, FS_Subset
<1>7. IsFiniteSet(A) /\ Cardinality(A) <= Cardinality(B) /\ (Cardinality(B) = Cardinality(A) => B = A)
  BY <1>4, <1>6, FS_Subset
<1>8. Cardinality(A) \in Nat /\ Cardinality(B) \in Nat
  BY <1>6, <1>7, FS_CardinalityType
<1>9. Cardinality(A) < Cardinality(B)
  BY <1>4, <1>7, <1>8
<1> QED
  BY <1>5, <1>9

LEMMA TexRankType ==
  ASSUME NEW s \in Seq(TexSessions), NEW i \in DOMAIN s
  PROVE  Tex!Rank(s, i) \in 0..(Len(s)-1)
<1> DEFINE A == {x \in DOMAIN s : \/ s[x].lastUsedAt < s[i].lastUsedAt
                                  \/ s[x].lastUsedAt = s[i].lastUsedAt /\ x < i}
           B == 1..Len(s)
           n == Len(s)
<1>1. s[i].lastUsedAt \in Nat /\ i \in B /\ n \in Nat /\ DOMAIN s = B
  BY TexElements
<1>2. A \in SUBSET B /\ i \in B /\ i \notin A
  BY <1>1
<1>3. Tex!Rank(s, i) = Cardinality(A)
  BY DEF Tex!Rank, Tex!Cardinality, Cardinality
<1>4. IsFiniteSet(B) /\ Cardinality(B) = n
  <2>1. \A m \in Nat : IsFiniteSet(1..m) /\ Cardinality(1..m) = m
    BY FS_Interval
  <2> QED
    BY <1>1, <2>1
<1> HIDE DEF A, B, n
<1>5. IsFiniteSet(A) /\ Cardinality(A) <= Cardinality(B) /\ (Cardinality(B) = Cardinality(A) => B = A)
  BY <1>2, <1>4, FS_Subset
<1>6. Cardinality(A) \in Nat
  BY <1>5, FS_CardinalityType
<1>7. Cardinality(A) \in 0..(n-1)
  BY <1>1, <1>2, <1>4, <1>5, <1>6
<1> QED
  BY <1>3, <1>7 DEF n

FreshOnes(s) == Select(s, {i \in DOMAIN s : ~Tex!Expired(s[i])})
LatelyUsed(t) == {i \in DOMAIN t : Tex!Rank(t, i) + MaxSync >= Len(t)}
KeptOnes(s) == Select(FreshOnes(s), LatelyUsed(FreshOnes(s)))

LEMMA OneComesFirst ==
  ASSUME NEW i \in Nat, NEW j \in Nat, i # j, NEW x \in Nat, NEW y \in Nat
  PROVE  x < y \/ (x = y /\ i < j) \/ y < x \/ (y = x /\ j < i)
OBVIOUS

\* Of the sessions t, those that leave were used no later than those that stay,
\* and make room for no more than they must.
LEMMA LatelyUsedStay ==
  ASSUME MaxSync \in Nat, NEW t \in Seq(TexSessions)
  PROVE  LET kept == Select(t, LatelyUsed(t))
         IN  /\ kept \in Seq(TexSessions)
             /\ Len(kept) <= MaxSync
             /\ \A k \in DOMAIN t : t[k] \notin {kept[j] : j \in DOMAIN kept} =>
                  Len(kept) = MaxSync /\ \A j \in DOMAIN kept : kept[j].lastUsedAt >= t[k].lastUsedAt
<1> DEFINE n == Len(t)
           K == LatelyUsed(t)
           kept == Select(t, K)
           f == [i \in 1..n |-> Tex!Rank(t, i)]
<1>1. n \in Nat /\ DOMAIN t = 1..n
  BY TexElements
<1>2. f \in [1..n -> 0..(n-1)]
  BY <1>1, TexRankType
<1>3. \A i, j \in 1..n : f[i] = f[j] => i = j
  <2> SUFFICES ASSUME NEW i \in 1..n, NEW j \in 1..n, i # j PROVE f[i] # f[j]
    OBVIOUS
  <2>1. /\ i \in Nat /\ j \in Nat /\ t[i].lastUsedAt \in Nat /\ t[j].lastUsedAt \in Nat
        /\ i \in DOMAIN t /\ j \in DOMAIN t
    BY <1>1, TexElements
  <2>2. \/ t[i].lastUsedAt < t[j].lastUsedAt \/ (t[i].lastUsedAt = t[j].lastUsedAt /\ i < j)
        \/ t[j].lastUsedAt < t[i].lastUsedAt \/ (t[j].lastUsedAt = t[i].lastUsedAt /\ j < i)
    BY <2>1, OneComesFirst
  <2>3. Tex!Rank(t, i) < Tex!Rank(t, j) \/ Tex!Rank(t, j) < Tex!Rank(t, i)
    BY <2>1, <2>2, RankOrder
  <2>4. Tex!Rank(t, i) \in Nat /\ Tex!Rank(t, j) \in Nat
    BY <1>1, <2>1, TexRankType
  <2> QED
    BY <2>3, <2>4
<1>4. K = {i \in 1..n : f[i] + MaxSync >= n}
  BY <1>1 DEF LatelyUsed
<1>5. Cardinality(K) = IF n <= MaxSync THEN n ELSE MaxSync
  <2> HIDE DEF f, n
  <2>1. LET J == {i \in 1..n : f[i] + MaxSync >= n}
        IN  Cardinality(J) = IF n <= MaxSync THEN n ELSE MaxSync
    BY <1>1, <1>2, <1>3, LastNumbers
  <2> QED
    BY <1>4, <2>1
<1>6. K \in SUBSET DOMAIN t
  BY DEF LatelyUsed
<1>7. /\ kept \in Seq(TexSessions) /\ Len(kept) = Cardinality(K)
      /\ Cardinality(K) \in Nat
      /\ \A k \in 1..Cardinality(K) : Nth(K, k) \in K /\ kept[k] = t[Nth(K, k)]
      /\ \A i \in K : \E k \in 1..Cardinality(K) : Nth(K, k) = i
  <2> HIDE DEF K
  <2> QED
    BY <1>6, Selected
<1>8. DOMAIN kept = 1..Cardinality(K)
  <2> HIDE DEF K, kept
  <2> QED
    BY <1>7
<1>9. ASSUME NEW k \in DOMAIN t, t[k] \notin {kept[j] : j \in DOMAIN kept}
      PROVE  Len(kept) = MaxSync /\ \A j \in DOMAIN kept : kept[j].lastUsedAt >= t[k].lastUsedAt
  <2>1. k \notin K
    <3> SUFFICES ASSUME k \in K PROVE FALSE
      OBVIOUS
    <3>1. PICK l \in 1..Cardinality(K) : Nth(K, l) = k
      BY <1>7
    <3> HIDE DEF K, kept
    <3> QED
      BY <1>7, <1>8, <1>9, <3>1
  <2>2. k \in 1..n /\ f[k] \in Nat /\ ~(f[k] + MaxSync >= n)
    BY <1>1, <1>2, <1>4, <2>1
  <2>3. Len(kept) = MaxSync
    <3> HIDE DEF K, kept, f, n
    <3> QED
      BY <1>1, <1>5, <1>7, <2>2
  <2>4. ASSUME NEW j \in DOMAIN kept PROVE kept[j].lastUsedAt >= t[k].lastUsedAt
    <3> DEFINE i == Nth(K, j)
    <3>1. i \in K /\ kept[j] = t[i]
      BY <1>7, <1>8
    <3>2. i \in 1..n /\ f[i] \in Nat /\ f[i] + MaxSync >= n
      <4> HIDE DEF i
      <4> QED
        BY <1>1, <1>2, <1>4, <3>1
    <3> HIDE DEF i
    <3>3. /\ i \in DOMAIN t /\ t[i].lastUsedAt \in Nat /\ t[k].lastUsedAt \in Nat
          /\ Tex!Rank(t, k) = f[k] /\ Tex!Rank(t, i) = f[i]
      BY <1>1, <2>2, <3>2, TexElements
    <3>4. f[k] < f[i]
      <4> HIDE DEF f, n
      <4> QED
        BY <1>1, <2>2, <3>2
    <3>5. ~(t[i].lastUsedAt < t[k].lastUsedAt)
      <4>1. t[i].lastUsedAt < t[k].lastUsedAt => Tex!Rank(t, i) < Tex!Rank(t, k)
        <5> HIDE DEF f, K, kept, n
        <5>1. k \in DOMAIN t /\ i \in DOMAIN t
          BY <3>3
        <5> QED
          BY <5>1, RankOrder
      <4> HIDE DEF f, n
      <4> QED
        BY <2>2, <3>2, <3>3, <3>4, <4>1
    <3> QED
      BY <3>1, <3>3, <3>5
  <2> QED
    BY <2>3, <2>4
<1>10. Len(kept) <= MaxSync
  <2> HIDE DEF K, kept, n
  <2> QED
    BY <1>1, <1>5, <1>7
<1> QED
  BY <1>7, <1>9, <1>10

LEMMA KeptAre ==
  ASSUME MaxSync \in Nat, NEW s \in Seq(TexSessions)
  PROVE  /\ KeptOnes(s) \in Seq(TexSessions)
         /\ Len(KeptOnes(s)) <= MaxSync
         /\ \A i \in DOMAIN s : ~Tex!Expired(s[i]) /\ s[i] \notin {KeptOnes(s)[j] : j \in DOMAIN KeptOnes(s)} =>
              /\ Len(KeptOnes(s)) = MaxSync
              /\ \A j \in DOMAIN KeptOnes(s) : KeptOnes(s)[j].lastUsedAt >= s[i].lastUsedAt
<1> DEFINE F == {i \in DOMAIN s : ~Tex!Expired(s[i])}
           t == Select(s, F)
<1>1. F \in SUBSET DOMAIN s
  OBVIOUS
<1>2. /\ t \in Seq(TexSessions) /\ Len(t) = Cardinality(F) /\ Cardinality(F) \in Nat
      /\ \A k \in 1..Cardinality(F) : t[k] = s[Nth(F, k)]
      /\ \A i \in F : \E k \in 1..Cardinality(F) : Nth(F, k) = i
  <2> HIDE DEF F
  <2> QED
    BY <1>1, Selected
<1>3. \A i \in F : \E k \in DOMAIN t : t[k] = s[i]
  <2> SUFFICES ASSUME NEW i \in F PROVE \E k \in DOMAIN t : t[k] = s[i]
    OBVIOUS
  <2>1. PICK k \in 1..Cardinality(F) : Nth(F, k) = i
    BY <1>2
  <2>2. DOMAIN t = 1..Cardinality(F)
    <3> HIDE DEF F, t
    <3> QED
      BY <1>2
  <2> HIDE DEF F, t
  <2> QED
    BY <1>2, <2>1, <2>2
<1>4. t = FreshOnes(s) /\ Select(t, LatelyUsed(t)) = KeptOnes(s)
  BY DEF FreshOnes, KeptOnes
<1> HIDE DEF t
<1>5. /\ KeptOnes(s) \in Seq(TexSessions)
      /\ Len(KeptOnes(s)) <= MaxSync
      /\ \A k \in DOMAIN t : t[k] \notin {KeptOnes(s)[j] : j \in DOMAIN KeptOnes(s)} =>
           Len(KeptOnes(s)) = MaxSync /\ \A j \in DOMAIN KeptOnes(s) : KeptOnes(s)[j].lastUsedAt >= t[k].lastUsedAt
  <2>1. t \in Seq(TexSessions)
    BY <1>2
  <2> DEFINE kept == Select(t, LatelyUsed(t))
  <2>2. /\ kept \in Seq(TexSessions)
        /\ Len(kept) <= MaxSync
        /\ \A k \in DOMAIN t : t[k] \notin {kept[j] : j \in DOMAIN kept} =>
             Len(kept) = MaxSync /\ \A j \in DOMAIN kept : kept[j].lastUsedAt >= t[k].lastUsedAt
    BY <2>1, LatelyUsedStay
  <2> QED
    BY <1>4, <2>2
<1> QED
  BY <1>3, <1>5

LEMMA TexSelectHere ==
  ASSUME NEW s, NEW I
  PROVE  Tex!Select(s, I) = Select(s, I)
BY DEF Tex!Select, Select, Tex!Nth, Nth, Tex!RankIn, RankIn, Tex!Cardinality, Cardinality

LEMMA EvictIs ==
  ASSUME NEW s, NEW dirs, Tex!Evict(s, dirs)
  PROVE  texSession' = KeptOnes(s) /\ workDirs' = dirs \ (Tex!TokensOf(s) \ Tex!TokensOf(KeptOnes(s)))
BY TexSelectHere DEF Tex!Evict, KeptOnes, FreshOnes, LatelyUsed

\* What an eviction from s leaves.
LEMMA Evicted ==
  ASSUME MaxSync \in Nat, NEW s \in Seq(TexSessions), NEW dirs, dirs \subseteq Tex!TokensOf(s),
         Tex!Evict(s, dirs)
  PROVE  /\ texSession' \in Seq(TexSessions)
         /\ DirectoriesOwned'
         /\ \A i \in DOMAIN s : ~Tex!Expired(s[i]) /\ s[i].token \notin Tex!TokensOf(texSession') =>
              /\ Len(texSession') = MaxSync
              /\ \A j \in DOMAIN texSession' : texSession'[j].lastUsedAt >= s[i].lastUsedAt
<1>1. texSession' = KeptOnes(s) /\ workDirs' = dirs \ (Tex!TokensOf(s) \ Tex!TokensOf(KeptOnes(s)))
  BY EvictIs
<1>2. workDirs' \subseteq Tex!TokensOf(texSession')
  BY <1>1
<1>3. texSession' \in Seq(TexSessions) /\ Len(texSession') <= MaxSync
  BY <1>1, KeptAre
<1>4. DirectoriesOwned'
  BY <1>2, <1>3 DEF DirectoriesOwned, Tex!DirectoriesOwned, Tex!TokensOf
<1>5. ASSUME NEW i \in DOMAIN s, ~Tex!Expired(s[i]), s[i].token \notin Tex!TokensOf(texSession')
      PROVE  /\ Len(texSession') = MaxSync
             /\ \A j \in DOMAIN texSession' : texSession'[j].lastUsedAt >= s[i].lastUsedAt
  <2>1. s[i] \notin {texSession'[j] : j \in DOMAIN texSession'}
    BY <1>5 DEF Tex!TokensOf
  <2> QED
    BY <1>1, <1>5, <2>1, KeptAre
<1> QED
  BY <1>3, <1>4, <1>5

TexInv == TexTypes /\ DirectoriesOwned

\* What a step may do to a session that could still answer.
TexKept(s) ==
  \A i \in DOMAIN texSession :
    LET x == texSession[i] IN
      x.token \in workDirs /\ ~Tex!Expired(x) /\ x.token \notin Tex!TokensOf(s) =>
        /\ Len(s) = MaxSync
        /\ \A j \in DOMAIN s : s[j].lastUsedAt >= x.lastUsedAt

LEMMA TexCreate ==
  ASSUME MaxSync \in Nat, TexInv, NEW u \in TexUsers, Tex!Create(u)
  PROVE  TexInv' /\ TexKept(texSession')
<1> DEFINE new == [token |-> texTokens + 1, user |-> u, lastUsedAt |-> clock]
           s == Append(texSession, new)
           dirs == workDirs \cup {texTokens + 1}
<1>1. Tex!Evict(s, dirs) /\ texTokens' = texTokens + 1 /\ clock' = clock
  BY DEF Tex!Create
<1>2. texSession \in Seq(TexSessions) /\ texTokens \in Nat /\ clock \in Nat
  BY DEF TexInv, TexTypes
<1>3. new \in TexSessions
  BY <1>2 DEF TexSessions
<1>4. /\ s \in Seq(TexSessions) /\ Len(s) = Len(texSession) + 1
      /\ DOMAIN texSession \subseteq DOMAIN s
      /\ \A i \in DOMAIN texSession : s[i] = texSession[i]
      /\ Len(s) \in DOMAIN s /\ s[Len(s)] = new
  <2> DEFINE X == TexSessions
  <2>1. texSession \in Seq(X) /\ new \in X
    BY <1>2, <1>3
  <2> HIDE DEF new, X
  <2>2. /\ s \in Seq(X) /\ Len(s) = Len(texSession) + 1
        /\ DOMAIN texSession \subseteq DOMAIN s
        /\ \A i \in DOMAIN texSession : s[i] = texSession[i]
        /\ Len(s) \in DOMAIN s /\ s[Len(s)] = new
    BY <2>1
  <2> QED
    BY <2>2 DEF X
<1>5. dirs \subseteq Tex!TokensOf(s)
  <2>1. new.token = texTokens + 1
    OBVIOUS
  <2>2. \A t \in workDirs : \E i \in DOMAIN texSession : texSession[i].token = t
    BY DEF TexInv, DirectoriesOwned, Tex!DirectoriesOwned, Tex!TokensOf
  <2> HIDE DEF new, s
  <2> QED
    BY <1>4, <2>1, <2>2 DEF Tex!TokensOf
<1> HIDE DEF new, s, dirs
<1>6. /\ texSession' \in Seq(TexSessions)
      /\ DirectoriesOwned'
      /\ \A i \in DOMAIN s : ~Tex!Expired(s[i]) /\ s[i].token \notin Tex!TokensOf(texSession') =>
           /\ Len(texSession') = MaxSync
           /\ \A j \in DOMAIN texSession' : texSession'[j].lastUsedAt >= s[i].lastUsedAt
  BY <1>1, <1>4, <1>5, Evicted
<1>7. TexInv'
  BY <1>1, <1>2, <1>6 DEF TexInv, TexTypes
<1>8. TexKept(texSession')
  BY <1>4, <1>6 DEF TexKept
<1> QED
  BY <1>7, <1>8

LEMMA TexSweep ==
  ASSUME MaxSync \in Nat, TexInv, Tex!Sweep
  PROVE  TexInv' /\ TexKept(texSession')
<1>1. texSession \in Seq(TexSessions) /\ workDirs \subseteq Tex!TokensOf(texSession)
  BY DEF TexInv, TexTypes, DirectoriesOwned, Tex!DirectoriesOwned
<1>2. Tex!Evict(texSession, workDirs) /\ texTokens' = texTokens /\ clock' = clock
  BY DEF Tex!Sweep
<1>3. /\ texSession' \in Seq(TexSessions)
      /\ DirectoriesOwned'
      /\ \A i \in DOMAIN texSession : ~Tex!Expired(texSession[i]) /\ texSession[i].token \notin Tex!TokensOf(texSession') =>
           /\ Len(texSession') = MaxSync
           /\ \A j \in DOMAIN texSession' : texSession'[j].lastUsedAt >= texSession[i].lastUsedAt
  BY <1>1, <1>2, Evicted
<1> QED
  BY <1>2, <1>3 DEF TexInv, TexTypes, TexKept

LEMMA TexGet ==
  ASSUME MaxSync \in Nat, TexInv, NEW u \in TexUsers, NEW i \in DOMAIN texSession, Tex!Get(i, u)
  PROVE  TexInv' /\ TexKept(texSession')
<1>1. /\ texSession \in Seq(TexSessions) /\ workDirs \subseteq Tex!TokensOf(texSession)
      /\ Len(texSession) <= MaxSync /\ clock \in Nat
  BY DEF TexInv, TexTypes, DirectoriesOwned, Tex!DirectoriesOwned
<1>2. workDirs' = workDirs /\ texTokens' = texTokens /\ clock' = clock
  BY DEF Tex!Get
<1>3. texSession[i] \in TexSessions
  BY <1>1, TexElements
<1>4. CASE texSession[i].token \in workDirs
  <2> DEFINE used == [texSession[i] EXCEPT !.lastUsedAt = clock]
  <2>1. texSession' = [texSession EXCEPT ![i] = used]
    BY <1>4 DEF Tex!Get
  <2>2. used \in TexSessions /\ used.token = texSession[i].token
    BY <1>1, <1>3 DEF TexSessions
  <2> HIDE DEF used
  <2>3. /\ texSession' \in Seq(TexSessions) /\ Len(texSession') = Len(texSession)
        /\ DOMAIN texSession' = DOMAIN texSession
        /\ texSession'[i] = used /\ \A j \in DOMAIN texSession : j # i => texSession'[j] = texSession[j]
    <3> DEFINE X == TexSessions
    <3>1. texSession \in Seq(X) /\ used \in X
      BY <1>1, <2>2
    <3> HIDE DEF X
    <3>2. /\ texSession' \in Seq(X) /\ Len(texSession') = Len(texSession)
          /\ DOMAIN texSession' = DOMAIN texSession
      BY <2>1, <3>1
    <3>3. texSession'[i] = used /\ \A j \in DOMAIN texSession : j # i => texSession'[j] = texSession[j]
      BY <2>1
    <3> QED
      BY <3>2, <3>3 DEF X
  <2>4. \A j \in DOMAIN texSession : texSession'[j].token = texSession[j].token
    BY <2>2, <2>3
  <2>5. Tex!TokensOf(texSession') = Tex!TokensOf(texSession)
    BY <2>3, <2>4 DEF Tex!TokensOf
  <2>6. DirectoriesOwned'
    <3>1. workDirs' \subseteq Tex!TokensOf(texSession') /\ Len(texSession') <= MaxSync
      BY <1>1, <1>2, <2>3, <2>5
    <3> QED
      BY <3>1 DEF DirectoriesOwned, Tex!DirectoriesOwned, Tex!TokensOf
  <2>7. TexKept(texSession')
    BY <2>5 DEF TexKept, Tex!TokensOf
  <2> QED
    BY <1>1, <1>2, <2>3, <2>6, <2>7 DEF TexInv, TexTypes
<1>5. CASE texSession[i].token \notin workDirs
  <2> DEFINE I == DOMAIN texSession \ {i}
  <2>1. texSession' = Select(texSession, I)
    BY <1>5, TexSelectHere DEF Tex!Get
  <2>2. I \in SUBSET DOMAIN texSession
    OBVIOUS
  <2>3. /\ IsFiniteSet(I)
        /\ texSession' \in Seq(TexSessions) /\ Len(texSession') = Cardinality(I) /\ Cardinality(I) \in Nat
        /\ \A k \in 1..Cardinality(I) : texSession'[k] = texSession[Nth(I, k)]
        /\ \A j \in I : \E k \in 1..Cardinality(I) : Nth(I, k) = j
    <3> HIDE DEF I
    <3> QED
      BY <1>1, <2>1, <2>2, Selected
  <2>4. DOMAIN texSession' = 1..Cardinality(I)
    <3> HIDE DEF I
    <3> QED
      BY <2>3
  <2>5. \A j \in I : \E k \in DOMAIN texSession' : texSession'[k] = texSession[j]
    <3> HIDE DEF I
    <3> QED
      BY <2>3, <2>4
  <2>6. ASSUME NEW t \in workDirs PROVE t \in Tex!TokensOf(texSession')
    <3>1. PICK j \in DOMAIN texSession : texSession[j].token = t
      BY <1>1 DEF Tex!TokensOf
    <3>2. j \in I
      BY <1>5, <3>1
    <3> QED
      BY <2>5, <3>1, <3>2 DEF Tex!TokensOf
  <2>7. Len(texSession') <= MaxSync
    <3> DEFINE n == Len(texSession)
    <3>1. n \in Nat /\ DOMAIN texSession = 1..n
      BY <1>1, TexElements
    <3>2. IsFiniteSet(1..n) /\ Cardinality(1..n) = n
      <4> HIDE DEF n
      <4> QED
        BY <3>1, FS_Interval
    <3>3. Cardinality(I) <= Cardinality(1..n)
      <4>1. I \in SUBSET (1..n)
        BY <3>1
      <4> HIDE DEF I, n
      <4> QED
        BY <3>2, <4>1, FS_Subset
    <3> HIDE DEF I
    <3> QED
      BY <1>1, <2>3, <3>1, <3>2, <3>3
  <2>8. DirectoriesOwned'
    <3>1. workDirs' \subseteq Tex!TokensOf(texSession')
      BY <1>2, <2>6
    <3> QED
      BY <2>7, <3>1 DEF DirectoriesOwned, Tex!DirectoriesOwned, Tex!TokensOf
  <2>9. TexKept(texSession')
    BY <2>6 DEF TexKept
  <2> QED
    BY <1>1, <1>2, <2>3, <2>8, <2>9 DEF TexInv, TexTypes
<1> QED
  BY <1>4, <1>5

LEMMA TexStep ==
  ASSUME MaxSync \in Nat, TexInv, Tex!Next \/ UNCHANGED texVars
  PROVE  TexInv' /\ (TexKept(texSession') \/ UNCHANGED texVars)
<1>1. CASE \E u \in TexUsers : Tex!Create(u)
  BY <1>1, TexCreate
<1>2. CASE \E u \in TexUsers : \E i \in DOMAIN texSession : Tex!Get(i, u)
  BY <1>2, TexGet
<1>3. CASE Tex!Sweep
  BY <1>3, TexSweep
<1>4. CASE UNCHANGED <<texSession, texTokens>> /\ workDirs' \subseteq workDirs /\ clock' \in Nat
  <2>1. TexInv'
    BY <1>4 DEF TexInv, TexTypes, DirectoriesOwned, Tex!DirectoriesOwned, Tex!TokensOf
  <2>2. TexKept(texSession')
    BY <1>4 DEF TexKept, Tex!TokensOf
  <2> QED
    BY <2>1, <2>2
<1>5. CASE Tex!Tick
  <2>1. UNCHANGED <<texSession, texTokens>> /\ workDirs' \subseteq workDirs /\ clock' \in Nat
    BY <1>5 DEF Tex!Tick, TexInv, TexTypes
  <2> QED
    BY <1>4, <2>1
<1>6. CASE \E t \in workDirs : Tex!CleanUp(t)
  <2>1. UNCHANGED <<texSession, texTokens>> /\ workDirs' \subseteq workDirs /\ clock' \in Nat
    BY <1>6 DEF Tex!CleanUp, TexInv, TexTypes
  <2> QED
    BY <1>4, <2>1
<1>7. CASE UNCHANGED texVars
  <2>1. UNCHANGED <<texSession, texTokens>> /\ workDirs' \subseteq workDirs /\ clock' \in Nat
    BY <1>7 DEF texVars, TexInv, TexTypes
  <2> QED
    BY <1>4, <2>1
<1> QED
  BY <1>1, <1>2, <1>3, <1>5, <1>6, <1>7 DEF Tex!Next

-----------------------------------------------------------------------------
(* The language servers (LanguageServers).                                   *)

AsksFinite == IsFiniteSet(Asks) /\ MaxSpawned \in Nat

LspTexts == Sources \cup {NoSource}
KeptTexts == [text : LspTexts, about : LspTexts]
LspMirrors == [dir : Nat, revision : Nat, text : LspTexts, kept : KeptTexts]
LspSteps == {"new", "loading", "starting", "waiting", "done"}
LspAsks == [step : LspSteps, kind : {"collect", "incremental", "warm"}, text : LspTexts,
            revision : Nat, dir : Nat, pid : Nat]

Processed == Language!Processes
Places == Language!Dirs

ServerTypes ==
  /\ spawned \in 0..MaxSpawned /\ proc \in 0..spawned
  /\ opened \in [Processed -> [Places -> Seq(LspTexts)]]
FileTypes ==
  /\ shown \in [Places -> LspTexts]
  /\ versions \in [Places -> Nat]
MirrorTypes ==
  /\ mirror \in LspMirrors /\ directories \in Nat /\ mirror.dir <= directories
  /\ mirror.revision # 0 => mirror.dir # 0
  /\ revisions \in Nat /\ revisions # 0

\* A request knows the revision it is for when it starts the server; and each
\* that was answered, or waits to be, made at most one directory.
Finishing(k) == {a \in Asks : k[a].step \in {"waiting", "done"}}
AskTypes ==
  /\ ask \in [Asks -> LspAsks]
  /\ \A a \in Asks : ask[a].step \in {"loading", "starting"} => ask[a].revision # 0
  /\ directories <= Cardinality(Finishing(ask))

\* Nothing was sent to a process before it was spawned.
NothingSentBefore == \A p \in Processed : p > spawned => \A d \in Places : opened[p][d] = <<>>

SentIsMirrored ==
  proc # 0 /\ mirror.dir # 0 /\ opened[proc][mirror.dir] # <<>> =>
    opened[proc][mirror.dir][Len(opened[proc][mirror.dir])] = mirror.text

WaitingFor(k, d) == {a \in Asks : k[a].step = "waiting" /\ k[a].dir = d}
Registered ==
  /\ waiters \in [Places -> Seq(Asks)]
  /\ \A a \in Asks : ask[a].step = "waiting" => ask[a].dir \in Places
  /\ \A d \in Places :
       /\ \A i, j \in DOMAIN waiters[d] : waiters[d][i] = waiters[d][j] => i = j
       /\ {waiters[d][i] : i \in DOMAIN waiters[d]} = WaitingFor(ask, d)
       /\ waiters[d] # <<>> => shown[d] = NoSource

LspBase == ServerTypes /\ FileTypes /\ MirrorTypes /\ AskTypes
LspInv == LspBase /\ NothingSentBefore /\ SentIsMirrored /\ Registered

LEMMA DirsAre ==
  ASSUME AsksFinite
  PROVE  Places = 1..Cardinality(Asks) /\ Cardinality(Asks) \in Nat
BY FS_CardinalityType DEF AsksFinite, Places, Language!Dirs, Language!Cardinality, Cardinality

\* The requests that wait or were answered, when one request changes.
LEMMA FinishingChanges ==
  ASSUME AsksFinite, ask \in [Asks -> LspAsks], NEW a \in Asks, NEW q \in LspAsks,
         ask' = [ask EXCEPT ![a] = q]
  PROVE  /\ ask' \in [Asks -> LspAsks]
         /\ Cardinality(Finishing(ask)) \in Nat /\ Cardinality(Finishing(ask')) \in Nat
         /\ Cardinality(Finishing(ask')) <= Cardinality(Asks)
         /\ q.step \in {"waiting", "done"} => Cardinality(Finishing(ask)) <= Cardinality(Finishing(ask'))
         /\ q.step \in {"waiting", "done"} /\ ask[a].step \notin {"waiting", "done"} =>
              Cardinality(Finishing(ask')) = Cardinality(Finishing(ask)) + 1
         /\ ask[a].step \notin {"waiting", "done"} => Cardinality(Finishing(ask)) <= Cardinality(Finishing(ask'))
<1> DEFINE A == Finishing(ask)
           B == Finishing(ask')
<1>1. ask' \in [Asks -> LspAsks] /\ ask'[a] = q /\ \A b \in Asks : b # a => ask'[b] = ask[b]
  OBVIOUS
<1>2. A \in SUBSET Asks /\ B \in SUBSET Asks
  BY DEF Finishing
<1>3. IsFiniteSet(Asks)
  BY DEF AsksFinite
<1>4. q.step \in {"waiting", "done"} => A \in SUBSET B
  BY <1>1 DEF Finishing
<1>5. q.step \in {"waiting", "done"} /\ ask[a].step \notin {"waiting", "done"} => B = A \cup {a} /\ a \notin A
  BY <1>1 DEF Finishing
<1>6. ask[a].step \notin {"waiting", "done"} => A \in SUBSET B
  BY <1>1 DEF Finishing
<1> HIDE DEF A, B
<1>7. IsFiniteSet(A) /\ IsFiniteSet(B) /\ Cardinality(B) <= Cardinality(Asks)
  BY <1>2, <1>3, FS_Subset
<1>8. Cardinality(A) \in Nat /\ Cardinality(B) \in Nat
  BY <1>7, FS_CardinalityType
<1>9. A \in SUBSET B => Cardinality(A) <= Cardinality(B)
  BY <1>7, FS_Subset
<1>10. a \notin A => Cardinality(A \cup {a}) = Cardinality(A) + 1
  BY <1>7, FS_AddElement
<1> QED
  BY <1>1, <1>4, <1>5, <1>6, <1>7, <1>8, <1>9, <1>10 DEF A, B

\* The mirror that a request makes or uses again.
LEMMA MirroredIs ==
  ASSUME MirrorTypes, NEW m \in {mirror, Language!NoMirror}, NEW r \in LspAsks, r.revision # 0
  PROVE  /\ m \in LspMirrors
         /\ Language!Mirrored(m, r) \in LspMirrors
         /\ Language!Mirrored(m, r).text = r.text
         /\ Language!Mirrored(m, r).dir \in 1..(directories + 1)
<1>1. NoSource \in LspTexts /\ r.text \in LspTexts /\ r.revision \in Nat
  BY DEF LspTexts, LspAsks
<1>2. Language!NothingKept \in KeptTexts
  BY <1>1 DEF Language!NothingKept, KeptTexts
<1>3. Language!NoMirror \in LspMirrors /\ Language!NoMirror.dir = 0
  BY <1>1, <1>2 DEF Language!NoMirror, LspMirrors
<1>4. m \in LspMirrors /\ m.dir \in 0..directories /\ directories \in Nat
  BY <1>3 DEF MirrorTypes, LspMirrors
<1>5. CASE m.dir # 0 /\ m.revision = r.revision
  <2>1. Language!Mirrored(m, r) = [m EXCEPT !.text = r.text]
    BY <1>5 DEF Language!Mirrored
  <2>2. [m EXCEPT !.text = r.text] \in LspMirrors
    BY <1>1, <1>4 DEF LspMirrors
  <2>3. [m EXCEPT !.text = r.text].text = r.text /\ [m EXCEPT !.text = r.text].dir = m.dir
    BY <1>4 DEF LspMirrors
  <2> QED
    BY <1>4, <1>5, <2>1, <2>2, <2>3
<1>6. CASE ~(m.dir # 0 /\ m.revision = r.revision)
  <2> DEFINE new == [dir |-> directories + 1, revision |-> r.revision, text |-> r.text, kept |-> Language!NothingKept]
  <2>1. Language!Mirrored(m, r) = new
    BY <1>6 DEF Language!Mirrored
  <2>2. new \in LspMirrors
    BY <1>1, <1>2, <1>4 DEF LspMirrors
  <2> QED
    BY <1>4, <2>1, <2>2
<1> QED
  BY <1>5, <1>6

\* Sending a text.
LEMMA SendIs ==
  ASSUME AsksFinite, ServerTypes, FileTypes, proc # 0, NEW d \in Places, NEW words \in LspTexts, Language!Send(words, d)
  PROVE  /\ opened' \in [Processed -> [Places -> Seq(LspTexts)]]
         /\ FileTypes'
         /\ \A p \in Processed : p # proc => opened'[p] = opened[p]
         /\ opened'[proc][d] # <<>> => opened'[proc][d][Len(opened'[proc][d])] = words
         /\ shown'[d] = NoSource
         /\ \A e \in Places : e # d => shown'[e] = shown[e]
<1> DEFINE old == opened[proc][d]
           new == IF versions[d] = 0 \/ old # <<>> THEN Append(old, words) ELSE old
           row == [opened[proc] EXCEPT ![d] = new]
<1>1. proc \in Processed
  BY DEF AsksFinite, ServerTypes, Processed, Language!Processes
<1>2. opened[proc] \in [Places -> Seq(LspTexts)] /\ old \in Seq(LspTexts)
  BY <1>1 DEF ServerTypes
<1>3. new \in Seq(LspTexts) /\ (new # <<>> => new[Len(new)] = words)
  <2> DEFINE X == LspTexts
  <2>1. old \in Seq(X) /\ words \in X
    BY <1>2
  <2> HIDE DEF X, old
  <2>2. Append(old, words) \in Seq(X) /\ Append(old, words)[Len(Append(old, words))] = words
    BY <2>1
  <2>3. CASE versions[d] = 0 \/ old # <<>>
    <3>1. new = Append(old, words)
      BY <2>3
    <3> QED
      BY <2>2, <3>1 DEF X
  <2>4. CASE ~(versions[d] = 0 \/ old # <<>>)
    <3>1. new = old /\ old = <<>>
      BY <2>4
    <3> QED
      BY <2>1, <3>1 DEF X
  <2> QED
    BY <2>3, <2>4
<1>4. opened' = [opened EXCEPT ![proc] = row]
  BY DEF Language!Send
<1> HIDE DEF new
<1>5. row \in [Places -> Seq(LspTexts)] /\ row[d] = new
  BY <1>2, <1>3
<1> HIDE DEF row
<1>6. /\ opened' \in [Processed -> [Places -> Seq(LspTexts)]]
      /\ opened'[proc] = row
      /\ \A p \in Processed : p # proc => opened'[p] = opened[p]
  BY <1>1, <1>4, <1>5 DEF ServerTypes
<1>7. /\ shown' = [shown EXCEPT ![d] = NoSource]
      /\ versions' = [versions EXCEPT ![d] = versions[d] + 1]
  BY DEF Language!Send
<1>8. FileTypes'
  BY <1>7 DEF FileTypes, LspTexts
<1>9. shown'[d] = NoSource /\ \A e \in Places : e # d => shown'[e] = shown[e]
  BY <1>7 DEF FileTypes
<1> QED
  BY <1>3, <1>5, <1>6, <1>8, <1>9

LEMMA RequestIs ==
  ASSUME NEW r \in LspAsks, NEW step \in LspSteps, NEW d \in Nat
  PROVE  /\ [r EXCEPT !.step = step] \in LspAsks
         /\ [r EXCEPT !.step = step, !.dir = d] \in LspAsks
         /\ [r EXCEPT !.step = step].step = step
         /\ [r EXCEPT !.step = step, !.dir = d].step = step
         /\ [r EXCEPT !.step = step, !.dir = d].dir = d
BY DEF LspAsks

LEMMA RestIs ==
  ASSUME NEW step \in LspSteps
  PROVE  Language!AtRest(step) \in LspAsks /\ Language!AtRest(step).step = step
<1>1. NoSource \in LspTexts
  BY DEF LspTexts
<1> QED
  BY <1>1 DEF Language!AtRest, LspAsks, LspSteps

\* What a request does to itself: it answers, or waits, or loads the files.
LEMMA AskSteps ==
  ASSUME AsksFinite, directories \in Nat, AskTypes, NEW a \in Asks, ask[a].step \notin {"waiting", "done"},
         NEW r \in LspAsks, NEW d \in Nat, Language!Answer(a) \/ Language!Wait(a, r, d)
  PROVE  /\ ask' \in [Asks -> LspAsks]
         /\ \A b \in Asks : ask'[b].step \in {"loading", "starting"} => ask'[b].revision # 0
         /\ Cardinality(Finishing(ask')) \in Nat
         /\ directories + 1 <= Cardinality(Finishing(ask'))
         /\ Cardinality(Finishing(ask')) <= Cardinality(Asks)
<1> DEFINE q == ask'[a]
<1>1. "done" \in LspSteps /\ "waiting" \in LspSteps
  BY DEF LspSteps
<1>2. q \in LspAsks /\ q.step \in {"waiting", "done"} /\ ask' = [ask EXCEPT ![a] = q]
  <2>1. CASE Language!Answer(a)
    <3>1. ask' = [ask EXCEPT ![a] = Language!AtRest("done")]
      BY <2>1 DEF Language!Answer
    <3>2. q = Language!AtRest("done")
      BY <3>1 DEF AskTypes
    <3> QED
      BY <1>1, <3>1, <3>2, RestIs
  <2>2. CASE Language!Wait(a, r, d)
    <3>1. ask' = [ask EXCEPT ![a] = [r EXCEPT !.step = "waiting", !.dir = d]]
      BY <2>2 DEF Language!Wait
    <3>2. q = [r EXCEPT !.step = "waiting", !.dir = d]
      BY <3>1 DEF AskTypes
    <3>3. q \in LspAsks /\ q.step = "waiting"
      <4> DEFINE s == "waiting"
      <4>1. s \in LspSteps
        BY <1>1
      <4> HIDE DEF s
      <4>2. [r EXCEPT !.step = s, !.dir = d] \in LspAsks
        BY <4>1 DEF LspAsks
      <4>3. [r EXCEPT !.step = s, !.dir = d].step = s
        BY <4>1 DEF LspAsks
      <4> QED
        BY <3>2, <4>2, <4>3 DEF s
    <3> QED
      BY <3>1, <3>2, <3>3
  <2> QED
    BY <2>1, <2>2
<1> HIDE DEF q
<1>3. ask \in [Asks -> LspAsks] /\ directories <= Cardinality(Finishing(ask))
  BY DEF AskTypes
<1>4. /\ ask' \in [Asks -> LspAsks]
      /\ Cardinality(Finishing(ask)) \in Nat /\ Cardinality(Finishing(ask')) \in Nat
      /\ Cardinality(Finishing(ask')) <= Cardinality(Asks)
      /\ Cardinality(Finishing(ask')) = Cardinality(Finishing(ask)) + 1
  BY <1>2, <1>3, FinishingChanges
<1>5. \A b \in Asks : ask'[b].step \in {"loading", "starting"} => ask'[b].revision # 0
  <2>1. ask'[a] = q /\ \A b \in Asks : b # a => ask'[b] = ask[b]
    BY <1>2, <1>3
  <2> QED
    BY <1>2, <2>1 DEF AskTypes
<1> QED
  BY <1>3, <1>4, <1>5

\* What the start of a request amounts to: it sends a text to the directory of
\* the mirror, or it sends nothing and keeps the mirror or finds it gone.
Sending(a) ==
  \E d \in Places, words \in LspTexts, r \in LspAsks :
    /\ Language!Send(words, d)
    /\ mirror' \in LspMirrors /\ mirror'.dir = d /\ mirror'.text = words
    /\ directories' \in Nat /\ d <= directories' /\ directories' <= directories + 1
    /\ Language!Answer(a) \/ Language!Wait(a, r, d)
NotSending(a) ==
  /\ UNCHANGED <<opened, versions, shown, directories>>
  /\ mirror' \in {mirror, Language!NoMirror}
  /\ Language!Answer(a) \/ \E r \in LspAsks : r.revision # 0 /\ Language!LoadFiles(a, r)

LEMMA StartedDoes ==
  ASSUME AsksFinite, LspBase, NEW a \in Asks, ask[a].step \notin {"waiting", "done"},
         NEW r \in LspAsks, r.revision # 0, Language!Started(a, r)
  PROVE  Sending(a) \/ NotSending(a)
<1>1. PICK m \in Language!Swept : Language!SyncAll(a, r, m) \/ Language!SyncOne(a, r, m)
  BY DEF Language!Started
<1>2. m \in {mirror, Language!NoMirror}
  BY DEF Language!Swept
<1>3. MirrorTypes /\ AskTypes /\ directories \in Nat /\ r.text \in LspTexts
  BY DEF LspBase, MirrorTypes, LspAsks
<1>4. Places = 1..Cardinality(Asks) /\ Cardinality(Asks) \in Nat
  BY DirsAre
<1>5. CASE Language!SyncAll(a, r, m)
  <2> DEFINE new == Language!Mirrored(m, r)
             d == new.dir
  <2>1. new \in LspMirrors /\ new.text = r.text /\ d \in 1..(directories + 1)
    BY <1>2, <1>3, MirroredIs
  <2>2. /\ mirror' = new /\ directories' = (IF d > directories THEN d ELSE directories)
        /\ Language!Send(r.text, d)
        /\ Language!Answer(a) \/ Language!Wait(a, r, d)
    BY <1>5 DEF Language!SyncAll
  <2> HIDE DEF d
  <2>3. d \in Nat /\ directories' \in Nat /\ d <= directories' /\ directories' <= directories + 1
    BY <1>3, <2>1, <2>2
  <2>4. directories + 1 <= Cardinality(Asks)
    <3>1. /\ Cardinality(Finishing(ask')) \in Nat
          /\ directories + 1 <= Cardinality(Finishing(ask'))
          /\ Cardinality(Finishing(ask')) <= Cardinality(Asks)
      BY <1>3, <2>2, <2>3, AskSteps
    <3> QED
      BY <1>3, <1>4, <3>1
  <2>5. d \in Places
    BY <1>3, <1>4, <2>1, <2>4
  <2> HIDE DEF new
  <2>6. mirror'.dir = d
    BY <2>2 DEF d
  <2> QED
    BY <1>3, <2>1, <2>2, <2>3, <2>5, <2>6 DEF Sending
<1>6. CASE Language!SyncOne(a, r, m)
  <2>1. CASE m.revision # r.revision
    <3> DEFINE q == [r EXCEPT !.kind = "collect"]
    <3>1. q \in LspAsks /\ q.revision # 0
      BY DEF LspAsks
    <3>2. Language!LoadFiles(a, q) /\ mirror' = m /\ UNCHANGED <<opened, versions, shown, directories>>
      BY <1>6, <2>1 DEF Language!SyncOne
    <3> QED
      BY <1>2, <3>1, <3>2 DEF NotSending
  <2>2. CASE m.revision = r.revision /\ m.kept.text = r.text
    BY <1>2, <1>6, <2>2 DEF Language!SyncOne, NotSending
  <2>3. CASE m.revision = r.revision /\ m.kept.text # r.text
    <3>1. mirror' = [m EXCEPT !.text = r.text] /\ Language!Send(r.text, m.dir) /\ Language!Wait(a, r, m.dir)
          /\ directories' = directories
      BY <1>6, <2>3 DEF Language!SyncOne
    <3>2. m = mirror
      BY <1>2, <2>3 DEF Language!NoMirror
    <3>3. m \in LspMirrors /\ m.dir \in Nat /\ m.dir # 0 /\ m.dir <= directories
      BY <1>3, <2>3, <3>2 DEF MirrorTypes, LspMirrors
    <3>4. mirror' \in LspMirrors /\ mirror'.dir = m.dir /\ mirror'.text = r.text
      BY <1>3, <3>1, <3>3 DEF LspMirrors
    <3>5. directories + 1 <= Cardinality(Asks)
      <4>1. /\ Cardinality(Finishing(ask')) \in Nat
            /\ directories + 1 <= Cardinality(Finishing(ask'))
            /\ Cardinality(Finishing(ask')) <= Cardinality(Asks)
        BY <1>3, <3>1, <3>3, AskSteps
      <4> QED
        BY <1>3, <1>4, <4>1
    <3>6. m.dir \in Places
      BY <1>3, <1>4, <3>3, <3>5
    <3> QED
      BY <1>3, <3>1, <3>3, <3>4, <3>6 DEF Sending
  <2> QED
    BY <2>1, <2>2, <2>3
<1> QED
  BY <1>1, <1>5, <1>6

LEMMA LoadSteps ==
  ASSUME AsksFinite, MirrorTypes, AskTypes, NEW a \in Asks, ask[a].step \notin {"waiting", "done"},
         NEW r \in LspAsks, Language!LoadFiles(a, r), directories' = directories
  PROVE  AskTypes'
<1> DEFINE q == [r EXCEPT !.step = "loading", !.revision = revisions]
<1>1. q \in LspAsks /\ q.step = "loading" /\ q.revision = revisions /\ revisions # 0
  BY DEF LspAsks, LspSteps, MirrorTypes
<1>2. ask' = [ask EXCEPT ![a] = q]
  BY DEF Language!LoadFiles
<1> HIDE DEF q
<1>3. ask \in [Asks -> LspAsks] /\ directories <= Cardinality(Finishing(ask)) /\ directories \in Nat
  BY DEF AskTypes, MirrorTypes
<1>4. /\ ask' \in [Asks -> LspAsks]
      /\ Cardinality(Finishing(ask)) \in Nat /\ Cardinality(Finishing(ask')) \in Nat
      /\ Cardinality(Finishing(ask)) <= Cardinality(Finishing(ask'))
  BY <1>1, <1>2, <1>3, FinishingChanges
<1>5. \A b \in Asks : ask'[b].step \in {"loading", "starting"} => ask'[b].revision # 0
  <2>1. ask'[a] = q /\ \A b \in Asks : b # a => ask'[b] = ask[b]
    BY <1>2, <1>3
  <2> QED
    BY <1>1, <2>1 DEF AskTypes
<1>6. directories' <= Cardinality(Finishing(ask'))
  BY <1>3, <1>4
<1> QED
  BY <1>4, <1>5, <1>6 DEF AskTypes, Finishing

\* The start of a request keeps what is known of the records.
LEMMA StartedBase ==
  ASSUME AsksFinite, LspBase, NothingSentBefore, SentIsMirrored,
         proc # 0, NEW a \in Asks, ask[a].step \notin {"waiting", "done"},
         Sending(a) \/ NotSending(a),
         UNCHANGED <<spawned, proc, revisions>>
  PROVE  LspBase' /\ NothingSentBefore' /\ SentIsMirrored'
<1>1. ServerTypes /\ FileTypes /\ MirrorTypes /\ AskTypes /\ directories \in Nat
  BY DEF LspBase, MirrorTypes
<1>2. CASE Sending(a)
  <2>1. PICK d \in Places, words \in LspTexts, r \in LspAsks :
          /\ Language!Send(words, d)
          /\ mirror' \in LspMirrors /\ mirror'.dir = d /\ mirror'.text = words
          /\ directories' \in Nat /\ d <= directories' /\ directories' <= directories + 1
          /\ Language!Answer(a) \/ Language!Wait(a, r, d)
    BY <1>2 DEF Sending
  <2>2. /\ opened' \in [Processed -> [Places -> Seq(LspTexts)]]
        /\ FileTypes'
        /\ \A p \in Processed : p # proc => opened'[p] = opened[p]
        /\ opened'[proc][d] # <<>> => opened'[proc][d][Len(opened'[proc][d])] = words
    BY <1>1, <2>1, SendIs
  <2>3. d \in Nat /\ d # 0
    BY DirsAre
  <2>4. /\ ask' \in [Asks -> LspAsks]
        /\ \A b \in Asks : ask'[b].step \in {"loading", "starting"} => ask'[b].revision # 0
        /\ Cardinality(Finishing(ask')) \in Nat
        /\ directories + 1 <= Cardinality(Finishing(ask'))
    BY <1>1, <2>1, <2>3, AskSteps
  <2>5. ServerTypes'
    BY <1>1, <2>2 DEF ServerTypes, Processed, Language!Processes, Places, Language!Dirs
  <2>6. MirrorTypes'
    BY <1>1, <2>1, <2>3 DEF MirrorTypes
  <2>7. directories' <= Cardinality(Finishing(ask'))
    BY <1>1, <2>1, <2>4
  <2>8. AskTypes'
    BY <2>4, <2>7 DEF AskTypes, Finishing
  <2>9. NothingSentBefore'
    <3> SUFFICES ASSUME NEW p \in Processed, p > spawned, NEW e \in Places PROVE opened'[p][e] = <<>>
      BY DEF NothingSentBefore, Processed, Language!Processes, Places, Language!Dirs
    <3>1. p # proc
      BY <1>1 DEF ServerTypes, AsksFinite
    <3> QED
      BY <2>2, <3>1 DEF NothingSentBefore
  <2>10. SentIsMirrored'
    BY <2>1, <2>2 DEF SentIsMirrored
  <2> QED
    BY <2>2, <2>5, <2>6, <2>8, <2>9, <2>10 DEF LspBase
<1>3. CASE NotSending(a)
  <2>1. UNCHANGED <<opened, versions, shown, directories>> /\ mirror' \in {mirror, Language!NoMirror}
    BY <1>3 DEF NotSending
  <2>2. ServerTypes' /\ FileTypes' /\ NothingSentBefore'
    BY <1>1, <2>1
       DEF ServerTypes, FileTypes, NothingSentBefore, Processed, Language!Processes, Places, Language!Dirs
  <2>3. Language!NoMirror \in LspMirrors /\ Language!NoMirror.dir = 0 /\ Language!NoMirror.revision = 0
    <3>1. NoSource \in LspTexts
      BY DEF LspTexts
    <3> QED
      BY <3>1 DEF LspMirrors, KeptTexts, Language!NoMirror, Language!NothingKept
  <2>4. MirrorTypes' /\ SentIsMirrored'
    BY <1>1, <2>1, <2>3 DEF MirrorTypes, SentIsMirrored
  <2>5. AskTypes'
    <3>1. CASE Language!Answer(a)
      <4>1. PICK r \in LspAsks : r = ask[a]
        BY <1>1 DEF AskTypes
      <4>2. /\ ask' \in [Asks -> LspAsks]
            /\ \A b \in Asks : ask'[b].step \in {"loading", "starting"} => ask'[b].revision # 0
            /\ Cardinality(Finishing(ask')) \in Nat
            /\ directories + 1 <= Cardinality(Finishing(ask'))
        BY <1>1, <3>1, <4>1, AskSteps
      <4>3. directories' <= Cardinality(Finishing(ask'))
        BY <1>1, <2>1, <4>2
      <4> QED
        BY <4>2, <4>3 DEF AskTypes, Finishing
    <3>2. CASE \E r \in LspAsks : r.revision # 0 /\ Language!LoadFiles(a, r)
      <4>1. PICK r \in LspAsks : Language!LoadFiles(a, r)
        BY <3>2
      <4> QED
        BY <1>1, <2>1, <4>1, LoadSteps
    <3> QED
      BY <1>3, <3>1, <3>2 DEF NotSending
  <2> QED
    BY <2>2, <2>4, <2>5 DEF LspBase
<1> QED
  BY <1>2, <1>3

LEMMA WaitingIs ==
  ASSUME Registered, ask \in [Asks -> LspAsks], NEW a \in Asks, ask[a].step # "waiting"
  PROVE  \A d \in Places : /\ a \notin WaitingFor(ask, d)
                           /\ \A i \in DOMAIN waiters[d] : waiters[d][i] # a
BY DEF Registered, WaitingFor

\* A request that neither begins nor ends to wait leaves the others alone.
LEMMA RegisteredStays ==
  ASSUME Registered, ask \in [Asks -> LspAsks], NEW a \in Asks, ask[a].step # "waiting",
         NEW q \in LspAsks, q.step # "waiting", ask' = [ask EXCEPT ![a] = q],
         UNCHANGED waiters, \A d \in Places : shown[d] = NoSource => shown'[d] = NoSource
  PROVE  Registered'
<1>1. ask'[a] = q /\ \A b \in Asks : b # a => ask'[b] = ask[b]
  OBVIOUS
<1>2. \A d \in Places : WaitingFor(ask', d) = WaitingFor(ask, d)
  BY <1>1 DEF WaitingFor
<1>3. \A b \in Asks : ask'[b].step = "waiting" => ask'[b].dir \in Places
  BY <1>1 DEF Registered
<1> QED
  BY <1>2, <1>3 DEF Registered, WaitingFor, Places, Language!Dirs

\* A request that begins to wait is registered, last.
LEMMA RegisteredLast ==
  ASSUME Registered, ask \in [Asks -> LspAsks], NEW a \in Asks, ask[a].step # "waiting",
         NEW d \in Places, NEW q \in LspAsks, q.step = "waiting", q.dir = d, ask' = [ask EXCEPT ![a] = q],
         waiters' = [waiters EXCEPT ![d] = Append(waiters[d], a)],
         shown'[d] = NoSource, \A e \in Places : e # d => shown'[e] = shown[e]
  PROVE  Registered'
<1>1. ask'[a] = q /\ \A b \in Asks : b # a => ask'[b] = ask[b]
  OBVIOUS
<1> DEFINE w == waiters[d]
           new == Append(w, a)
<1>2. w \in Seq(Asks) /\ (\A i, j \in DOMAIN w : w[i] = w[j] => i = j) /\ {w[i] : i \in DOMAIN w} = WaitingFor(ask, d)
  BY DEF Registered
<1>3. \A i \in DOMAIN w : w[i] # a
  BY WaitingIs
<1>4. /\ new \in Seq(Asks) /\ {new[i] : i \in DOMAIN new} = {w[i] : i \in DOMAIN w} \cup {a}
      /\ \A i, j \in DOMAIN new : new[i] = new[j] => i = j
  <2> HIDE DEF w
  <2>1. new \in Seq(Asks)
    BY <1>2, Appended
  <2>2. /\ {new[i] : i \in DOMAIN new} = {w[i] : i \in DOMAIN w} \cup {a}
        /\ \A i, j \in DOMAIN new : new[i] = new[j] => i = j
    BY <1>2, <1>3, AppendedOnce
  <2> QED
    BY <2>1, <2>2
<1> HIDE DEF new
<1>5. /\ waiters' \in [Places -> Seq(Asks)] /\ waiters'[d] = new
      /\ \A e \in Places : e # d => waiters'[e] = waiters[e]
  BY <1>4 DEF Registered, new
<1>6. WaitingFor(ask', d) = WaitingFor(ask, d) \cup {a}
  BY <1>1 DEF WaitingFor
<1>7. \A e \in Places : e # d => WaitingFor(ask', e) = WaitingFor(ask, e)
  BY <1>1 DEF WaitingFor
<1>8. \A b \in Asks : ask'[b].step = "waiting" => ask'[b].dir \in Places
  BY <1>1 DEF Registered
<1>9. ASSUME NEW e \in Places
      PROVE  /\ \A i, j \in DOMAIN waiters'[e] : waiters'[e][i] = waiters'[e][j] => i = j
             /\ {waiters'[e][i] : i \in DOMAIN waiters'[e]} = WaitingFor(ask', e)
             /\ waiters'[e] # <<>> => shown'[e] = NoSource
  <2> DEFINE t == waiters'[e]
  <2>1. CASE e = d
    <3>1. t = new /\ shown'[e] = NoSource /\ WaitingFor(ask', e) = WaitingFor(ask, d) \cup {a}
      BY <1>5, <1>6, <2>1
    <3> HIDE DEF t, w
    <3>2. \A i, j \in DOMAIN t : t[i] = t[j] => i = j
      BY <1>4, <3>1
    <3>3. {new[i] : i \in DOMAIN new} = WaitingFor(ask', e)
      BY <1>2, <1>4, <3>1
    <3>4. {t[i] : i \in DOMAIN t} = {new[i] : i \in DOMAIN new}
      BY <3>1
    <3> QED
      BY <3>1, <3>2, <3>3, <3>4 DEF t
  <2>2. CASE e # d
    <3>0. t = waiters[e] /\ shown'[e] = shown[e] /\ WaitingFor(ask', e) = WaitingFor(ask, e)
      BY <1>5, <1>7, <2>2
    <3>1. /\ \A i, j \in DOMAIN waiters[e] : waiters[e][i] = waiters[e][j] => i = j
          /\ {waiters[e][i] : i \in DOMAIN waiters[e]} = WaitingFor(ask, e)
          /\ waiters[e] # <<>> => shown[e] = NoSource
      BY DEF Registered
    <3> HIDE DEF t
    <3>2. /\ \A i, j \in DOMAIN t : t[i] = t[j] => i = j
          /\ {t[i] : i \in DOMAIN t} = WaitingFor(ask', e)
          /\ t # <<>> => shown'[e] = NoSource
      BY <3>0, <3>1
    <3> QED
      BY <3>2 DEF t
  <2> QED
    BY <2>1, <2>2
<1> QED
  BY <1>5, <1>8, <1>9 DEF Registered, WaitingFor, Places, Language!Dirs

LEMMA MirrorPlace ==
  ASSUME AsksFinite, MirrorTypes, AskTypes, mirror.dir # 0
  PROVE  mirror.dir \in Places
<1>1. /\ directories <= Cardinality(Finishing(ask)) /\ mirror.dir \in Nat /\ mirror.dir <= directories
      /\ directories \in Nat
  BY DEF MirrorTypes, AskTypes, LspMirrors
<1>2. Cardinality(Finishing(ask)) <= Cardinality(Asks) /\ Cardinality(Finishing(ask)) \in Nat
  <2>1. Finishing(ask) \in SUBSET Asks /\ IsFiniteSet(Asks)
    BY DEF Finishing, AsksFinite
  <2> QED
    BY <2>1, FS_Subset, FS_CardinalityType
<1> QED
  BY <1>1, <1>2, DirsAre

\* What is kept of diagnostics leaves the mirror as it is otherwise.
LEMMA KeepIs ==
  ASSUME mirror \in LspMirrors, NEW waiting \in Seq(Asks), NEW about \in LspTexts,
         ask \in [Asks -> LspAsks]
  PROVE  /\ Language!Keep(waiting, about) \in LspMirrors
         /\ Language!Keep(waiting, about).dir = mirror.dir
         /\ Language!Keep(waiting, about).revision = mirror.revision
         /\ Language!Keep(waiting, about).text = mirror.text
<1> DEFINE I == {i \in DOMAIN waiting : Language!Keeps(waiting[i])}
           keeping == Select(waiting, I)
<1>1. keeping \in Seq(Asks)
  <2>1. I \in SUBSET DOMAIN waiting
    OBVIOUS
  <2> HIDE DEF I
  <2> QED
    BY <2>1, Selected
<1>2. keeping = Language!Select(waiting, I)
  BY
     DEF Language!Select, Select, Language!Nth, Nth, Language!RankIn, RankIn, Language!Cardinality,
         Cardinality
<1>3. CASE keeping = <<>>
  BY <1>2, <1>3 DEF Language!Keep
<1>4. CASE keeping # <<>>
  <2> DEFINE last == keeping[Len(keeping)]
             kept == [text |-> ask[last].text, about |-> about]
  <2>1. last \in Asks
    <3> HIDE DEF keeping
    <3> QED
      BY <1>1, <1>4
  <2>2. Language!Last(keeping) = last
    BY DEF Language!Last
  <2> HIDE DEF last
  <2>3. ask[last].text \in LspTexts
    BY <2>1 DEF LspAsks
  <2>4. kept \in KeptTexts
    BY <2>3 DEF KeptTexts
  <2>5. Language!Keep(waiting, about) = [mirror EXCEPT !.kept = kept]
    BY <1>2, <1>4, <2>2 DEF Language!Keep
  <2> HIDE DEF kept
  <2> QED
    BY <2>4, <2>5 DEF LspMirrors
<1> QED
  BY <1>3, <1>4

\* A request that waited too long is taken out, and only that one.
LEMMA RegisteredLess ==
  ASSUME Registered, ask \in [Asks -> LspAsks], NEW a \in Asks, Language!TimeOut(a)
  PROVE  Registered'
<1> DEFINE d == ask[a].dir
           w == waiters[d]
           I == {i \in DOMAIN w : w[i] # a}
           new == Select(w, I)
           q == Language!AtRest("done")
<1>1. q \in LspAsks /\ q.step = "done"
  BY RestIs DEF LspSteps
<1>2. ask[a].step = "waiting" /\ d \in Places /\ ask' = [ask EXCEPT ![a] = q] /\ shown' = shown
  BY DEF Language!TimeOut, Registered
<1>3. waiters' = [waiters EXCEPT ![d] = new]
  <2>1. new = Language!Select(w, I)
    BY
       DEF Language!Select, Select, Language!Nth, Nth, Language!RankIn, RankIn,
           Language!Cardinality, Cardinality
  <2> QED
    BY <2>1 DEF Language!TimeOut
<1>4. ask'[a].step = "done" /\ \A b \in Asks : b # a => ask'[b] = ask[b]
  BY <1>1, <1>2
<1> HIDE DEF q, d
<1>5. /\ w \in Seq(Asks) /\ (\A i, j \in DOMAIN w : w[i] = w[j] => i = j)
      /\ {w[i] : i \in DOMAIN w} = WaitingFor(ask, d) /\ (w # <<>> => shown[d] = NoSource)
  BY <1>2 DEF Registered
<1> HIDE DEF w
<1>6. /\ new \in Seq(Asks) /\ {new[k] : k \in DOMAIN new} = {w[i] : i \in DOMAIN w} \ {a}
      /\ \A k, l \in DOMAIN new : new[k] = new[l] => k = l
      /\ w = <<>> => new = <<>>
  <2>1. I \in SUBSET DOMAIN w
    OBVIOUS
  <2>2. \A i \in DOMAIN w : i \in I <=> w[i] # a
    OBVIOUS
  <2> HIDE DEF I
  <2>3. /\ new \in Seq(Asks) /\ Len(new) = Cardinality(I) /\ Cardinality(I) \in Nat
        /\ \A k \in 1..Cardinality(I) : Nth(I, k) \in I /\ new[k] = w[Nth(I, k)]
        /\ \A i \in I : \E k \in 1..Cardinality(I) : Nth(I, k) = i
        /\ \A k, l \in 1..Cardinality(I) : Nth(I, k) = Nth(I, l) => k = l
    BY <1>5, <2>1, Selected
  <2> HIDE DEF new
  <2>4. DOMAIN new = 1..Cardinality(I)
    BY <2>3
  <2>5. \A k \in DOMAIN new : new[k] \in {w[i] : i \in DOMAIN w} \ {a}
    BY <2>1, <2>2, <2>3, <2>4
  <2>6. \A i \in DOMAIN w : w[i] # a => \E k \in DOMAIN new : new[k] = w[i]
    BY <2>2, <2>3, <2>4
  <2>7. \A k, l \in DOMAIN new : new[k] = new[l] => k = l
    <3> SUFFICES ASSUME NEW k \in DOMAIN new, NEW l \in DOMAIN new, new[k] = new[l] PROVE k = l
      OBVIOUS
    <3>1. w[Nth(I, k)] = w[Nth(I, l)] /\ Nth(I, k) \in DOMAIN w /\ Nth(I, l) \in DOMAIN w
      BY <2>1, <2>3, <2>4
    <3>2. Nth(I, k) = Nth(I, l)
      BY <1>5, <3>1
    <3> QED
      BY <2>3, <2>4, <3>2
  <2>8. w = <<>> => new = <<>>
    <3> SUFFICES ASSUME w = <<>> PROVE new = <<>>
      OBVIOUS
    <3>1. DOMAIN new = {}
      BY <2>5
    <3> QED
      BY <2>3, <3>1
  <2>9. {new[k] : k \in DOMAIN new} = {w[i] : i \in DOMAIN w} \ {a}
    BY <2>5, <2>6
  <2> QED
    BY <2>3, <2>7, <2>8, <2>9
<1> HIDE DEF new
<1>7. /\ waiters' \in [Places -> Seq(Asks)] /\ waiters'[d] = new
      /\ \A e \in Places : e # d => waiters'[e] = waiters[e]
  BY <1>2, <1>3, <1>6 DEF Registered
<1>8. WaitingFor(ask', d) = WaitingFor(ask, d) \ {a}
  BY <1>4 DEF WaitingFor
<1>9. \A e \in Places : e # d => WaitingFor(ask', e) = WaitingFor(ask, e)
  BY <1>4 DEF WaitingFor, d
<1>10. \A b \in Asks : ask'[b].step = "waiting" => ask'[b].dir \in Places
  BY <1>4 DEF Registered
<1>11. ASSUME NEW e \in Places
       PROVE  /\ \A i, j \in DOMAIN waiters'[e] : waiters'[e][i] = waiters'[e][j] => i = j
              /\ {waiters'[e][i] : i \in DOMAIN waiters'[e]} = WaitingFor(ask', e)
              /\ waiters'[e] # <<>> => shown'[e] = NoSource
  <2> DEFINE t == waiters'[e]
  <2>1. CASE e = d
    <3>1. t = new /\ shown'[e] = shown[d] /\ WaitingFor(ask', e) = WaitingFor(ask, d) \ {a}
      BY <1>2, <1>7, <1>8, <2>1
    <3> HIDE DEF t
    <3>2. \A i, j \in DOMAIN t : t[i] = t[j] => i = j
      BY <1>6, <3>1
    <3>3. {new[i] : i \in DOMAIN new} = WaitingFor(ask', e)
      BY <1>5, <1>6, <3>1
    <3>4. {t[i] : i \in DOMAIN t} = {new[i] : i \in DOMAIN new} /\ (t # <<>> => shown'[e] = NoSource)
      BY <1>5, <1>6, <3>1
    <3> QED
      BY <3>2, <3>3, <3>4 DEF t
  <2>2. CASE e # d
    <3>1. t = waiters[e] /\ shown'[e] = shown[e] /\ WaitingFor(ask', e) = WaitingFor(ask, e)
      BY <1>2, <1>7, <1>9, <2>2
    <3>2. /\ \A i, j \in DOMAIN waiters[e] : waiters[e][i] = waiters[e][j] => i = j
          /\ {waiters[e][i] : i \in DOMAIN waiters[e]} = WaitingFor(ask, e)
          /\ waiters[e] # <<>> => shown[e] = NoSource
      BY DEF Registered
    <3> HIDE DEF t
    <3>3. /\ \A i, j \in DOMAIN t : t[i] = t[j] => i = j
          /\ {t[i] : i \in DOMAIN t} = WaitingFor(ask', e)
          /\ t # <<>> => shown'[e] = NoSource
      BY <3>1, <3>2
    <3> QED
      BY <3>3 DEF t
  <2> QED
    BY <2>1, <2>2
<1> QED
  BY <1>7, <1>10, <1>11 DEF Registered, WaitingFor, Places, Language!Dirs

LEMMA LastStays ==
  ASSUME NEW X, NEW s \in Seq(X), NEW i \in DOMAIN s
  PROVE  /\ SubSeq(s, i, Len(s)) \in Seq(X) /\ SubSeq(s, i, Len(s)) # <<>>
         /\ SubSeq(s, i, Len(s))[Len(SubSeq(s, i, Len(s)))] = s[Len(s)]
         /\ s # <<>> /\ s[i] \in X
<1> DEFINE t == SubSeq(s, i, Len(s))
           n == Len(s)
<1>1. n \in Nat /\ i \in 1..n /\ n \in 1..n /\ s[i] \in X
  OBVIOUS
<1>2. t \in Seq(X) /\ Len(t) = n - i + 1 /\ \A k \in 1..(n - i + 1) : t[k] = s[i + k - 1]
  BY <1>1, SubSeqProperties
<1>3. Len(t) \in 1..(n - i + 1) /\ i + Len(t) - 1 = n
  BY <1>1, <1>2
<1>4. t[Len(t)] = s[n]
  BY <1>2, <1>3
<1>5. t # <<>> /\ s # <<>>
  BY <1>1, <1>3
<1> QED
  BY <1>1, <1>2, <1>4, <1>5

\* The server publishes: everybody who waits for the file is answered.
LEMMA PublishKeeps ==
  ASSUME AsksFinite, LspInv, NEW p \in 1..spawned, NEW d \in Places, NEW i \in DOMAIN opened[p][d],
         Language!Publish(p, d, i)
  PROVE  LspInv'
<1>1. ServerTypes /\ FileTypes /\ MirrorTypes /\ AskTypes /\ NothingSentBefore /\ SentIsMirrored /\ Registered
  BY DEF LspInv, LspBase
<1> DEFINE old == opened[p][d]
           new == SubSeq(old, i, Len(old))
           row == [opened[p] EXCEPT ![d] = new]
           w == waiters[d]
<1>2. p \in Processed /\ opened[p] \in [Places -> Seq(LspTexts)] /\ old \in Seq(LspTexts)
  <2>1. p \in Processed
    BY <1>1 DEF ServerTypes, AsksFinite, Processed, Language!Processes
  <2> QED
    BY <1>1, <2>1 DEF ServerTypes
<1>3. new \in Seq(LspTexts) /\ new # <<>> /\ new[Len(new)] = old[Len(old)] /\ old # <<>> /\ old[i] \in LspTexts
  <2> DEFINE X == LspTexts
  <2>1. old \in Seq(X) /\ i \in DOMAIN old
    BY <1>2
  <2> HIDE DEF X, old
  <2>2. new \in Seq(X) /\ new # <<>> /\ new[Len(new)] = old[Len(old)] /\ old # <<>> /\ old[i] \in X
    BY <2>1, LastStays
  <2> QED
    BY <2>2 DEF X, old
<1>4. /\ opened' = [opened EXCEPT ![p] = row] /\ shown' = [shown EXCEPT ![d] = old[i]]
      /\ waiters' = [waiters EXCEPT ![d] = <<>>]
      /\ mirror' = Language!Keep(w, old[i])
      /\ UNCHANGED <<spawned, proc, versions, directories, revisions>>
  BY DEF Language!Publish, Language!processVars
<1>5. ask' = [a \in Asks |-> IF a \in {w[j] : j \in DOMAIN w} THEN Language!AtRest("done") ELSE ask[a]]
  BY DEF Language!Publish, Language!ToSet
<1> HIDE DEF new
<1>6. row \in [Places -> Seq(LspTexts)] /\ row[d] = new /\ \A e \in Places : e # d => row[e] = opened[p][e]
  BY <1>2, <1>3
<1> HIDE DEF row
<1>7. /\ opened' \in [Processed -> [Places -> Seq(LspTexts)]] /\ opened'[p] = row
      /\ \A c \in Processed : c # p => opened'[c] = opened[c]
  BY <1>1, <1>2, <1>4, <1>6 DEF ServerTypes
<1>8. ServerTypes' /\ FileTypes'
  BY <1>1, <1>3, <1>4, <1>7
     DEF ServerTypes, FileTypes, Processed, Language!Processes, Places, Language!Dirs
<1>9. w \in Seq(Asks) /\ {w[j] : j \in DOMAIN w} = WaitingFor(ask, d)
  BY <1>1 DEF Registered
<1>10. /\ mirror' \in LspMirrors /\ mirror'.dir = mirror.dir
       /\ mirror'.revision = mirror.revision /\ mirror'.text = mirror.text
  <2> HIDE DEF w, old
  <2> QED
    BY <1>1, <1>3, <1>4, <1>9, KeepIs DEF MirrorTypes, AskTypes
<1>11. MirrorTypes'
  BY <1>1, <1>4, <1>10 DEF MirrorTypes
<1>12. /\ ask' \in [Asks -> LspAsks]
       /\ \A a \in Asks : IF a \in WaitingFor(ask, d) THEN ask'[a].step = "done" ELSE ask'[a] = ask[a]
  <2>1. Language!AtRest("done") \in LspAsks /\ Language!AtRest("done").step = "done"
    BY RestIs DEF LspSteps
  <2>2. ask' = [a \in Asks |-> IF a \in WaitingFor(ask, d) THEN Language!AtRest("done") ELSE ask[a]]
    BY <1>5, <1>9
  <2> QED
    BY <1>1, <2>1, <2>2 DEF AskTypes
<1>13. AskTypes'
  <2>1. Finishing(ask') = Finishing(ask)
    BY <1>12 DEF Finishing, WaitingFor
  <2>2. \A a \in Asks : ask'[a].step \in {"loading", "starting"} => ask'[a].revision # 0
    BY <1>1, <1>12 DEF AskTypes
  <2>3. directories' <= Cardinality(Finishing(ask'))
    BY <1>1, <1>4, <2>1 DEF AskTypes
  <2> QED
    BY <1>12, <2>2, <2>3 DEF AskTypes, Finishing
<1>14. NothingSentBefore'
  <2> SUFFICES ASSUME NEW c \in Processed, c > spawned, NEW e \in Places PROVE opened'[c][e] = <<>>
    BY <1>4 DEF NothingSentBefore, Processed, Language!Processes, Places, Language!Dirs
  <2>1. c # p
    BY <1>1 DEF ServerTypes, AsksFinite
  <2> QED
    BY <1>1, <1>7, <2>1 DEF NothingSentBefore
<1>15. SentIsMirrored'
  <2> SUFFICES ASSUME proc # 0, mirror.dir # 0, opened'[proc][mirror.dir] # <<>>
               PROVE  opened'[proc][mirror.dir][Len(opened'[proc][mirror.dir])] = mirror.text
    BY <1>4, <1>10 DEF SentIsMirrored
  <2>1. proc \in Processed
    BY <1>1 DEF ServerTypes, AsksFinite, Processed, Language!Processes
  <2>2. mirror.dir \in Places
    BY <1>1, MirrorPlace
  <2>3. CASE proc = p /\ mirror.dir = d
    <3>1. opened'[proc][mirror.dir] = new
      BY <1>6, <1>7, <2>3
    <3>2. old[Len(old)] = mirror.text
      BY <1>1, <1>3, <2>3 DEF SentIsMirrored
    <3> QED
      BY <1>3, <3>1, <3>2
  <2>4. CASE ~(proc = p /\ mirror.dir = d)
    <3>1. opened'[proc][mirror.dir] = opened[proc][mirror.dir]
      BY <1>6, <1>7, <2>1, <2>2, <2>4
    <3> QED
      BY <1>1, <3>1 DEF SentIsMirrored
  <2> QED
    BY <2>3, <2>4
<1>16. Registered'
  <2>1. waiters' \in [Places -> Seq(Asks)] /\ waiters'[d] = <<>> /\ \A e \in Places : e # d => waiters'[e] = waiters[e]
    BY <1>1, <1>4 DEF Registered
  <2>2. WaitingFor(ask', d) = {}
    BY <1>12 DEF WaitingFor
  <2>3. \A e \in Places : e # d => WaitingFor(ask', e) = WaitingFor(ask, e) /\ shown'[e] = shown[e]
    BY <1>1, <1>4, <1>12 DEF WaitingFor, FileTypes
  <2>4. \A b \in Asks : ask'[b].step = "waiting" => ask'[b].dir \in Places
    BY <1>1, <1>12 DEF Registered
  <2>5. ASSUME NEW e \in Places
        PROVE  /\ \A j, k \in DOMAIN waiters'[e] : waiters'[e][j] = waiters'[e][k] => j = k
               /\ {waiters'[e][j] : j \in DOMAIN waiters'[e]} = WaitingFor(ask', e)
               /\ waiters'[e] # <<>> => shown'[e] = NoSource
    <3> DEFINE t == waiters'[e]
    <3>1. CASE e = d
      <4>1. t = <<>> /\ WaitingFor(ask', e) = {}
        BY <2>1, <2>2, <3>1
      <4> HIDE DEF t
      <4>2. DOMAIN t = {} /\ {t[j] : j \in DOMAIN t} = WaitingFor(ask', e)
        BY <4>1
      <4> QED
        BY <4>1, <4>2 DEF t
    <3>2. CASE e # d
      <4>1. t = waiters[e] /\ shown'[e] = shown[e] /\ WaitingFor(ask', e) = WaitingFor(ask, e)
        BY <2>1, <2>3, <3>2
      <4>2. /\ \A j, k \in DOMAIN waiters[e] : waiters[e][j] = waiters[e][k] => j = k
            /\ {waiters[e][j] : j \in DOMAIN waiters[e]} = WaitingFor(ask, e)
            /\ waiters[e] # <<>> => shown[e] = NoSource
        BY <1>1 DEF Registered
      <4> HIDE DEF t
      <4>3. /\ \A j, k \in DOMAIN t : t[j] = t[k] => j = k
            /\ {t[j] : j \in DOMAIN t} = WaitingFor(ask', e)
            /\ t # <<>> => shown'[e] = NoSource
        BY <4>1, <4>2
      <4> QED
        BY <4>3 DEF t
    <3> QED
      BY <3>1, <3>2
  <2> QED
    BY <2>1, <2>4, <2>5 DEF Registered, WaitingFor, Places, Language!Dirs
<1> QED
  BY <1>8, <1>11, <1>13, <1>14, <1>15, <1>16 DEF LspInv, LspBase

\* A request that is answered, or loads its files, does not wait.
LEMMA RegisteredWithout ==
  ASSUME Registered, ask \in [Asks -> LspAsks], revisions \in Nat, NEW a \in Asks, ask[a].step # "waiting",
         Language!Answer(a) \/ \E r \in LspAsks : Language!LoadFiles(a, r),
         \A d \in Places : shown[d] = NoSource => shown'[d] = NoSource
  PROVE  Registered'
<1> DEFINE q == ask'[a]
<1>1. CASE Language!Answer(a)
  <2>1. ask' = [ask EXCEPT ![a] = Language!AtRest("done")] /\ waiters' = waiters
    BY <1>1 DEF Language!Answer
  <2>2. Language!AtRest("done") \in LspAsks /\ Language!AtRest("done").step # "waiting"
    BY RestIs DEF LspSteps
  <2> QED
    BY <2>1, <2>2, RegisteredStays
<1>2. CASE \E r \in LspAsks : Language!LoadFiles(a, r)
  <2>1. PICK r \in LspAsks : Language!LoadFiles(a, r)
    BY <1>2
  <2> DEFINE l == [r EXCEPT !.step = "loading", !.revision = revisions]
  <2>2. ask' = [ask EXCEPT ![a] = l] /\ waiters' = waiters
    BY <2>1 DEF Language!LoadFiles
  <2>3. l \in LspAsks /\ l.step # "waiting"
    BY DEF LspAsks, LspSteps
  <2> HIDE DEF l
  <2> QED
    BY <2>2, <2>3, RegisteredStays
<1> QED
  BY <1>1, <1>2

LEMMA StartedRegistered ==
  ASSUME AsksFinite, LspInv, proc # 0, NEW a \in Asks, ask[a].step \notin {"waiting", "done"},
         Sending(a) \/ NotSending(a)
  PROVE  Registered'
<1>1. /\ ServerTypes /\ FileTypes /\ Registered /\ ask \in [Asks -> LspAsks] /\ revisions \in Nat
      /\ ask[a].step # "waiting"
  BY DEF LspInv, LspBase, AskTypes, MirrorTypes
<1>2. CASE Sending(a)
  <2>1. PICK d \in Places, words \in LspTexts, r \in LspAsks :
          Language!Send(words, d) /\ (Language!Answer(a) \/ Language!Wait(a, r, d))
    BY <1>2 DEF Sending
  <2>2. shown'[d] = NoSource /\ \A e \in Places : e # d => shown'[e] = shown[e]
    BY <1>1, <2>1, SendIs
  <2>3. CASE Language!Answer(a)
    BY <1>1, <2>2, <2>3, RegisteredWithout
  <2>4. CASE Language!Wait(a, r, d)
    <3> DEFINE q == [r EXCEPT !.step = "waiting", !.dir = d]
    <3>1. ask' = [ask EXCEPT ![a] = q] /\ waiters' = [waiters EXCEPT ![d] = Append(waiters[d], a)]
      BY <2>4 DEF Language!Wait
    <3>2. d \in Nat
      BY DirsAre
    <3>3. q \in LspAsks /\ q.step = "waiting" /\ q.dir = d
      BY <3>2 DEF LspAsks, LspSteps
    <3> HIDE DEF q
    <3> QED
      BY <1>1, <2>2, <3>1, <3>3, RegisteredLast
  <2> QED
    BY <2>1, <2>3, <2>4
<1>3. CASE NotSending(a)
  BY <1>1, <1>3, RegisteredWithout DEF NotSending
<1> QED
  BY <1>2, <1>3

LEMMA LspStarted ==
  ASSUME AsksFinite, LspInv, proc # 0, NEW a \in Asks, ask[a].step \notin {"waiting", "done"},
         NEW r \in LspAsks, r.revision # 0, Language!Started(a, r), UNCHANGED <<spawned, proc, revisions>>
  PROVE  LspInv'
<1>1. LspBase /\ NothingSentBefore /\ SentIsMirrored
  BY DEF LspInv
<1>2. Sending(a) \/ NotSending(a)
  BY <1>1, StartedDoes
<1>3. LspBase' /\ NothingSentBefore' /\ SentIsMirrored'
  BY <1>1, <1>2, StartedBase
<1>4. Registered'
  BY <1>2, StartedRegistered
<1> QED
  BY <1>3, <1>4 DEF LspInv

\* A process is spawned for a request, which waits for it to be ready.
LEMMA LspSpawned ==
  ASSUME AsksFinite, LspInv, NEW a \in Asks, ask[a].step \notin {"waiting", "done"},
         NEW r \in LspAsks, r.revision # 0, spawned < MaxSpawned, spawned' = spawned + 1, proc' = spawned',
         ask' = [ask EXCEPT ![a] = [r EXCEPT !.step = "starting", !.pid = spawned']],
         UNCHANGED <<opened, versions, shown, waiters, mirror, directories, revisions>>
  PROVE  LspInv'
<1> DEFINE q == [r EXCEPT !.step = "starting", !.pid = spawned + 1]
<1>1. ServerTypes /\ FileTypes /\ MirrorTypes /\ AskTypes /\ NothingSentBefore /\ SentIsMirrored /\ Registered
  BY DEF LspInv, LspBase
<1>2. spawned \in Nat /\ spawned + 1 \in 1..MaxSpawned /\ MaxSpawned \in Nat
  BY <1>1 DEF ServerTypes, AsksFinite
<1>3. q \in LspAsks /\ q.step = "starting" /\ q.revision = r.revision /\ ask' = [ask EXCEPT ![a] = q]
  <2>1. q \in LspAsks
    <3> DEFINE n == spawned + 1
    <3>1. n \in Nat
      BY <1>2
    <3> HIDE DEF n
    <3>2. [r EXCEPT !.step = "starting", !.pid = n] \in LspAsks
      BY <3>1 DEF LspAsks, LspSteps
    <3> QED
      BY <3>2 DEF n
  <2>2. q.step = "starting" /\ q.revision = r.revision
    BY DEF LspAsks
  <2>3. ask' = [ask EXCEPT ![a] = q]
    OBVIOUS
  <2> QED
    BY <2>1, <2>2, <2>3
<1> HIDE DEF q
<1>4. ServerTypes' /\ FileTypes' /\ MirrorTypes'
  BY <1>1, <1>2
     DEF ServerTypes, FileTypes, MirrorTypes, Processed, Language!Processes, Places, Language!Dirs
<1>5. AskTypes'
  <2>1. ask \in [Asks -> LspAsks] /\ directories \in Nat /\ directories <= Cardinality(Finishing(ask))
    BY <1>1 DEF AskTypes, MirrorTypes
  <2>2. /\ ask' \in [Asks -> LspAsks]
        /\ Cardinality(Finishing(ask)) \in Nat /\ Cardinality(Finishing(ask')) \in Nat
        /\ Cardinality(Finishing(ask)) <= Cardinality(Finishing(ask'))
    BY <1>3, <2>1, FinishingChanges
  <2>3. \A b \in Asks : ask'[b].step \in {"loading", "starting"} => ask'[b].revision # 0
    <3>1. ask'[a] = q /\ \A b \in Asks : b # a => ask'[b] = ask[b]
      BY <1>3, <2>1
    <3> QED
      BY <1>1, <1>3, <3>1 DEF AskTypes
  <2>4. directories' <= Cardinality(Finishing(ask'))
    BY <2>1, <2>2
  <2> QED
    BY <2>2, <2>3, <2>4 DEF AskTypes, Finishing
<1>6. NothingSentBefore'
  BY <1>1, <1>2 DEF NothingSentBefore, Processed, Language!Processes, Places, Language!Dirs
<1>7. SentIsMirrored'
  <2> SUFFICES ASSUME mirror.dir # 0 PROVE opened[spawned + 1][mirror.dir] = <<>>
    BY DEF SentIsMirrored
  <2>1. spawned + 1 \in Processed /\ spawned + 1 > spawned
    BY <1>2 DEF Processed, Language!Processes
  <2>2. mirror.dir \in Places
    BY <1>1, MirrorPlace
  <2> QED
    BY <1>1, <2>1, <2>2 DEF NothingSentBefore
<1>8. Registered'
  BY <1>1, <1>3, RegisteredStays DEF AskTypes
<1> QED
  BY <1>4, <1>5, <1>6, <1>7, <1>8 DEF LspInv, LspBase

LEMMA LspEnsured ==
  ASSUME AsksFinite, LspInv, NEW a \in Asks, ask[a].step \notin {"waiting", "done"},
         NEW r \in LspAsks, r.revision # 0, Language!EnsureStarted(a, r)
  PROVE  LspInv'
<1>1. CASE proc # 0 /\ initialized
  <2>1. Language!Started(a, r) /\ UNCHANGED <<spawned, proc, revisions>>
    BY <1>1 DEF Language!EnsureStarted, Language!processVars
  <2> QED
    BY <1>1, <2>1, LspStarted
<1>2. CASE ~(proc # 0 /\ initialized)
  <2>1. /\ spawned < MaxSpawned /\ spawned' = spawned + 1 /\ proc' = spawned'
        /\ ask' = [ask EXCEPT ![a] = [r EXCEPT !.step = "starting", !.pid = spawned']]
        /\ UNCHANGED <<opened, versions, shown, waiters, mirror, directories, revisions>>
    BY <1>2 DEF Language!EnsureStarted
  <2> QED
    BY <2>1, LspSpawned
<1> QED
  BY <1>1, <1>2

\* A request is answered, or loads its files, and the client may lose its
\* process.
LEMMA LspAside ==
  ASSUME AsksFinite, LspInv, NEW a \in Asks, ask[a].step \notin {"waiting", "done"},
         Language!Answer(a) \/ \E r \in LspAsks : Language!LoadFiles(a, r),
         proc' \in {proc, 0}, UNCHANGED <<spawned, opened, versions, shown, mirror, directories, revisions>>
  PROVE  LspInv'
<1>1. ServerTypes /\ FileTypes /\ MirrorTypes /\ AskTypes /\ NothingSentBefore /\ SentIsMirrored /\ Registered
  BY DEF LspInv, LspBase
<1>2. ServerTypes' /\ FileTypes' /\ MirrorTypes' /\ NothingSentBefore' /\ SentIsMirrored'
  BY <1>1
     DEF ServerTypes, FileTypes, MirrorTypes, NothingSentBefore, SentIsMirrored, Processed, Language!Processes,
         Places, Language!Dirs
<1>3. AskTypes'
  <2>1. CASE Language!Answer(a)
    <3>1. ask[a] \in LspAsks /\ directories \in Nat
      BY <1>1 DEF AskTypes, MirrorTypes
    <3>2. /\ ask' \in [Asks -> LspAsks]
          /\ \A b \in Asks : ask'[b].step \in {"loading", "starting"} => ask'[b].revision # 0
          /\ Cardinality(Finishing(ask')) \in Nat
          /\ directories + 1 <= Cardinality(Finishing(ask'))
      <4>1. PICK r \in LspAsks : r = ask[a]
        BY <3>1
      <4>2. 0 \in Nat
        OBVIOUS
      <4> QED
        BY <1>1, <2>1, <3>1, <4>1, <4>2, AskSteps
    <3>3. directories' <= Cardinality(Finishing(ask'))
      BY <3>1, <3>2
    <3> QED
      BY <3>2, <3>3 DEF AskTypes, Finishing
  <2>2. CASE \E r \in LspAsks : Language!LoadFiles(a, r)
    BY <1>1, <2>2, LoadSteps
  <2> QED
    BY <2>1, <2>2
<1>4. Registered'
  BY <1>1, RegisteredWithout DEF AskTypes, MirrorTypes
<1> QED
  BY <1>2, <1>3, <1>4 DEF LspInv, LspBase

LEMMA LspTimeOut ==
  ASSUME AsksFinite, LspInv, NEW a \in Asks, Language!TimeOut(a)
  PROVE  LspInv'
<1>1. ServerTypes /\ FileTypes /\ MirrorTypes /\ AskTypes /\ NothingSentBefore /\ SentIsMirrored /\ Registered
  BY DEF LspInv, LspBase
<1>2. Registered'
  BY <1>1, RegisteredLess DEF AskTypes
<1>3. /\ ask[a].step = "waiting" /\ ask' = [ask EXCEPT ![a] = Language!AtRest("done")]
      /\ mirror' = Language!Keep(<<a>>, shown[ask[a].dir])
      /\ UNCHANGED <<spawned, proc, opened, versions, shown, directories, revisions>>
  BY DEF Language!TimeOut, Language!processVars
<1>4. shown[ask[a].dir] \in LspTexts
  BY <1>1, <1>3 DEF FileTypes, Registered
<1>5. /\ mirror' \in LspMirrors /\ mirror'.dir = mirror.dir
      /\ mirror'.revision = mirror.revision /\ mirror'.text = mirror.text
  <2>1. <<a>> \in Seq(Asks)
    OBVIOUS
  <2> QED
    BY <1>1, <1>3, <1>4, <2>1, KeepIs DEF MirrorTypes, AskTypes
<1>6. ServerTypes' /\ FileTypes' /\ MirrorTypes' /\ NothingSentBefore' /\ SentIsMirrored'
  BY <1>1, <1>3, <1>5
     DEF ServerTypes, FileTypes, MirrorTypes, NothingSentBefore, SentIsMirrored, Processed, Language!Processes,
         Places, Language!Dirs
<1>7. AskTypes'
  <2>1. Language!AtRest("done") \in LspAsks /\ Language!AtRest("done").step = "done"
    BY RestIs DEF LspSteps
  <2>2. /\ ask' \in [Asks -> LspAsks] /\ ask'[a].step = "done"
        /\ \A b \in Asks : b # a => ask'[b] = ask[b]
    BY <1>1, <1>3, <2>1 DEF AskTypes
  <2>3. Finishing(ask') = Finishing(ask)
    BY <1>3, <2>2 DEF Finishing
  <2>4. \A b \in Asks : ask'[b].step \in {"loading", "starting"} => ask'[b].revision # 0
    BY <1>1, <2>2 DEF AskTypes
  <2>5. directories' <= Cardinality(Finishing(ask'))
    BY <1>1, <1>3, <2>3 DEF AskTypes
  <2> QED
    BY <2>2, <2>4, <2>5 DEF AskTypes, Finishing
<1> QED
  BY <1>2, <1>6, <1>7 DEF LspInv, LspBase

LEMMA LspExit ==
  ASSUME AsksFinite, LspInv, NEW p \in 1..spawned, Language!Exit(p)
  PROVE  LspInv'
<1>1. ServerTypes /\ FileTypes /\ MirrorTypes /\ AskTypes /\ NothingSentBefore /\ SentIsMirrored /\ Registered
  BY DEF LspInv, LspBase
<1>2. /\ proc' = 0 /\ opened' = [opened EXCEPT ![p] = [d \in Places |-> <<>>]]
      /\ UNCHANGED <<spawned, versions, shown, waiters, mirror, directories, revisions, ask>>
  BY DEF Language!Exit, Places
<1>3. <<>> \in Seq(LspTexts)
  OBVIOUS
<1>4. opened' \in [Processed -> [Places -> Seq(LspTexts)]]
  BY <1>1, <1>2, <1>3 DEF ServerTypes
<1>5. ServerTypes' /\ FileTypes' /\ MirrorTypes' /\ SentIsMirrored'
  BY <1>1, <1>2, <1>4
     DEF ServerTypes, FileTypes, MirrorTypes, SentIsMirrored, Processed, Language!Processes, Places, Language!Dirs
<1>6. NothingSentBefore'
  <2> SUFFICES ASSUME NEW c \in Processed, c > spawned, NEW e \in Places PROVE opened'[c][e] = <<>>
    BY <1>2 DEF NothingSentBefore, Processed, Language!Processes, Places, Language!Dirs
  <2>1. c # p
    BY <1>1 DEF ServerTypes, AsksFinite
  <2> QED
    BY <1>1, <1>2, <2>1 DEF NothingSentBefore, ServerTypes
<1>7. AskTypes' /\ Registered'
  BY <1>1, <1>2 DEF AskTypes, Finishing, Registered, WaitingFor, Places, Language!Dirs
<1> QED
  BY <1>5, <1>6, <1>7 DEF LspInv, LspBase

LEMMA LspRevise ==
  ASSUME LspInv, Language!Revise \/ UNCHANGED lspVars
  PROVE  LspInv'
<1>1. /\ revisions' \in {revisions, revisions + 1}
      /\ UNCHANGED <<spawned, proc, opened, versions, shown, waiters, mirror, directories, ask>>
  BY DEF Language!Revise, Language!processVars, lspVars
<1> QED
  BY <1>1
     DEF LspInv, LspBase, ServerTypes, FileTypes, MirrorTypes, AskTypes, NothingSentBefore, SentIsMirrored,
         Registered, Finishing, WaitingFor, Processed, Language!Processes, Places, Language!Dirs

LEMMA LspStep ==
  ASSUME AsksFinite, LspInv, Language!Next \/ UNCHANGED lspVars
  PROVE  LspInv'
<1>1. /\ ask \in [Asks -> LspAsks] /\ revisions \in Nat /\ revisions # 0
      /\ \A a \in Asks : ask[a].step \in {"loading", "starting"} => ask[a].revision # 0
  BY DEF LspInv, LspBase, AskTypes, MirrorTypes
<1>2. ASSUME NEW a \in Asks, NEW words \in Sources, Language!Diagnostics(a, words)
      PROVE  LspInv'
  <2> DEFINE r == [ask[a] EXCEPT !.text = words, !.revision = revisions]
             i == [r EXCEPT !.kind = "incremental"]
             c == [r EXCEPT !.kind = "collect"]
  <2>1. /\ ask[a].step = "new"
        /\ \/ Language!EnsureStarted(a, i)
           \/ /\ Language!LoadFiles(a, c)
              /\ UNCHANGED <<spawned, proc, opened, versions, shown, mirror, directories, revisions>>
    BY <1>2 DEF Language!Diagnostics, Language!processVars, LspAsks
  <2>2. i \in LspAsks /\ c \in LspAsks /\ i.revision # 0
    BY <1>1 DEF LspAsks, LspTexts
  <2> HIDE DEF i, c
  <2>3. CASE Language!EnsureStarted(a, i)
    BY <2>1, <2>2, <2>3, LspEnsured
  <2>4. CASE /\ Language!LoadFiles(a, c)
             /\ UNCHANGED <<spawned, proc, opened, versions, shown, mirror, directories, revisions>>
    BY <2>1, <2>2, <2>4, LspAside
  <2> QED
    BY <2>1, <2>3, <2>4
<1>3. ASSUME NEW a \in Asks, NEW words \in Sources, Language!WarmSession(a, words)
      PROVE  LspInv'
  <2> DEFINE w == [ask[a] EXCEPT !.kind = "warm", !.text = words]
  <2>1. /\ ask[a].step = "new" /\ Language!LoadFiles(a, w)
        /\ UNCHANGED <<spawned, proc, opened, versions, shown, mirror, directories, revisions>>
    BY <1>3 DEF Language!WarmSession, Language!processVars
  <2>2. w \in LspAsks
    BY <1>1 DEF LspAsks, LspTexts
  <2> HIDE DEF w
  <2> QED
    BY <2>1, <2>2, LspAside
<1>4. ASSUME NEW a \in Asks, Language!Loaded(a)
      PROVE  LspInv'
  <2>1. ask[a].step = "loading" /\ Language!EnsureStarted(a, ask[a]) /\ ask[a] \in LspAsks /\ ask[a].revision # 0
    BY <1>1, <1>4 DEF Language!Loaded
  <2> QED
    BY <2>1, LspEnsured
<1>5. ASSUME NEW a \in Asks, Language!Initialized(a)
      PROVE  LspInv'
  <2>1. ask[a].step = "starting" /\ ask[a] \in LspAsks /\ ask[a].revision # 0
    BY <1>1, <1>5 DEF Language!Initialized
  <2>2. CASE proc # 0
    <3>1. Language!Started(a, ask[a]) /\ UNCHANGED <<spawned, proc, revisions>>
      BY <1>5, <2>2 DEF Language!Initialized
    <3> QED
      BY <2>1, <2>2, <3>1, LspStarted
  <2>3. CASE proc = 0
    <3>1. /\ Language!Answer(a)
          /\ UNCHANGED <<spawned, proc, opened, versions, shown, mirror, directories, revisions>>
      BY <1>5, <2>3 DEF Language!Initialized, Language!processVars
    <3> QED
      BY <2>1, <3>1, LspAside
  <2> QED
    BY <2>2, <2>3
<1>6. ASSUME NEW a \in Asks, Language!InitializeFails(a)
      PROVE  LspInv'
  <2>1. /\ ask[a].step = "starting" /\ Language!Answer(a) /\ proc' = 0
        /\ UNCHANGED <<spawned, opened, versions, shown, mirror, directories, revisions>>
    BY <1>6 DEF Language!InitializeFails
  <2> QED
    BY <2>1, LspAside
<1>7. ASSUME NEW p \in 1..spawned, NEW d \in Places, NEW i \in DOMAIN opened[p][d], Language!Publish(p, d, i)
      PROVE  LspInv'
  BY <1>7, PublishKeeps
<1> QED
  BY <1>2, <1>3, <1>4, <1>5, <1>6, <1>7, LspTimeOut, LspExit, LspRevise DEF Language!Next, Places
================================================================================
