---------------------------- MODULE SyncTexSessions ----------------------------
(***************************************************************************)
(* The SyncTeX sessions of the server: a map from a token to a directory   *)
(* with the PDF of a compile.  Every function runs to its end without a    *)
(* wait; what comes in between is the cleanup of the operating system,     *)
(* which removes old directories of the temporary folder.                  *)
(***************************************************************************)
EXTENDS Naturals, Sequences, FiniteSets, Selection

CONSTANTS
  TexUsers,
  MaxSync,        \* SYNCTEX_MAX_SESSIONS
  Ttl,            \* SYNCTEX_TTL_MS, in ticks of the clock
  MaxTokens,      \* bound: sessions created
  MaxClock        \* bound: ticks

VARIABLES
  texSession,     \* the map, in the order of insertion: token, user, lastUsedAt
  workDirs,       \* tokens whose directory is on the disk
  texTokens,      \* tokens given out
  clock

texVars == <<texSession, workDirs, texTokens, clock>>

Init == texSession = <<>> /\ workDirs = {} /\ texTokens = 0 /\ clock = 0

TokensOf(s) == {s[i].token : i \in DOMAIN s}
Expired(x) == clock - x.lastUsedAt > Ttl

-----------------------------------------------------------------------------
\* Mutant: the oldest session goes first.
RankByAge(s, i) == Cardinality({j \in DOMAIN s : s[j].token < s[i].token})

(* evictIfNeeded: the expired ones, then one after the other the one used    *)
(* longest ago, the first in the map of several, until the number is right.  *)
Rank(s, i) ==
  Cardinality({j \in DOMAIN s : \/ s[j].lastUsedAt < s[i].lastUsedAt
                                \/ s[j].lastUsedAt = s[i].lastUsedAt /\ j < i})

Evict(s, dirs) ==
  LET fresh == Select(s, {i \in DOMAIN s : ~Expired(s[i])})
      kept  == Select(fresh, {i \in DOMAIN fresh : Rank(fresh, i) + MaxSync >= Len(fresh)})
  IN  /\ texSession' = kept
      /\ workDirs' = dirs \ (TokensOf(s) \ TokensOf(kept))

\* Mutant: the evicted sessions leave their directories.
CreateEvictingOnlyEntries(u) ==
  LET token == texTokens + 1
  IN  /\ texTokens < MaxTokens /\ texTokens' = token
      /\ LET kept == SelectSeq(texSession, LAMBDA x : ~Expired(x))
         IN  texSession' = Append(IF Len(kept) = MaxSync THEN Tail(kept) ELSE kept,
                                  [token |-> token, user |-> u, lastUsedAt |-> clock])
      /\ workDirs' = workDirs \cup {token}
      /\ UNCHANGED clock

Create(u) ==
  LET token == texTokens + 1
  IN  /\ texTokens < MaxTokens /\ texTokens' = token
      /\ Evict(Append(texSession, [token |-> token, user |-> u, lastUsedAt |-> clock]), workDirs \cup {token})
      /\ UNCHANGED clock

Sweep == Evict(texSession, workDirs) /\ UNCHANGED <<texTokens, clock>>

(* getSession: another user's token finds nothing; a session whose directory *)
(* is gone is forgotten; the one that is found was used now.  (It is not     *)
(* asked for its age: until the next sweep it still answers.)                *)
Get(i, u) ==
  /\ texSession[i].user = u
  /\ texSession' = IF texSession[i].token \in workDirs
                   THEN [texSession EXCEPT ![i].lastUsedAt = clock]
                   ELSE Select(texSession, DOMAIN texSession \ {i})
  /\ UNCHANGED <<workDirs, texTokens, clock>>

CleanUp(t) == workDirs' = workDirs \ {t} /\ UNCHANGED <<texSession, texTokens, clock>>
Tick == clock < MaxClock /\ clock' = clock + 1 /\ UNCHANGED <<texSession, workDirs, texTokens>>

Next ==
  \/ \E u \in TexUsers : Create(u) \/ \E i \in DOMAIN texSession : Get(i, u)
  \/ Sweep \/ Tick
  \/ \E t \in workDirs : CleanUp(t)

Spec == Init /\ [][Next]_texVars

-----------------------------------------------------------------------------
(* Every directory belongs to a session, so that the disk does not fill up   *)
(* with those of sessions that were evicted, and the limit holds.            *)
DirectoriesOwned == workDirs \subseteq TokensOf(texSession) /\ Len(texSession) <= MaxSync

(* A session that could still answer leaves only to make room, and only for  *)
(* sessions that were used no earlier: each that stays was used since, and   *)
(* the number of those that stay is the limit.                               *)
RecentlyUsedKept ==
  [][\A i \in DOMAIN texSession :
       LET x == texSession[i] IN
         x.token \in workDirs /\ ~Expired(x) /\ x.token \notin TokensOf(texSession') =>
           /\ Len(texSession') = MaxSync
           /\ \A j \in DOMAIN texSession' : texSession'[j].lastUsedAt >= x.lastUsedAt]_texVars

=============================================================================
