--------------------------- MODULE ServicesProofs ---------------------------
(***************************************************************************)
(* Theorems about the services that extensions and screens share, for      *)
(* every value of their constants.  A service is the only one that changes *)
(* its variables, so that an inductive invariant of the service by itself  *)
(* is one of the behaviours of MCSpec that are its own.                    *)
(***************************************************************************)
EXTENDS MCServices, FiniteSetTheorems, SequenceTheorems, TLAPS

\* A step of a behaviour is one of its service, or changes nothing of it.
LEMMA ServiceStep ==
  ASSUME [MCNext]_all
  PROVE  /\ which' = which
         /\ which = "limiter" => Limiter!Next \/ UNCHANGED Limiter!vars
         /\ which = "ffmpeg" => FFmpeg!Next \/ UNCHANGED FFmpeg!vars
         /\ which = "budget" => Budget!Next \/ UNCHANGED Budget!vars
         /\ which = "health" => Health!Next \/ UNCHANGED Health!vars
         /\ which = "catalog" => Catalog!Next \/ UNCHANGED Catalog!vars
         /\ which = "platforms" => Platforms!Next \/ UNCHANGED Platforms!vars
         /\ which = "lyrics" => Lyrics!Next \/ UNCHANGED Lyrics!vars
         /\ which = "kept" => Kept!Next \/ UNCHANGED Kept!vars
         /\ which = "scanning" => Scanning!Next \/ UNCHANGED Scanning!vars
         /\ which = "dialling" => Dialling!Next \/ UNCHANGED Dialling!vars
<1>1. CASE MCNext
  <2>1. which' = which
    BY <1>1 DEF MCNext, Others
  <2> QED
    BY <1>1, <2>1 DEF MCNext
<1>2. CASE UNCHANGED all
  <2>1. UNCHANGED <<which, now, limiting, converting, budgeting, checking, browsing, resolving,
                    singing, keeping, reading, dialling>>
    BY <1>2 DEF all
  <2>2. /\ UNCHANGED Limiter!vars /\ UNCHANGED FFmpeg!vars /\ UNCHANGED Budget!vars
        /\ UNCHANGED Health!vars /\ UNCHANGED Catalog!vars
    BY <2>1 DEF limiting, converting, budgeting, checking, browsing, Limiter!vars, FFmpeg!vars,
       Budget!vars, Budget!budget, Health!vars, Catalog!vars
  <2>3. /\ UNCHANGED Platforms!vars /\ UNCHANGED Lyrics!vars /\ UNCHANGED Kept!vars
        /\ UNCHANGED Scanning!vars /\ UNCHANGED Dialling!vars
    BY <2>1 DEF resolving, singing, keeping, reading, dialling, Platforms!vars, Lyrics!vars,
       Kept!vars, Kept!disk, Kept!history, Scanning!vars, Dialling!vars
  <2> QED
    BY <2>1, <2>2, <2>3
<1> QED
  BY <1>1, <1>2

-----------------------------------------------------------------------------
(* The rate limiter.  What it remembers is the end of the history of its   *)
(* grants, and whatever it has forgotten has left the window: so a grant   *)
(* that finds a place free comes a window after the one that is MaxRequests*)
(* before it.                                                              *)
LimiterTyped ==
    /\ now \in Nat
    /\ timestamps \in Seq(Nat)
    /\ granted \in Seq(Nat)

\* How many grants have been forgotten.
Forgotten == Len(granted) - Len(timestamps)

EndOfHistory ==
    /\ Forgotten >= 0
    /\ \A i \in 1..Len(timestamps) : timestamps[i] = granted[Forgotten + i]

ForgottenIsOld == \A i \in 1..Forgotten : granted[i] + Window <= now

LimiterIInv == LimiterTyped /\ EndOfHistory /\ ForgottenIsOld /\ Limiter!WindowKept

-----------------------------------------------------------------------------
\* Cleaning keeps the end of the history and forgets what is old only.
LEMMA CleanedKeeps ==
  ASSUME LimiterIInv, Window \in Nat, NEW recent \in Limiter!Cleaned
  PROVE  /\ recent \in Seq(Nat)
         /\ Len(recent) <= Len(granted)
         /\ \A i \in 1..Len(recent) : recent[i] = granted[Len(granted) - Len(recent) + i]
         /\ \A i \in 1..(Len(granted) - Len(recent)) : granted[i] + Window <= now
<1>1. PICK k \in 1..(Len(timestamps) + 1) :
        /\ recent = SubSeq(timestamps, k, Len(timestamps))
        /\ \A i \in 1..(k - 1) : ~Limiter!InWindow(i)
  BY DEF Limiter!Cleaned
<1>2. /\ recent \in Seq(Nat)
      /\ Len(recent) = Len(timestamps) - k + 1
      /\ \A i \in 1..Len(recent) : recent[i] = timestamps[k + i - 1]
  BY <1>1 DEF LimiterIInv, LimiterTyped
<1>3. Len(recent) <= Len(granted)
  BY <1>2 DEF LimiterIInv, LimiterTyped, EndOfHistory, Forgotten
<1>4. ASSUME NEW i \in 1..Len(recent)
      PROVE  recent[i] = granted[Len(granted) - Len(recent) + i]
  <2>1. k + i - 1 \in 1..Len(timestamps)
    BY <1>2, <1>4 DEF LimiterIInv, LimiterTyped
  <2>2. timestamps[k + i - 1] = granted[Forgotten + (k + i - 1)]
    BY <2>1 DEF LimiterIInv, EndOfHistory
  <2>3. Forgotten + (k + i - 1) = Len(granted) - Len(recent) + i
    BY <1>2, <1>4 DEF LimiterIInv, LimiterTyped, Forgotten
  <2> QED
    BY <1>2, <1>4, <2>2, <2>3
<1>5. ASSUME NEW i \in 1..(Len(granted) - Len(recent))
      PROVE  granted[i] + Window <= now
  <2>1. CASE i <= Forgotten
    BY <2>1, <1>2 DEF LimiterIInv, LimiterTyped, ForgottenIsOld, Forgotten, EndOfHistory
  <2>2. CASE i > Forgotten
    <3>1. i - Forgotten \in 1..(k - 1)
      BY <1>2, <2>2 DEF LimiterIInv, LimiterTyped, Forgotten, EndOfHistory
    <3>4. i - Forgotten \in 1..Len(timestamps)
      BY <3>1 DEF LimiterIInv, LimiterTyped
    <3>2. timestamps[i - Forgotten] = granted[i]
      <4>1. timestamps[i - Forgotten] = granted[Forgotten + (i - Forgotten)]
        BY <3>4 DEF LimiterIInv, EndOfHistory
      <4>2. Forgotten + (i - Forgotten) = i
        BY DEF LimiterIInv, LimiterTyped, Forgotten
      <4> QED
        BY <4>1, <4>2
    <3>3. ~(timestamps[i - Forgotten] + Window > now)
      BY <1>1, <3>1 DEF Limiter!InWindow
    <3>5. timestamps[i - Forgotten] \in Nat
      BY <3>4 DEF LimiterIInv, LimiterTyped
    <3> QED
      BY <3>2, <3>3, <3>5 DEF LimiterIInv, LimiterTyped
  <2> QED
    BY <2>1, <2>2 DEF LimiterIInv, LimiterTyped, Forgotten
<1> QED
  BY <1>2, <1>3, <1>4, <1>5

\* A cleaning alone, as of a look that finds no place.
LEMMA CleaningKeeps ==
  ASSUME LimiterIInv, Window \in Nat, timestamps' \in Limiter!Cleaned,
         UNCHANGED <<now, granted>>
  PROVE  LimiterIInv'
BY CleanedKeeps DEF LimiterIInv, LimiterTyped, EndOfHistory, ForgottenIsOld, Forgotten,
   Limiter!WindowKept

\* A grant that finds a place free.
LEMMA GrantKeeps ==
  ASSUME LimiterIInv, Window \in Nat, MaxRequests \in Nat \ {0}, NEW recent \in Limiter!Cleaned,
         Len(recent) < MaxRequests, timestamps' = Append(recent, now),
         granted' = Append(granted, now), now' = now
  PROVE  LimiterIInv'
<1>1. /\ recent \in Seq(Nat)
      /\ Len(recent) <= Len(granted)
      /\ \A i \in 1..Len(recent) : recent[i] = granted[Len(granted) - Len(recent) + i]
      /\ \A i \in 1..(Len(granted) - Len(recent)) : granted[i] + Window <= now
  BY CleanedKeeps
<1>2. /\ Len(granted') = Len(granted) + 1 /\ Len(timestamps') = Len(recent) + 1
      /\ granted'[Len(granted) + 1] = now /\ timestamps'[Len(recent) + 1] = now
      /\ \A i \in 1..Len(granted) : granted'[i] = granted[i]
      /\ \A i \in 1..Len(recent) : timestamps'[i] = recent[i]
  BY <1>1 DEF LimiterIInv, LimiterTyped
<1>3. LimiterTyped'
  BY <1>1 DEF LimiterIInv, LimiterTyped
<1>4. Forgotten' = Len(granted) - Len(recent) /\ Forgotten' >= 0
  BY <1>1, <1>2 DEF LimiterIInv, LimiterTyped, Forgotten
<1>5. ASSUME NEW i \in 1..Len(timestamps')
      PROVE  timestamps'[i] = granted'[Forgotten' + i]
  <2>1. CASE i <= Len(recent)
    <3>1. timestamps'[i] = recent[i] /\ recent[i] = granted[Forgotten' + i]
      BY <1>1, <1>2, <1>4, <1>5, <2>1
    <3>2. Forgotten' + i \in 1..Len(granted)
      BY <1>1, <1>4, <1>5, <2>1 DEF LimiterIInv, LimiterTyped
    <3> QED
      BY <1>2, <3>1, <3>2
  <2>2. CASE i = Len(recent) + 1
    <3>1. Forgotten' + i = Len(granted) + 1
      BY <1>1, <1>4, <2>2 DEF LimiterIInv, LimiterTyped
    <3> QED
      BY <1>2, <2>2, <3>1
  <2>3. i <= Len(recent) \/ i = Len(recent) + 1
    BY <1>1, <1>2, <1>5
  <2> QED
    BY <2>1, <2>2, <2>3
<1>6. ASSUME NEW i \in 1..Forgotten'
      PROVE  granted'[i] + Window <= now'
  <2>1. i \in 1..Len(granted) /\ i \in 1..(Len(granted) - Len(recent))
    BY <1>1, <1>4, <1>6 DEF LimiterIInv, LimiterTyped
  <2> QED
    BY <1>1, <1>2, <2>1
<1>7. ASSUME NEW i \in DOMAIN granted', i > MaxRequests
      PROVE  granted'[i] - granted'[i - MaxRequests] >= Window
  <2>1. CASE i <= Len(granted)
    BY SMTT(30), <1>2, <1>7, <2>1 DEF LimiterIInv, LimiterTyped, Limiter!WindowKept
  <2>2. CASE i = Len(granted) + 1
    <3>1. Len(granted) \in Nat /\ Len(recent) \in Nat /\ Len(recent) < MaxRequests
      BY <1>1 DEF LimiterIInv, LimiterTyped
    <3>2. i - MaxRequests \in 1..(Len(granted) - Len(recent))
      BY <1>7, <2>2, <3>1
    <3>3. granted[i - MaxRequests] + Window <= now
      BY <1>1, <3>2
    <3>4. i - MaxRequests \in 1..Len(granted)
      BY <3>1, <3>2
    <3>5. granted'[i - MaxRequests] = granted[i - MaxRequests]
      BY <1>2, <3>4
    <3>6. granted[i - MaxRequests] \in Nat /\ now \in Nat
      BY <3>4 DEF LimiterIInv, LimiterTyped
    <3>7. granted'[i] = now
      BY <1>2, <2>2
    <3> QED
      BY <3>3, <3>5, <3>6, <3>7
  <2>3. i \in 1..(Len(granted) + 1) /\ Len(granted) \in Nat
    BY <1>2, <1>3, <1>7 DEF LimiterIInv, LimiterTyped
  <2>4. i <= Len(granted) \/ i = Len(granted) + 1
    BY <2>3
  <2> QED
    BY <2>1, <2>2, <2>4
<1>8. Limiter!WindowKept'
  BY <1>7 DEF Limiter!WindowKept
<1> QED
  BY <1>3, <1>4, <1>5, <1>6, <1>8 DEF LimiterIInv, EndOfHistory, ForgottenIsOld

LEMMA LimiterIInvInductive ==
  ASSUME LimiterIInv, [Limiter!Next]_(Limiter!vars), Window \in Nat, MaxRequests \in Nat \ {0}
  PROVE  LimiterIInv'
<1>1. ASSUME NEW w \in Waiters, Limiter!Look(w) \/ Limiter!TryAcquire(w)
      PROVE  LimiterIInv'
  <2>1. PICK recent \in Limiter!Cleaned :
          \/ Len(recent) < MaxRequests /\ Limiter!Take(w, recent)
          \/ timestamps' = recent /\ UNCHANGED granted
    BY <1>1 DEF Limiter!Look, Limiter!TryAcquire
  <2>2. now' = now
    BY <1>1 DEF Limiter!Look, Limiter!TryAcquire
  <2> QED
    BY <2>1, <2>2, CleaningKeeps, GrantKeeps DEF Limiter!Take
<1>2. CASE Limiter!Available
  BY <1>2, CleaningKeeps DEF Limiter!Available
<1>3. CASE Limiter!Tick
  BY <1>3 DEF Limiter!Tick, LimiterIInv, LimiterTyped, EndOfHistory, ForgottenIsOld, Forgotten,
     Limiter!WindowKept
<1>4. ASSUME UNCHANGED <<now, timestamps, granted>>
      PROVE  LimiterIInv'
  BY <1>4 DEF LimiterIInv, LimiterTyped, EndOfHistory, ForgottenIsOld, Forgotten,
     Limiter!WindowKept
<1>5. ASSUME NEW w \in Waiters, Limiter!Call(w) \/ Limiter!Wake(w) \/ Limiter!Cancel(w)
      PROVE  LimiterIInv'
  BY <1>4, <1>5 DEF Limiter!Call, Limiter!Wake, Limiter!Cancel
<1>6. CASE UNCHANGED Limiter!vars
  BY <1>4, <1>6 DEF Limiter!vars
<1> QED
  BY <1>1, <1>2, <1>3, <1>5, <1>6 DEF Limiter!Next

\* WindowKept: no stretch of time as long as the window has more than
\* MaxRequests grants, whoever waits, wakes, gives up or only tries
\* (WaitForSlotContext, TryAcquire).
THEOREM WindowKeptHolds == MCSpec => []WindowKept
<1> DEFINE Inv == which = "limiter" => LimiterIInv
<1>1. MCInit => Inv
  BY DEF MCInit, Limiter!Init, LimiterIInv, LimiterTyped, EndOfHistory, ForgottenIsOld,
     Forgotten, Limiter!WindowKept
<1>2. Inv /\ [MCNext]_all => Inv'
  BY ServiceStep, LimiterAssumption, LimiterIInvInductive
<1>3. Inv => WindowKept
  BY DEF LimiterIInv, WindowKept
<1> QED
  BY <1>1, <1>2, <1>3, PTL DEF MCSpec

-----------------------------------------------------------------------------
(* FFmpeg commands.  Each step of a script that shortens the list of       *)
(* unclaimed commands concerns one whose script waits already, and each    *)
(* step of a pump that uses up the token leaves that pump looking.         *)
FFmpegTyped ==
    /\ command \in [Commands -> {"new", "inserted", "waiting", "ended"}]
    /\ entry \in [Commands -> {"none", "queued", "claimed", "completed"}]
    /\ token \in BOOLEAN
    /\ pump \in [Pumps -> {"idle", "scanning", "asleep"}]
    /\ batch \in [Pumps -> SUBSET Commands]
    /\ runs \in [Commands -> Nat]

\* A command that may still be claimed has not been given out.
QueuedUnrun ==
    \A c \in Commands :
      /\ command[c] = "new" => entry[c] = "none" /\ runs[c] = 0
      /\ entry[c] = "queued" => command[c] \in {"inserted", "waiting"} /\ runs[c] = 0
      /\ runs[c] <= 1

FFmpegIInv == FFmpegTyped /\ QueuedUnrun /\ FFmpeg!NoneOverlooked

LEMMA FFmpegTypedInductive == FFmpegTyped /\ [FFmpeg!Next]_(FFmpeg!vars) => FFmpegTyped'
<1> SUFFICES ASSUME FFmpegTyped, [FFmpeg!Next]_(FFmpeg!vars) PROVE FFmpegTyped'
  OBVIOUS
<1>1. ASSUME NEW c \in Commands, FFmpeg!Script(c) PROVE FFmpegTyped'
  BY ZenonT(40), <1>1 DEF FFmpegTyped, FFmpeg!Script, FFmpeg!Insert, FFmpeg!Notify,
     FFmpeg!GetResult, FFmpeg!GiveUp, FFmpeg!Moves, FFmpeg!Enters
<1>2. ASSUME NEW p \in Pumps,
             FFmpeg!Wait(p) \/ FFmpeg!Wake(p) \/ FFmpeg!Deadline(p) PROVE FFmpegTyped'
  BY <1>2 DEF FFmpegTyped, FFmpeg!Wait, FFmpeg!Wake, FFmpeg!Deadline
<1>3. ASSUME NEW p \in Pumps, FFmpeg!Scan(p) PROVE FFmpegTyped'
  BY <1>3 DEF FFmpegTyped, FFmpeg!Scan, FFmpeg!Unclaimed
<1>4. ASSUME NEW p \in Pumps, NEW c \in Commands, FFmpeg!SetResult(p, c) PROVE FFmpegTyped'
  BY <1>4 DEF FFmpegTyped, FFmpeg!SetResult, FFmpeg!Enters
<1>5. CASE UNCHANGED FFmpeg!vars
  BY <1>5 DEF FFmpegTyped, FFmpeg!vars
<1> QED
  BY <1>1, <1>2, <1>3, <1>4, <1>5 DEF FFmpeg!Next, FFmpeg!Pump

LEMMA QueuedUnrunInductive == FFmpegTyped /\ QueuedUnrun
/\ [FFmpeg!Next]_(FFmpeg!vars) => QueuedUnrun'
<1> SUFFICES ASSUME FFmpegTyped, QueuedUnrun, [FFmpeg!Next]_(FFmpeg!vars) PROVE QueuedUnrun'
  OBVIOUS
<1>1. ASSUME NEW c \in Commands, FFmpeg!Script(c) PROVE QueuedUnrun'
  BY <1>1 DEF FFmpegTyped, QueuedUnrun, FFmpeg!Script, FFmpeg!Insert, FFmpeg!Notify,
     FFmpeg!GetResult, FFmpeg!GiveUp, FFmpeg!Moves, FFmpeg!Enters
<1>2. ASSUME NEW p \in Pumps, FFmpeg!Scan(p) PROVE QueuedUnrun'
  BY <1>2 DEF FFmpegTyped, QueuedUnrun, FFmpeg!Scan, FFmpeg!Unclaimed
<1>3. ASSUME NEW p \in Pumps, NEW c \in Commands, FFmpeg!SetResult(p, c) PROVE QueuedUnrun'
  BY <1>3 DEF FFmpegTyped, QueuedUnrun, FFmpeg!SetResult, FFmpeg!Enters
<1>4. ASSUME UNCHANGED <<command, entry, runs>> PROVE QueuedUnrun'
  BY <1>4 DEF QueuedUnrun
<1> QED
  BY <1>1, <1>2, <1>3, <1>4 DEF FFmpeg!Next, FFmpeg!Pump, FFmpeg!Wait, FFmpeg!Wake,
     FFmpeg!Deadline, FFmpeg!vars

LEMMA NoneOverlookedInductive == FFmpegTyped /\ FFmpeg!NoneOverlooked
/\ [FFmpeg!Next]_(FFmpeg!vars) => FFmpeg!NoneOverlooked'
<1> SUFFICES ASSUME FFmpegTyped, FFmpeg!NoneOverlooked,
                    [FFmpeg!Next]_(FFmpeg!vars) PROVE FFmpeg!NoneOverlooked'
  OBVIOUS
<1>1. ASSUME NEW c \in Commands, FFmpeg!Insert(c) PROVE FFmpeg!NoneOverlooked'
  <2>1. c \in FFmpeg!Unclaimed' /\ command'[c] = "inserted"
    BY <1>1 DEF FFmpegTyped, FFmpeg!Insert, FFmpeg!Moves, FFmpeg!Enters, FFmpeg!Unclaimed
  <2> QED
    BY <2>1 DEF FFmpeg!NoneOverlooked
<1>2. ASSUME NEW c \in Commands, FFmpeg!Notify(c) PROVE FFmpeg!NoneOverlooked'
  BY <1>2 DEF FFmpeg!Notify, FFmpeg!NoneOverlooked
<1>3. ASSUME NEW c \in Commands,
             FFmpeg!GetResult(c) \/ FFmpeg!GiveUp(c) PROVE FFmpeg!NoneOverlooked'
  <2>1. FFmpeg!Unclaimed' \subseteq FFmpeg!Unclaimed /\ UNCHANGED <<token, pump>>
    BY <1>3 DEF FFmpegTyped, FFmpeg!GetResult, FFmpeg!GiveUp, FFmpeg!Enters, FFmpeg!Unclaimed
  <2>2. \A d \in FFmpeg!Unclaimed :
          command[d] = "inserted" => d \in FFmpeg!Unclaimed' /\ command'[d] = "inserted"
    BY <1>3 DEF FFmpegTyped, FFmpeg!GetResult, FFmpeg!GiveUp, FFmpeg!Moves, FFmpeg!Enters,
       FFmpeg!Unclaimed
  <2> QED
    BY <2>1, <2>2 DEF FFmpeg!NoneOverlooked
<1>4. ASSUME NEW p \in Pumps, FFmpeg!Wait(p) \/ FFmpeg!Wake(p) PROVE FFmpeg!NoneOverlooked'
  <2>1. pump'[p] = "scanning"
    BY <1>4 DEF FFmpegTyped, FFmpeg!Wait, FFmpeg!Wake
  <2> QED
    BY <2>1 DEF FFmpeg!NoneOverlooked
<1>5. ASSUME NEW p \in Pumps, FFmpeg!Scan(p) PROVE FFmpeg!NoneOverlooked'
  <2>1. FFmpeg!Unclaimed' = {}
    BY <1>5 DEF FFmpegTyped, FFmpeg!Scan, FFmpeg!Unclaimed
  <2> QED
    BY <2>1 DEF FFmpeg!NoneOverlooked
<1>6. ASSUME NEW p \in Pumps, FFmpeg!Deadline(p) PROVE FFmpeg!NoneOverlooked'
  <2>1. /\ UNCHANGED <<command, token>> /\ FFmpeg!Unclaimed' = FFmpeg!Unclaimed
        /\ \A q \in Pumps : pump'[q] = "asleep" => pump[q] = "asleep"
        /\ \A q \in Pumps : pump[q] = "scanning" => pump'[q] = "scanning"
    BY <1>6 DEF FFmpegTyped, FFmpeg!Deadline, FFmpeg!Unclaimed
  <2> QED
    BY <2>1 DEF FFmpeg!NoneOverlooked
<1>7. ASSUME NEW p \in Pumps, NEW c \in Commands,
             FFmpeg!SetResult(p, c) PROVE FFmpeg!NoneOverlooked'
  <2>1. UNCHANGED <<command, token, pump>> /\ FFmpeg!Unclaimed' = FFmpeg!Unclaimed
    BY <1>7 DEF FFmpegTyped, FFmpeg!SetResult, FFmpeg!Enters, FFmpeg!Unclaimed
  <2> QED
    BY <2>1 DEF FFmpeg!NoneOverlooked
<1>8. CASE UNCHANGED FFmpeg!vars
  BY <1>8 DEF FFmpeg!NoneOverlooked, FFmpeg!Unclaimed, FFmpeg!vars
<1> QED
  BY <1>1, <1>2, <1>3, <1>4, <1>5, <1>6, <1>7, <1>8 DEF FFmpeg!Next, FFmpeg!Script, FFmpeg!Pump

\* ServedOnce: a command of a script is given to at most one pump, and while
\* it waits no pump sleeps without a reason to wake up (executeFFmpegCommand,
\* WaitForPendingFFmpegCommandsJSON).
THEOREM ServedOnceHolds == MCSpec => []ServedOnce
<1> DEFINE Inv == which = "ffmpeg" => FFmpegIInv
<1>1. MCInit => Inv
  <2> SUFFICES ASSUME FFmpeg!Init
               PROVE  FFmpegTyped /\ QueuedUnrun /\ FFmpeg!NoneOverlooked
    BY DEF MCInit, FFmpegIInv
  <2>1. FFmpegTyped
    BY DEF FFmpeg!Init, FFmpegTyped
  <2>2. QueuedUnrun
    BY DEF FFmpeg!Init, QueuedUnrun
  <2>3. FFmpeg!Unclaimed = {}
    BY DEF FFmpeg!Init, FFmpeg!Unclaimed
  <2> QED
    BY <2>1, <2>2, <2>3 DEF FFmpeg!NoneOverlooked
<1>2. Inv /\ [MCNext]_all => Inv'
  BY ServiceStep, FFmpegTypedInductive, QueuedUnrunInductive, NoneOverlookedInductive
     DEF FFmpegIInv
<1>3. Inv => ServedOnce
  BY DEF FFmpegIInv, QueuedUnrun, FFmpeg!NoneOverlooked, FFmpeg!ServedOnce, ServedOnce
<1> QED
  BY <1>1, <1>2, <1>3, PTL DEF MCSpec

-----------------------------------------------------------------------------
(* The search for lyrics.  What the search has is the best of what it has  *)
(* heard.                                                                  *)
LEMMA LyricsSameCardinality == \A S : Lyrics!Cardinality(S) = Cardinality(S)
  BY DEF Lyrics!Cardinality, Cardinality

WorkerStates == {"none", "queued", "running", "sent", "over"}
Outcomes == {"none", "lyrics", "nothing", "unavailable"}
Searchings ==
    [pc : {"testing", "collecting", "ended"}, tested : SUBSET Providers,
     candidates : SUBSET Providers, received : SUBSET Providers, best : Nat,
     graced : BOOLEAN]

LyricsTyped ==
    /\ now \in Nat
    /\ unavailable \in [Providers -> Nat]
    /\ lyricsWorker \in [Providers -> WorkerStates]
    /\ outcome \in [Providers -> Outcomes]
    /\ search \in Searchings

Running == {p \in Providers : lyricsWorker[p] = "running"}
Few == Cardinality(Running) <= Parallelism

\* The search has heard of some of the candidates, who have said what they
\* had to say, and has the first of them that has lyrics.
Heard ==
    /\ search.received \subseteq search.candidates
    /\ search.candidates \subseteq search.tested
    /\ \A p \in Providers \ search.candidates : lyricsWorker[p] = "none" /\ outcome[p] = "none"
    /\ \A p \in search.received : lyricsWorker[p] = "over"
    /\ search.best # 0 => search.best \in search.received /\ outcome[search.best] = "lyrics"
    /\ \A p \in search.received :
         outcome[p] = "lyrics" => search.best # 0 /\ search.best <= p

\* Without a grace it ends when nobody is left that it would prefer.
Decided ==
    /\ search.pc # "ended" => ~search.graced
    /\ search.pc = "ended" /\ ~search.graced =>
         \/ search.received = search.candidates
         \/ search.best # 0 /\ ~Lyrics!PendingEarlier(search)

LyricsIInv == LyricsTyped /\ Few /\ Heard /\ Decided

\* At most one more provider is asked.
LEMMA FewKept ==
  ASSUME LyricsTyped, Few, NEW p \in Providers, NEW pc \in WorkerStates, Lyrics!Moves(p, pc),
         pc = "running" => Cardinality(Running) < Parallelism
  PROVE  Few' /\ lyricsWorker' \in [Providers -> WorkerStates] /\ lyricsWorker'[p] = pc
         /\ \A q \in Providers : q # p => lyricsWorker'[q] = lyricsWorker[q]
<1>1. /\ lyricsWorker' \in [Providers -> WorkerStates] /\ lyricsWorker'[p] = pc
      /\ \A q \in Providers : q # p => lyricsWorker'[q] = lyricsWorker[q]
  BY DEF LyricsTyped, Lyrics!Moves
<1>2. IsFiniteSet(Running) /\ Cardinality(Running) \in Nat
  BY LyricsAssumption, FS_Subset, FS_CardinalityType DEF Running
<1>3. CASE pc # "running"
  <2>1. Running' \subseteq Running
    BY <1>1, <1>3 DEF Running
  <2>2. IsFiniteSet(Running') /\ Cardinality(Running') <= Cardinality(Running)
    BY <1>2, <2>1, FS_Subset
  <2>3. Cardinality(Running') \in Nat
    BY <2>2, FS_CardinalityType
  <2> QED
    BY <1>1, <1>2, <2>2, <2>3, LyricsAssumption DEF Few
<1>4. CASE pc = "running"
  <2>1. Running' = Running \cup {p}
    BY <1>1, <1>4 DEF Running
  <2>2. IsFiniteSet(Running') /\ Cardinality(Running') <= Cardinality(Running) + 1
    <3>1. IsFiniteSet(Running \cup {p})
          /\ Cardinality(Running \cup {p}) =
               IF p \in Running THEN Cardinality(Running) ELSE Cardinality(Running) + 1
      BY <1>2, FS_AddElement
    <3> QED
      BY <1>2, <2>1, <3>1
  <2>3. Cardinality(Running') \in Nat
    BY <2>2, FS_CardinalityType
  <2> QED
    BY <1>1, <1>2, <1>4, <2>2, <2>3, LyricsAssumption DEF Few
<1> QED
  BY <1>3, <1>4

LEMMA LyricsIInvInit == Lyrics!Init => LyricsIInv
<1> SUFFICES ASSUME Lyrics!Init PROVE LyricsIInv
  OBVIOUS
<1>1. LyricsTyped /\ Heard /\ Decided
  BY LyricsAssumption DEF Lyrics!Init, LyricsTyped, WorkerStates, Outcomes, Searchings, Heard,
     Decided
<1>2. Running = {}
  BY DEF Lyrics!Init, Running
<1>3. Few
  BY <1>2, FS_EmptySet, LyricsAssumption DEF Few
<1> QED
  BY <1>1, <1>3 DEF LyricsIInv

LEMMA TestKeeps ==
  ASSUME LyricsIInv, NEW p \in Providers, Lyrics!Test(p)
  PROVE  LyricsIInv'
<1> DEFINE c == IF Lyrics!Skipped(p) THEN search.candidates ELSE search.candidates \cup {p}
           s == [search EXCEPT !.tested = search.tested \cup {p}, !.candidates = c]
<1>1. /\ search.pc = "testing" /\ p \notin search.tested
      /\ UNCHANGED <<now, unavailable, outcome>>
      /\ search' = [s EXCEPT !.pc = IF s.tested # Providers THEN "testing"
                                    ELSE IF s.candidates = {} THEN "ended" ELSE "collecting"]
      /\ IF Lyrics!Skipped(p) THEN UNCHANGED lyricsWorker ELSE Lyrics!Moves(p, "queued")
  <2>1. s = [search EXCEPT !.tested = @ \cup {p},
                           !.candidates = IF Lyrics!Skipped(p) THEN @ ELSE @ \cup {p}]
    BY DEF LyricsIInv, LyricsTyped, Searchings
  <2> HIDE DEF s
  <2> QED
    BY <2>1 DEF Lyrics!Test
<1>2. search \in Searchings /\ ~search.graced
  BY <1>1 DEF LyricsIInv, LyricsTyped, Decided
<1>3. /\ c \in SUBSET Providers /\ search.candidates \subseteq c
      /\ c \subseteq search.candidates \cup {p}
  BY <1>2 DEF Searchings
<1>4. /\ s \in Searchings /\ s.candidates = c /\ s.tested = search.tested \cup {p}
      /\ s.received = search.received /\ s.best = search.best /\ s.graced = search.graced
  <2> HIDE DEF c
  <2> QED
    BY <1>2, <1>3 DEF Searchings
<1>5. /\ search' \in Searchings /\ search'.received = search.received
      /\ search'.candidates = c /\ search'.tested = search.tested \cup {p}
      /\ search'.best = search.best /\ ~search'.graced
      /\ search'.pc = "ended" => c = {}
  <2> HIDE DEF s, c
  <2> QED
    BY <1>1, <1>2, <1>4 DEF Searchings
<1>6. /\ Few' /\ lyricsWorker' \in [Providers -> WorkerStates]
      /\ \A q \in Providers : q # p => lyricsWorker'[q] = lyricsWorker[q]
      /\ lyricsWorker'[p] # lyricsWorker[p] => p \in c
  <2>1. CASE Lyrics!Skipped(p)
    BY <1>1, <2>1 DEF LyricsIInv, LyricsTyped, Few, Running
  <2>2. CASE ~Lyrics!Skipped(p)
    <3>1. Lyrics!Moves(p, "queued") /\ p \in c
      BY <1>1, <2>2
    <3> QED
      BY <3>1, FewKept DEF LyricsIInv, WorkerStates
  <2> QED
    BY <2>1, <2>2
<1>7. LyricsTyped'
  BY <1>1, <1>5, <1>6 DEF LyricsIInv, LyricsTyped
<1>8. p \notin search.received /\ search.received \subseteq Providers
  BY <1>1, <1>2 DEF LyricsIInv, Heard, Searchings
<1>9. Heard'
  <2> HIDE DEF c, s
  <2> QED
    BY <1>1, <1>3, <1>5, <1>6, <1>8 DEF LyricsIInv, Heard
<1>10. Decided'
  <2> HIDE DEF c, s
  <2>1. search'.pc = "ended" => search'.received = search'.candidates
    BY <1>3, <1>5 DEF LyricsIInv, Heard
  <2> QED
    BY <1>5, <2>1 DEF Decided
<1> QED
  BY <1>6, <1>7, <1>9, <1>10 DEF LyricsIInv

\* One turn of the collecting loop.
LEMMA ReceiveKeeps ==
  ASSUME LyricsIInv, NEW p \in Providers, Lyrics!Receive(p)
  PROVE  LyricsIInv'
<1> DEFINE b == IF outcome[p] = "lyrics"
    /\ (search.best = 0 \/ p < search.best) THEN p ELSE search.best
           s == [search EXCEPT !.received = search.received \cup {p}, !.best = b]
           over == s.received = s.candidates \/ (s.best # 0 /\ ~Lyrics!PendingEarlier(s))
<1>1. /\ search.pc = "collecting" /\ lyricsWorker[p] = "sent" /\ Lyrics!Moves(p, "over")
      /\ UNCHANGED <<now, unavailable, outcome>>
      /\ search' = IF over THEN [s EXCEPT !.pc = "ended"] ELSE s
  BY DEF Lyrics!Receive
<1>2. /\ search \in Searchings /\ p \in Nat /\ p # 0 /\ ~search.graced
      /\ \A q \in Providers : q \in Nat
  BY <1>1, LyricsAssumption DEF LyricsIInv, LyricsTyped, Decided
<1>3. b \in Nat
  BY <1>2 DEF Searchings
<1>4. /\ s \in Searchings /\ s.pc = search.pc /\ s.received = search.received \cup {p}
         /\ s.best = b
      /\ s.candidates = search.candidates /\ s.graced = search.graced
      /\ s.tested = search.tested
  <2> HIDE DEF b
  <2> QED
    BY <1>2, <1>3 DEF Searchings
<1>5. /\ search' \in Searchings /\ search'.received = search.received \cup {p}
         /\ search'.best = b
      /\ search'.candidates = search.candidates /\ ~search'.graced
      /\ search'.tested = search.tested
      /\ search'.pc = "ended" => over
      /\ search'.pc \in {"collecting", "ended"}
  <2> HIDE DEF s, over
  <2> QED
    BY <1>1, <1>2, <1>4 DEF Searchings
<1>6. /\ Few' /\ lyricsWorker' \in [Providers -> WorkerStates] /\ lyricsWorker'[p] = "over"
      /\ \A q \in Providers : q # p => lyricsWorker'[q] = lyricsWorker[q]
  BY <1>1, FewKept DEF LyricsIInv, WorkerStates
<1>7. LyricsTyped'
  BY <1>1, <1>5, <1>6 DEF LyricsIInv, LyricsTyped
<1>8. p \in search.candidates
  BY <1>1 DEF LyricsIInv, Heard
<1>9. search.received \subseteq Providers /\ search.best \in Nat
  BY <1>2 DEF Searchings
<1>10. Heard'
  <2>1. /\ b # 0 => b \in search.received \cup {p} /\ outcome[b] = "lyrics"
        /\ \A q \in search.received \cup {p} : outcome[q] = "lyrics" => b # 0 /\ b <= q
    <3>1. \A q \in search.received : outcome[q] = "lyrics" => search.best # 0
          /\ search.best <= q
      BY DEF LyricsIInv, Heard
    <3>2. search.best # 0 => search.best \in search.received /\ outcome[search.best] = "lyrics"
      BY DEF LyricsIInv, Heard
    <3>3. \A q \in search.received : q \in Nat
      BY <1>2, <1>9
    <3>4. CASE outcome[p] = "lyrics" /\ (search.best = 0 \/ p < search.best)
      <4>1. b = p
        BY <3>4
      <4> HIDE DEF b
      <4> QED
        BY <1>2, <1>9, <3>1, <3>3, <3>4, <4>1
    <3>5. CASE outcome[p] = "lyrics" /\ ~(search.best = 0 \/ p < search.best)
      <4>1. b = search.best /\ b # 0 /\ b <= p
        BY <1>2, <1>9, <3>5
      <4> HIDE DEF b
      <4> QED
        BY <1>2, <1>9, <3>1, <3>2, <3>5, <4>1
    <3>6. CASE outcome[p] # "lyrics"
      <4>1. b = search.best
        BY <3>6
      <4> HIDE DEF b
      <4> QED
        BY <3>1, <3>2, <3>6, <4>1
    <3> QED
      BY <3>4, <3>5, <3>6
  <2> HIDE DEF b
  <2> QED
    BY <1>1, <1>5, <1>6, <1>8, <1>9, <2>1 DEF LyricsIInv, Heard
<1>11. Decided'
  <2>1. over => search'.received = search'.candidates
        \/ (search'.best # 0 /\ ~Lyrics!PendingEarlier(search)')
    <3> HIDE DEF b, s
    <3> QED
      BY <1>4, <1>5 DEF Lyrics!PendingEarlier
  <2> HIDE DEF over
  <2> QED
    BY <1>5, <2>1 DEF Decided
<1> QED
  BY <1>6, <1>7, <1>10, <1>11 DEF LyricsIInv

\* The steps of a provider.
LEMMA WorkKeeps ==
  ASSUME LyricsIInv, NEW p \in Providers, Lyrics!Work(p)
  PROVE  LyricsIInv'
<1>1. ASSUME Lyrics!Run(p) PROVE LyricsIInv'
  <2>1. PICK pc \in {"running", "over"} : Lyrics!Moves(p, pc)
        /\ (pc = "running" => Cardinality(Running) < Parallelism)
    BY <1>1, LyricsSameCardinality DEF Lyrics!Run, Running
  <2>2. UNCHANGED <<now, unavailable, outcome, search>>
        /\ lyricsWorker[p] = "queued"
    BY <1>1 DEF Lyrics!Run, LyricsIInv, LyricsTyped
  <2>3. /\ Few' /\ lyricsWorker' \in [Providers -> WorkerStates] /\ lyricsWorker'[p] = pc
        /\ \A q \in Providers : q # p => lyricsWorker'[q] = lyricsWorker[q]
    BY <2>1, FewKept DEF LyricsIInv, WorkerStates
  <2>4. LyricsTyped'
    BY <2>2, <2>3 DEF LyricsIInv, LyricsTyped
  <2>6. Heard'
    BY <2>2, <2>3 DEF LyricsIInv, Heard, LyricsTyped, Searchings
  <2>5. Decided'
    BY <2>2 DEF LyricsIInv, Decided, Lyrics!PendingEarlier
  <2> QED
    BY <2>3, <2>4, <2>5, <2>6 DEF LyricsIInv
<1>2. ASSUME NEW what \in Outcomes, Lyrics!Sends(p, what), unavailable' \in [Providers -> Nat],
             \A q \in Providers : q # p => unavailable'[q] = unavailable[q],
             UNCHANGED <<now, search>>
      PROVE  LyricsIInv'
  <2>1. PICK pc \in {"over", "sent"} : Lyrics!Moves(p, pc)
    BY <1>2 DEF Lyrics!Sends
  <2>2. lyricsWorker[p] = "running" /\ outcome' = [outcome EXCEPT ![p] = what]
    BY <1>2 DEF Lyrics!Sends
  <2>3. /\ Few' /\ lyricsWorker' \in [Providers -> WorkerStates] /\ lyricsWorker'[p] = pc
        /\ \A q \in Providers : q # p => lyricsWorker'[q] = lyricsWorker[q]
    BY <2>1, FewKept DEF LyricsIInv, WorkerStates
  <2>4. LyricsTyped'
    BY <1>2, <2>2, <2>3 DEF LyricsIInv, LyricsTyped
  <2>5. p \in search.candidates /\ p \notin search.received
        /\ \A q \in Providers : q # p => outcome'[q] = outcome[q]
    BY <2>2 DEF LyricsIInv, Heard, LyricsTyped
  <2>6. search.received \subseteq Providers
    BY DEF LyricsIInv, LyricsTyped, Searchings
  <2>7. Heard'
    BY <1>2, <2>3, <2>5, <2>6 DEF LyricsIInv, Heard
  <2>8. Decided'
    BY <1>2 DEF LyricsIInv, Decided, Lyrics!PendingEarlier
  <2> QED
    BY <2>3, <2>4, <2>7, <2>8 DEF LyricsIInv
<1>3. ASSUME Lyrics!HasLyrics(p) PROVE LyricsIInv'
  BY <1>2, <1>3 DEF Lyrics!HasLyrics, Outcomes, LyricsIInv, LyricsTyped
<1>4. ASSUME Lyrics!HasNone(p) PROVE LyricsIInv'
  BY <1>2, <1>4 DEF Lyrics!HasNone, Outcomes, LyricsIInv, LyricsTyped
<1>5. ASSUME Lyrics!Fails(p) PROVE LyricsIInv'
  <2>1. now + Cooldown \in Nat
    BY LyricsAssumption DEF LyricsIInv, LyricsTyped
  <2> QED
    BY <1>2, <1>5, <2>1 DEF Lyrics!Fails, Outcomes, LyricsIInv, LyricsTyped
<1> QED
  BY <1>1, <1>3, <1>4, <1>5, TestKeeps, ReceiveKeeps DEF Lyrics!Work

\* The grace, the other searches and the clock.
LEMMA RestKeeps ==
  ASSUME LyricsIInv,
         Lyrics!GraceOver \/ Lyrics!Tick \/ \E p \in Providers : Lyrics!Elsewhere(p)
  PROVE  LyricsIInv'
<1>1. CASE Lyrics!Tick \/ \E p \in Providers : Lyrics!Elsewhere(p)
  <2>1. now' \in Nat /\ unavailable' \in [Providers -> Nat]
    <3>1. now + Cooldown \in Nat
      BY LyricsAssumption DEF LyricsIInv, LyricsTyped
    <3> QED
      BY <1>1, <3>1 DEF Lyrics!Tick, Lyrics!Elsewhere, LyricsIInv, LyricsTyped
  <2>2. UNCHANGED <<lyricsWorker, outcome, search>>
    BY <1>1 DEF Lyrics!Tick, Lyrics!Elsewhere
  <2> QED
    BY <2>1, <2>2 DEF LyricsIInv, LyricsTyped, Few, Running, Heard, Decided,
       Lyrics!PendingEarlier
<1>2. CASE Lyrics!GraceOver
  <2>1. /\ UNCHANGED <<now, unavailable, lyricsWorker, outcome>>
           /\ search' \in Searchings
        /\ search'.received = search.received /\ search'.best = search.best
        /\ search'.candidates = search.candidates /\ search'.tested = search.tested
        /\ search'.pc = "ended" /\ search'.graced
    BY <1>2 DEF Lyrics!GraceOver, LyricsIInv, LyricsTyped, Searchings
  <2> QED
    BY <2>1 DEF LyricsIInv, LyricsTyped, Few, Running, Heard, Decided
<1> QED
  BY <1>1, <1>2

LEMMA LyricsIInvInductive ==
  ASSUME LyricsIInv, Lyrics!Next \/ UNCHANGED Lyrics!vars
  PROVE  LyricsIInv'
<1>1. CASE UNCHANGED Lyrics!vars
  BY <1>1 DEF Lyrics!vars, LyricsIInv, LyricsTyped, Few, Running, Heard, Decided,
     Lyrics!PendingEarlier
<1>2. CASE Lyrics!Next
  BY <1>2, WorkKeeps, RestKeeps DEF Lyrics!Next
<1> QED
  BY <1>1, <1>2

LEMMA IInvPreferred == LyricsIInv => Lyrics!PreferredFirst
<1> SUFFICES ASSUME LyricsIInv PROVE Lyrics!PreferredFirst
  OBVIOUS
<1>1. Cardinality({p \in Providers : lyricsWorker[p] = "running"}) <= Parallelism
  BY DEF LyricsIInv, Few, Running
<1>2. ASSUME search.pc = "ended"
      PROVE  LET heard == {p \in IF search.graced THEN search.received
                             ELSE {q \in Providers : search.best = 0 \/ q <= search.best} :
                         outcome[p] = "lyrics"}
             IN IF search.best = 0 THEN heard = {}
                ELSE search.best \in heard /\ \A p \in heard : search.best <= p
  <2>1. /\ search.received \subseteq Providers /\ search.best \in Nat
        /\ \A p \in Providers : p \in Nat
    BY LyricsAssumption DEF LyricsIInv, LyricsTyped, Searchings
  <2>2. \A p \in Providers : outcome[p] = "lyrics" => p \in search.candidates
    BY DEF LyricsIInv, Heard
  <2>3. CASE search.graced
    BY <2>1, <2>3 DEF LyricsIInv, Heard
  <2>4. CASE ~search.graced
    <3>1. search.received = search.candidates
          \/ (search.best # 0 /\ ~Lyrics!PendingEarlier(search))
      BY <1>2, <2>4 DEF LyricsIInv, Decided
    <3>2. \A p \in Providers : outcome[p] = "lyrics" /\ (search.best = 0 \/ p <= search.best) =>
            search.best # 0 /\ search.best <= p
      BY <2>1, <2>2, <3>1 DEF Lyrics!PendingEarlier, LyricsIInv, Heard
    <3>3. search.best # 0 => search.best \in Providers /\ outcome[search.best] = "lyrics"
      BY <2>1 DEF LyricsIInv, Heard
    <3> QED
      BY <2>1, <2>4, <3>2, <3>3
  <2> QED
    BY <2>3, <2>4
<1> QED
  BY <1>1, <1>2, LyricsSameCardinality DEF Lyrics!PreferredFirst

\* PreferredFirst: no more providers are asked together than may be, and what
\* a search answers is of the provider that comes first among those it has
\* heard; without the grace no provider before it has lyrics, asked or not
\* (fetchLyricsProvidersContext).
THEOREM PreferredFirstHolds == MCSpec => []PreferredFirst
<1> DEFINE Inv == which = "lyrics" => LyricsIInv
<1>1. MCInit => Inv
  BY LyricsIInvInit DEF MCInit
<1>2. Inv /\ [MCNext]_all => Inv'
  BY ServiceStep, LyricsIInvInductive
<1>3. Inv => PreferredFirst
  BY IInvPreferred DEF PreferredFirst
<1> QED
  BY <1>1, <1>2, <1>3, PTL DEF MCSpec

-----------------------------------------------------------------------------
(* The health of extensions.  The refreshes of an extension that will land *)
(* are one or none, as its mark says.                                      *)
LEMMA HealthSameCardinality == \A S : Health!Cardinality(S) = Cardinality(S)
  BY DEF Health!Cardinality, Cardinality

RefreshSet == [ext : Extensions, generation : Nat, found : Health!Statuses \cup {None}]

HealthTyped ==
    /\ healthGeneration \in Nat
    /\ refreshing \in SUBSET Extensions
    /\ healthCache \in [Extensions -> {healthCache[e] : e \in Extensions}]
    /\ asker.pc \in {"expired", "stale"} => asker.ext \in Extensions
    /\ refresh \in [Refreshes -> RefreshSet \cup {None}]
    /\ \A r \in Refreshes : refresh[r] # None => refresh[r].generation <= healthGeneration
    /\ check # None => check.ext \in Extensions

\* The refreshes of an extension that are on their way and will land.
OnTheWay(e) ==
    {r \in Refreshes : /\ refresh[r] # None
                       /\ refresh[r].ext = e
                       /\ refresh[r].generation = healthGeneration}

Marked ==
    \A e \in Extensions :
      /\ e \in refreshing => \E r \in Refreshes : OnTheWay(e) = {r}
      /\ e \notin refreshing => OnTheWay(e) = {}

Current ==
    \A e \in Extensions : healthCache[e] # None
    /\ healthCache[e].by = "refresh" => healthCache[e].clears = healthGeneration

HealthIInv == HealthTyped /\ Marked /\ Current

LEMMA HealthIInvInit == Health!Init => HealthIInv
<1> SUFFICES ASSUME Health!Init PROVE HealthIInv
  OBVIOUS
<1>1. HealthTyped
  BY DEF Health!Init, HealthTyped, Health!Idle
<1>2. \A e \in Extensions : OnTheWay(e) = {}
  BY DEF Health!Init, OnTheWay
<1>3. Marked /\ Current
  BY <1>2 DEF Health!Init, Marked, Current
<1> QED
  BY <1>1, <1>3 DEF HealthIInv

\* A step that leaves the refreshes and their marks alone.
LEMMA MarksKept ==
  ASSUME HealthIInv, HealthTyped', Current', UNCHANGED <<refreshing, healthGeneration>>,
         refresh' \in [Refreshes -> RefreshSet \cup {None}],
         \A r \in Refreshes : /\ (refresh'[r] = None) <=> (refresh[r] = None)
                              /\ refresh[r] # None =>
                                   /\ refresh'[r].ext = refresh[r].ext
                                   /\ refresh'[r].generation = refresh[r].generation
  PROVE  HealthIInv'
<1>1. \A e \in Extensions : OnTheWay(e)' = OnTheWay(e)
  BY DEF OnTheWay
<1>2. Marked'
  BY <1>1 DEF Marked, HealthIInv
<1> QED
  BY <1>2 DEF HealthIInv

LEMMA StoreType ==
  ASSUME HealthTyped, NEW e \in Extensions, NEW status, NEW by, NEW clears,
         Health!Store(e, status, by, clears)
  PROVE  /\ healthCache' \in [Extensions -> {healthCache'[f] : f \in Extensions}]
         /\ healthCache'[e].by = by /\ healthCache'[e].clears = clears
         /\ \A f \in Extensions : f # e => healthCache'[f] = healthCache[f]
  BY DEF Health!Store, HealthTyped

LEMMA AskKeeps ==
  ASSUME HealthIInv,
         (\E e \in Extensions : Health!Peek(e) \/ Health!StartCheck(e)) \/ Health!PeekStale
         \/ Health!Tick
  PROVE  HealthIInv'
<1>1. UNCHANGED <<healthCache, refreshing, healthGeneration, refresh>>
  BY DEF Health!Peek, Health!StartCheck, Health!PeekStale, Health!Tick
<1>2. /\ asker'.pc \in {"expired", "stale"} => asker'.ext \in Extensions
      /\ check' # None => check'.ext \in Extensions
  <2>1. CASE \E e \in Extensions : Health!Peek(e)
    BY <2>1 DEF Health!Peek, HealthIInv, HealthTyped
  <2>2. CASE \E e \in Extensions : Health!StartCheck(e)
    BY <2>2 DEF Health!StartCheck, HealthIInv, HealthTyped
  <2>3. CASE Health!PeekStale
    BY <2>3 DEF Health!PeekStale, HealthIInv, HealthTyped
  <2>4. CASE Health!Tick
    BY <2>4 DEF Health!Tick, HealthIInv, HealthTyped
  <2> QED
    BY <2>1, <2>2, <2>3, <2>4
<1>3. HealthTyped'
  BY <1>1, <1>2 DEF HealthIInv, HealthTyped
<1>4. Current'
  BY <1>1 DEF HealthIInv, Current
<1> QED
  BY <1>1, <1>3, <1>4, MarksKept DEF HealthIInv, HealthTyped

LEMMA RefreshAsyncKeeps ==
  ASSUME HealthIInv, Health!RefreshAsync
  PROVE  HealthIInv'
<1>1. /\ asker.pc = "stale" /\ asker' = [asker EXCEPT !.pc = "answered"]
      /\ UNCHANGED <<healthCache, healthGeneration, check>> /\ asker.ext \in Extensions
  BY DEF Health!RefreshAsync, HealthIInv, HealthTyped
<1>2. asker'.pc \in {"expired", "stale"} => asker'.ext \in Extensions
  BY <1>1
<1>3. Current'
  BY <1>1 DEF HealthIInv, Current
<1>4. CASE asker.ext \in refreshing
  <2>1. UNCHANGED <<refreshing, refresh>>
    BY <1>4 DEF Health!RefreshAsync
  <2>2. HealthTyped'
    BY <1>1, <1>2, <2>1 DEF HealthIInv, HealthTyped
  <2> QED
    BY <1>1, <1>3, <2>1, <2>2, MarksKept DEF HealthIInv, HealthTyped
<1>5. CASE asker.ext \notin refreshing
  <2> DEFINE new == [ext |-> asker.ext, generation |-> healthGeneration, found |-> None]
  <2>1. PICK r \in Refreshes : refresh[r] = None /\ refresh' = [refresh EXCEPT ![r] = new]
                               /\ refreshing' = refreshing \cup {asker.ext}
    BY <1>5 DEF Health!RefreshAsync
  <2>2. new \in RefreshSet /\ new # None /\ new.ext = asker.ext
        /\ new.generation = healthGeneration
    BY <1>1, HealthAssumption DEF HealthIInv, HealthTyped, RefreshSet
  <2> HIDE DEF new
  <2>3. /\ refresh' \in [Refreshes -> RefreshSet \cup {None}] /\ refresh'[r] = new
        /\ \A s \in Refreshes : s # r => refresh'[s] = refresh[s]
    BY <2>1, <2>2 DEF HealthIInv, HealthTyped
  <2>4. HealthTyped'
    BY <1>1, <1>2, <2>1, <2>2, <2>3 DEF HealthIInv, HealthTyped
  <2>5. \A e \in Extensions : e # asker.ext => OnTheWay(e)' = OnTheWay(e)
    BY <1>1, <2>1, <2>2, <2>3 DEF OnTheWay
  <2>6. OnTheWay(asker.ext) = {}
    BY <1>1, <1>5 DEF HealthIInv, Marked
  <2>7. \A e \in Extensions : e = asker.ext => OnTheWay(e)' = {r}
    BY <1>1, <2>1, <2>2, <2>3, <2>6 DEF OnTheWay
  <2>8. Marked'
    BY <2>1, <2>5, <2>7 DEF HealthIInv, Marked
  <2> QED
    BY <1>3, <2>4, <2>8 DEF HealthIInv
<1> QED
  BY <1>4, <1>5

LEMMA RefreshKeeps ==
  ASSUME HealthIInv, NEW r \in Refreshes, Health!Probe(r) \/ Health!Land(r)
  PROVE  HealthIInv'
<1>1. CASE Health!Probe(r)
  <2>1. PICK status \in Health!Statuses : refresh' = [refresh EXCEPT ![r].found = status]
    BY <1>1 DEF Health!Probe
  <2>2. /\ refresh[r] \in RefreshSet
           /\ UNCHANGED <<healthCache, refreshing, healthGeneration, asker, check>>
    BY <1>1 DEF Health!Probe, HealthIInv, HealthTyped
  <2> DEFINE new == [refresh[r] EXCEPT !.found = status]
  <2>3. new \in RefreshSet /\ new.ext = refresh[r].ext /\ new.generation = refresh[r].generation
    BY <2>2 DEF RefreshSet
  <2>4. refresh' = [refresh EXCEPT ![r] = new]
    BY <2>1
  <2>5. new # None /\ refresh[r] # None
    BY <1>1, <2>3, HealthAssumption DEF RefreshSet, Health!Probe
  <2> HIDE DEF new
  <2>6. /\ refresh' \in [Refreshes -> RefreshSet \cup {None}] /\ refresh'[r] = new
        /\ \A s \in Refreshes : s # r => refresh'[s] = refresh[s]
    BY <2>3, <2>4 DEF HealthIInv, HealthTyped
  <2>7. HealthTyped' /\ Current'
    BY <2>2, <2>3, <2>5, <2>6 DEF HealthIInv, HealthTyped, Current
  <2>8. \A s \in Refreshes : /\ (refresh'[s] = None) <=> (refresh[s] = None)
                             /\ refresh[s] # None =>
                                  /\ refresh'[s].ext = refresh[s].ext
                                  /\ refresh'[s].generation = refresh[s].generation
    BY <2>3, <2>5, <2>6
  <2> QED
    BY <2>2, <2>6, <2>7, <2>8, MarksKept
<1>2. CASE Health!Land(r)
  <2>1. /\ refresh[r] \in RefreshSet /\ refresh[r] # None
           /\ refresh' = [refresh EXCEPT ![r] = None]
        /\ UNCHANGED <<healthGeneration, asker, check>> /\ refresh[r].ext \in Extensions
        /\ refresh[r].generation \in Nat
    BY <1>2 DEF Health!Land, HealthIInv, HealthTyped, RefreshSet
  <2>2. /\ refresh' \in [Refreshes -> RefreshSet \cup {None}] /\ refresh'[r] = None
        /\ \A s \in Refreshes : s # r => refresh'[s] = refresh[s]
    BY <2>1 DEF HealthIInv, HealthTyped
  <2>3. CASE refresh[r].generation = healthGeneration
    <3> DEFINE e == refresh[r].ext
    <3>1. Health!Store(e, refresh[r].found, "refresh", healthGeneration)
          /\ refreshing' = refreshing \ {e}
      BY <1>2, <2>3 DEF Health!Land
    <3>2. /\ healthCache' \in [Extensions -> {healthCache'[f] : f \in Extensions}]
          /\ healthCache'[e].by = "refresh" /\ healthCache'[e].clears = healthGeneration
          /\ \A f \in Extensions : f # e => healthCache'[f] = healthCache[f]
      BY <2>1, <3>1, StoreType DEF HealthIInv
    <3>3. HealthTyped' /\ Current'
      BY <2>1, <2>2, <3>1, <3>2 DEF HealthIInv, HealthTyped, Current
    <3>4. \A f \in Extensions : f # e => OnTheWay(f)' = OnTheWay(f)
      BY <2>1, <2>2 DEF OnTheWay
    <3>5. r \in OnTheWay(e)
      BY <2>1, <2>3 DEF OnTheWay
    <3>6. OnTheWay(e) = {r}
      BY <2>1, <3>5 DEF HealthIInv, Marked
    <3>7. \A f \in Extensions : f = e => OnTheWay(f)' = {}
      BY <2>1, <2>2, <3>6 DEF OnTheWay
    <3>8. Marked'
      BY <3>1, <3>4, <3>7 DEF HealthIInv, Marked
    <3> QED
      BY <3>3, <3>8 DEF HealthIInv
  <2>4. CASE refresh[r].generation # healthGeneration
    <3>1. UNCHANGED <<healthCache, refreshing>>
      BY <1>2, <2>4 DEF Health!Land
    <3>2. HealthTyped' /\ Current'
      BY <2>1, <2>2, <3>1 DEF HealthIInv, HealthTyped, Current
    <3>3. \A f \in Extensions : OnTheWay(f)' = OnTheWay(f)
      BY <2>1, <2>2, <2>4 DEF OnTheWay
    <3>4. Marked'
      BY <3>1, <3>3 DEF HealthIInv, Marked
    <3> QED
      BY <3>2, <3>4 DEF HealthIInv
  <2> QED
    BY <2>3, <2>4
<1> QED
  BY <1>1, <1>2

LEMMA EndCheckKeeps ==
  ASSUME HealthIInv, Health!EndCheck
  PROVE  HealthIInv'
<1>1. /\ check # None /\ check' = None /\ check.ext \in Extensions
      /\ Health!Store(check.ext, check.found, "check", check.clears)
      /\ UNCHANGED <<refreshing, healthGeneration, asker, refresh>>
  BY DEF Health!EndCheck, HealthIInv, HealthTyped
<1>2. /\ healthCache' \in [Extensions -> {healthCache'[f] : f \in Extensions}]
      /\ healthCache'[check.ext].by = "check"
      /\ \A f \in Extensions : f # check.ext => healthCache'[f] = healthCache[f]
  BY <1>1, StoreType DEF HealthIInv
<1>3. HealthTyped' /\ Current'
  BY <1>1, <1>2 DEF HealthIInv, HealthTyped, Current
<1> QED
  BY <1>1, <1>3, MarksKept DEF HealthIInv, HealthTyped

LEMMA ClearKeeps ==
  ASSUME HealthIInv, Health!Clear
  PROVE  HealthIInv'
<1>1. /\ healthGeneration' = healthGeneration + 1 /\ healthCache' = [e \in Extensions |-> None]
      /\ refreshing' = {} /\ UNCHANGED <<asker, refresh, check>>
  BY DEF Health!Clear
<1>2. \A r \in Refreshes : refresh[r] # None => refresh[r].generation \in Nat
                                              /\ refresh[r].generation <= healthGeneration
  BY DEF HealthIInv, HealthTyped, RefreshSet
<1>3. HealthTyped' /\ Current'
  BY <1>1, <1>2 DEF HealthIInv, HealthTyped, Current
<1>4. \A e \in Extensions : OnTheWay(e)' = {}
  BY <1>1, <1>2 DEF OnTheWay, HealthIInv, HealthTyped
<1>5. Marked'
  BY <1>1, <1>4 DEF Marked
<1> QED
  BY <1>3, <1>5 DEF HealthIInv

LEMMA HealthIInvInductive ==
  ASSUME HealthIInv, Health!Next \/ UNCHANGED Health!vars
  PROVE  HealthIInv'
<1>1. CASE UNCHANGED Health!vars
  BY <1>1 DEF Health!vars, HealthIInv, HealthTyped, Marked, OnTheWay, Current
<1>2. CASE Health!Next
  BY <1>2, AskKeeps, RefreshAsyncKeeps, RefreshKeeps, EndCheckKeeps, ClearKeeps DEF Health!Next
<1> QED
  BY <1>1, <1>2

LEMMA IInvCoalesced == HealthIInv => Health!RefreshesCoalesced
<1> SUFFICES ASSUME HealthIInv PROVE Health!RefreshesCoalesced
  OBVIOUS
<1>1. ASSUME NEW e \in Extensions
      PROVE  Cardinality(OnTheWay(e)) = IF e \in refreshing THEN 1 ELSE 0
  BY FS_EmptySet, FS_Singleton DEF HealthIInv, Marked
<1> QED
  BY <1>1, HealthSameCardinality DEF Health!RefreshesCoalesced, OnTheWay, HealthIInv, Current

-----------------------------------------------------------------------------
(* The catalog.  Who looks again, fetches or stores metadata leads the     *)
(* flight of its key, and the cache is cut to its limit by whoever stores. *)
LEMMA CatalogSameCardinality == \A S : Catalog!Cardinality(S) = Cardinality(S)
  BY DEF Catalog!Cardinality, Cardinality

CallerSet ==
    [pc : {"idle", "join", "wait", "recheck", "fetch", "store"}, key : Catalog!Keys \cup {None},
     attempt : Nat]

CatalogTyped ==
    /\ now \in Nat
    /\ expires \in [Catalog!Keys -> Nat \cup {None}]
    /\ catalogFlight \in [Metadata -> Fetchers \cup {None}]
    /\ fetcher \in [Fetchers -> CallerSet]
    /\ \A c \in Fetchers :
         /\ fetcher[c].pc = "idle" => fetcher[c].key = None
         /\ fetcher[c].pc # "idle" => fetcher[c].key \in Catalog!Keys
         /\ fetcher[c].pc \in {"join", "wait", "recheck"} => fetcher[c].key \in Metadata

\* Who looks again, fetches or stores metadata leads its flight, and what is
\* fetched is not there.
Leading ==
    \A c \in Fetchers : fetcher[c].key \in Metadata =>
      /\ fetcher[c].pc \in {"recheck", "fetch", "store"} => catalogFlight[fetcher[c].key] = c
      /\ fetcher[c].pc = "fetch" => ~Catalog!Fresh(fetcher[c].key)

InLimit == Catalog!Cardinality(Catalog!Held(expires)) <= CatalogLimit

CatalogIInv == CatalogTyped /\ Leading /\ InLimit

LEMMA CatalogIInvInit == Catalog!Init => CatalogIInv
<1> SUFFICES ASSUME Catalog!Init PROVE CatalogIInv
  OBVIOUS
<1>1. CatalogTyped /\ Leading
  BY CatalogAssumption DEF Catalog!Init, CatalogTyped, Leading, Catalog!Idle, CallerSet,
     Catalog!Keys
<1>2. Catalog!Held(expires) = {}
  BY DEF Catalog!Init, Catalog!Held
<1>3. InLimit
  BY <1>2, FS_EmptySet, CatalogSameCardinality, CatalogAssumption DEF InLimit
<1> QED
  BY <1>1, <1>3 DEF CatalogIInv

\* A step of a caller that changes neither the cache nor the flights.
LEMMA CatalogMoveKeeps ==
  ASSUME CatalogIInv, NEW c \in Fetchers, NEW s \in CallerSet,
         fetcher' = [fetcher EXCEPT ![c] = s],
         UNCHANGED <<now, expires, catalogFlight>>,
         s.pc = "idle" => s.key = None,
         s.pc # "idle" => s.key \in Catalog!Keys,
         s.pc \in {"join", "wait", "recheck"} => s.key \in Metadata,
         s.key \in Metadata
         /\ s.pc \in {"recheck", "fetch", "store"} => catalogFlight[s.key] = c,
         s.key \in Metadata /\ s.pc = "fetch" => ~Catalog!Fresh(s.key)
  PROVE  CatalogIInv'
<1>1. /\ fetcher' \in [Fetchers -> CallerSet] /\ fetcher'[c] = s
      /\ \A d \in Fetchers : d # c => fetcher'[d] = fetcher[d]
  BY DEF CatalogIInv, CatalogTyped
<1>2. CatalogTyped'
  BY <1>1 DEF CatalogIInv, CatalogTyped
<1>3. Leading'
  BY <1>1 DEF CatalogIInv, Leading, Catalog!Fresh
<1> QED
  BY <1>2, <1>3 DEF CatalogIInv, InLimit, Catalog!Held

\* Who moves on keeps its key.
LEMMA CatalogMovesType ==
  ASSUME CatalogTyped, NEW c \in Fetchers,
         NEW pc \in {"idle", "join", "wait", "recheck", "fetch", "store"},
         Catalog!Moves(c, pc)
  PROVE  \E s \in CallerSet : /\ fetcher' = [fetcher EXCEPT ![c] = s]
                              /\ s.pc = pc /\ s.key = fetcher[c].key
<1>1. fetcher[c] \in CallerSet
  BY DEF CatalogTyped
<1>2. [fetcher[c] EXCEPT !.pc = pc] \in CallerSet
      /\ [fetcher[c] EXCEPT !.pc = pc].pc = pc
         /\ [fetcher[c] EXCEPT !.pc = pc].key = fetcher[c].key
  BY <1>1 DEF CallerSet
<1>3. fetcher' = [fetcher EXCEPT ![c] = [fetcher[c] EXCEPT !.pc = pc]]
  BY DEF Catalog!Moves
<1> QED
  BY <1>2, <1>3

\* The end of a call: its flight ends with it.
LEMMA CatalogEndKeeps ==
  ASSUME CatalogIInv, NEW c \in Fetchers, Catalog!Ends(c), UNCHANGED now,
         fetcher[c].pc \in {"recheck", "fetch", "store"},
         expires' \in [Catalog!Keys -> Nat \cup {None}], InLimit',
         \A k \in Catalog!Keys : k = fetcher[c].key \/ expires'[k] \in {expires[k], None}
  PROVE  CatalogIInv'
<1>1. Catalog!Idle \in CallerSet /\ Catalog!Idle.pc = "idle" /\ Catalog!Idle.key = None
  BY DEF Catalog!Idle, CallerSet
<1>2. /\ fetcher' \in [Fetchers -> CallerSet] /\ fetcher'[c] = Catalog!Idle
      /\ catalogFlight' \in [Metadata -> Fetchers \cup {None}]
      /\ \A d \in Fetchers : fetcher'[d] = Catalog!Idle \/ (d # c /\ fetcher'[d] = fetcher[d])
      /\ \A k \in Metadata : k # fetcher[c].key => catalogFlight'[k] = catalogFlight[k]
  <2>1. CASE fetcher[c].key \in Metadata
    BY <1>1, <2>1 DEF Catalog!Ends, CatalogIInv, CatalogTyped
  <2>2. CASE fetcher[c].key \notin Metadata
    BY <1>1, <2>2 DEF Catalog!Ends, CatalogIInv, CatalogTyped
  <2> QED
    BY <2>1, <2>2
<1>3. CatalogTyped'
  BY <1>1, <1>2, CatalogAssumption DEF CatalogIInv, CatalogTyped
<1>4. ASSUME NEW d \in Fetchers, fetcher'[d].key \in Metadata,
             fetcher'[d].pc \in {"recheck", "fetch", "store"}
      PROVE  /\ catalogFlight'[fetcher'[d].key] = d
             /\ fetcher'[d].pc = "fetch" => ~Catalog!Fresh(fetcher[d].key)'
  <2>1. d # c /\ fetcher'[d] = fetcher[d]
    BY <1>1, <1>2, <1>4
  <2>2. catalogFlight[fetcher[d].key] = d
    BY <1>4, <2>1 DEF CatalogIInv, Leading
  <2>3. fetcher[d].key # fetcher[c].key
    BY <1>4, <2>1, <2>2 DEF CatalogIInv, Leading
  <2>4. fetcher[d].key \in Catalog!Keys
    BY <1>4, <2>1 DEF Catalog!Keys
  <2> QED
    BY <1>2, <1>4, <2>1, <2>2, <2>3, <2>4 DEF CatalogIInv, Leading, Catalog!Fresh
<1>5. Leading'
  BY <1>4 DEF Leading
<1> QED
  BY <1>3, <1>5 DEF CatalogIInv

LEMMA CatalogStepKeeps ==
  ASSUME CatalogIInv, NEW c \in Fetchers,
         (\E k \in Catalog!Keys : Catalog!Look(c, k)) \/ Catalog!Join(c)
         \/ Catalog!Recheck(c) \/ Catalog!Fetched(c) \/ Catalog!FetchFails(c)
  PROVE  CatalogIInv'
<1>1. ASSUME NEW k \in Catalog!Keys, Catalog!Look(c, k) PROVE CatalogIInv'
  <2> DEFINE s == IF Catalog!Fresh(k) THEN Catalog!Idle
         ELSE [pc |-> IF k \in Metadata THEN "join" ELSE "fetch", key |-> k, attempt |-> 0]
  <2>1. fetcher' = [fetcher EXCEPT ![c] = s] /\ UNCHANGED <<now, expires, catalogFlight>>
    BY <1>1 DEF Catalog!Look, Catalog!NoStore
  <2>2. s \in CallerSet
        /\ (s.pc = "idle" => s.key = None) /\ (s.pc # "idle" => s.key \in Catalog!Keys)
        /\ (s.pc = "join" => s.key \in Metadata) /\ (s.pc = "fetch" => s.key \notin Metadata)
        /\ s.pc \in {"idle", "join", "fetch"}
    BY DEF Catalog!Idle, CallerSet
  <2> HIDE DEF s
  <2> QED
    BY <2>1, <2>2, CatalogMoveKeeps, CatalogAssumption DEF Catalog!Keys
<1>2. ASSUME Catalog!Join(c) PROVE CatalogIInv'
  <2>1. UNCHANGED <<now, expires>> /\ fetcher[c].pc = "join" /\ fetcher[c].key \in Metadata
        /\ fetcher[c].key \in Catalog!Keys
    BY <1>2 DEF Catalog!Join, Catalog!NoStore, CatalogIInv, CatalogTyped, Catalog!Keys
  <2>2. CASE catalogFlight[fetcher[c].key] # None
    <3>1. Catalog!Moves(c, "wait") /\ UNCHANGED catalogFlight
      BY <1>2, <2>2 DEF Catalog!Join
    <3>2. PICK s \in CallerSet : /\ fetcher' = [fetcher EXCEPT ![c] = s]
                                 /\ s.pc = "wait" /\ s.key = fetcher[c].key
      BY <3>1, CatalogMovesType DEF CatalogIInv
    <3> QED
      BY <2>1, <3>1, <3>2, CatalogMoveKeeps
  <2>3. CASE catalogFlight[fetcher[c].key] = None
    <3>1. Catalog!Moves(c, "recheck")
          /\ catalogFlight' = [catalogFlight EXCEPT ![fetcher[c].key] = c]
      BY <1>2, <2>3 DEF Catalog!Join
    <3>2. PICK s \in CallerSet : /\ fetcher' = [fetcher EXCEPT ![c] = s]
                                 /\ s.pc = "recheck" /\ s.key = fetcher[c].key
      BY <3>1, CatalogMovesType DEF CatalogIInv
    <3>3. /\ fetcher' \in [Fetchers -> CallerSet] /\ fetcher'[c] = s
          /\ \A d \in Fetchers : d # c => fetcher'[d] = fetcher[d]
          /\ catalogFlight' \in [Metadata -> Fetchers \cup {None}]
             /\ catalogFlight'[fetcher[c].key] = c
          /\ \A k \in Metadata : k # fetcher[c].key => catalogFlight'[k] = catalogFlight[k]
      BY <2>1, <3>1, <3>2 DEF CatalogIInv, CatalogTyped
    <3>4. CatalogTyped'
      BY <2>1, <3>2, <3>3 DEF CatalogIInv, CatalogTyped
    <3>5. ASSUME NEW d \in Fetchers, fetcher'[d].key \in Metadata,
                 fetcher'[d].pc \in {"recheck", "fetch", "store"}
          PROVE  /\ catalogFlight'[fetcher'[d].key] = d
                 /\ fetcher'[d].pc = "fetch" => ~Catalog!Fresh(fetcher[d].key)'
      <4>1. CASE d = c
        BY <3>2, <3>3, <4>1
      <4>2. CASE d # c
        <5>1. fetcher'[d] = fetcher[d] /\ catalogFlight[fetcher[d].key] = d
          BY <3>3, <3>5, <4>2 DEF CatalogIInv, Leading
        <5>2. fetcher[d].key # fetcher[c].key
          BY <2>3, <5>1, CatalogAssumption
        <5> QED
          BY <2>1, <3>3, <3>5, <5>1, <5>2 DEF CatalogIInv, Leading, Catalog!Fresh
      <4> QED
        BY <4>1, <4>2
    <3>6. Leading'
      BY <3>5 DEF Leading
    <3> QED
      BY <2>1, <3>4, <3>6 DEF CatalogIInv, InLimit, Catalog!Held
  <2> QED
    BY <2>2, <2>3
<1>3. ASSUME Catalog!Recheck(c) PROVE CatalogIInv'
  <2>1. UNCHANGED <<now, expires>> /\ fetcher[c].pc = "recheck" /\ fetcher[c].key \in Metadata
        /\ fetcher[c].key \in Catalog!Keys /\ catalogFlight[fetcher[c].key] = c
    BY <1>3 DEF Catalog!Recheck, Catalog!NoStore, CatalogIInv, CatalogTyped, Leading,
       Catalog!Keys
  <2>2. CASE Catalog!Fresh(fetcher[c].key)
    <3>1. Catalog!Ends(c)
      BY <1>3, <2>2 DEF Catalog!Recheck
    <3>2. InLimit' /\ expires' \in [Catalog!Keys -> Nat \cup {None}]
      BY <2>1 DEF CatalogIInv, InLimit, Catalog!Held, CatalogTyped
    <3> QED
      BY <2>1, <3>1, <3>2, CatalogEndKeeps
  <2>3. CASE ~Catalog!Fresh(fetcher[c].key)
    <3>1. Catalog!Moves(c, "fetch") /\ UNCHANGED catalogFlight
      BY <1>3, <2>3 DEF Catalog!Recheck
    <3>2. PICK s \in CallerSet : /\ fetcher' = [fetcher EXCEPT ![c] = s]
                                 /\ s.pc = "fetch" /\ s.key = fetcher[c].key
      BY <3>1, CatalogMovesType DEF CatalogIInv
    <3> QED
      BY <2>1, <2>3, <3>1, <3>2, CatalogMoveKeeps
  <2> QED
    BY <2>2, <2>3
<1>4. ASSUME Catalog!Fetched(c) PROVE CatalogIInv'
  <2>1. UNCHANGED <<now, expires, catalogFlight>> /\ fetcher[c].pc = "fetch"
        /\ Catalog!Moves(c, "store")
    BY <1>4 DEF Catalog!Fetched, Catalog!NoStore
  <2>2. PICK s \in CallerSet : /\ fetcher' = [fetcher EXCEPT ![c] = s]
                               /\ s.pc = "store" /\ s.key = fetcher[c].key
    BY <2>1, CatalogMovesType DEF CatalogIInv
  <2> QED
    BY <2>1, <2>2, CatalogMoveKeeps DEF CatalogIInv, CatalogTyped, Leading
<1>5. ASSUME Catalog!FetchFails(c) PROVE CatalogIInv'
  <2>1. UNCHANGED <<now, expires>> /\ fetcher[c].pc = "fetch" /\ fetcher[c] \in CallerSet
        /\ fetcher[c].key \in Catalog!Keys
    BY <1>5 DEF Catalog!FetchFails, Catalog!NoStore, CatalogIInv, CatalogTyped
  <2>2. CASE Catalog!Ends(c)
    <3>1. InLimit' /\ expires' \in [Catalog!Keys -> Nat \cup {None}]
      BY <2>1 DEF CatalogIInv, InLimit, Catalog!Held, CatalogTyped
    <3> QED
      BY <2>1, <2>2, <3>1, CatalogEndKeeps
  <2>3. CASE fetcher' = [fetcher EXCEPT ![c].attempt = @ + 1] /\ UNCHANGED catalogFlight
    <3> DEFINE s == [fetcher[c] EXCEPT !.attempt = fetcher[c].attempt + 1]
    <3>1. s \in CallerSet /\ s.pc = "fetch" /\ s.key = fetcher[c].key
      BY <2>1 DEF CallerSet
    <3>2. fetcher' = [fetcher EXCEPT ![c] = s]
      BY <2>3
    <3> HIDE DEF s
    <3> QED
      BY ZenonT(40), <2>1, <2>3, <3>1, <3>2, CatalogMoveKeeps
         DEF CatalogIInv, CatalogTyped, Leading
  <2> QED
    BY <1>5, <2>2, <2>3 DEF Catalog!FetchFails
<1> QED
  BY <1>1, <1>2, <1>3, <1>4, <1>5

\* What is stored, and what the cleaning leaves of the rest.
LEMMA CutKeeps ==
  ASSUME NEW map \in [Catalog!Keys -> Nat \cup {None}], NEW periodic,
         NEW cut \in Catalog!Cleaned(map, periodic)
  PROVE  /\ cut \in [Catalog!Keys -> Nat \cup {None}]
            /\ Catalog!Cardinality(Catalog!Held(cut)) <= CatalogLimit
         /\ \A k \in Catalog!Keys : cut[k] \in {map[k], None}
<1> DEFINE pruned ==
      IF periodic
      \/ Catalog!Cardinality(Catalog!Held(map)) > CatalogLimit THEN Catalog!Pruned(map) ELSE map
<1>1. pruned \in [Catalog!Keys -> Nat \cup {None}]
      /\ \A k \in Catalog!Keys : pruned[k] \in {map[k], None}
  BY DEF Catalog!Pruned
<1>2. IF Catalog!Cardinality(Catalog!Held(pruned)) > CatalogLimit
      THEN cut \in Catalog!Trimmed(pruned)
      ELSE cut = pruned
  BY DEF Catalog!Cleaned
<1> HIDE DEF pruned
<1>3. CASE Catalog!Cardinality(Catalog!Held(pruned)) > CatalogLimit
  BY <1>1, <1>2, <1>3, CatalogAssumption DEF Catalog!Trimmed
<1>4. CASE ~(Catalog!Cardinality(Catalog!Held(pruned)) > CatalogLimit)
  <2>1. IsFiniteSet(Catalog!Keys)
    BY CatalogAssumption, FS_Union DEF Catalog!Keys
  <2>2. Catalog!Held(pruned) \subseteq Catalog!Keys
    BY DEF Catalog!Held
  <2>3. Catalog!Cardinality(Catalog!Held(pruned)) \in Nat
    BY <2>1, <2>2, FS_Subset, FS_CardinalityType, CatalogSameCardinality
  <2> QED
    BY <1>1, <1>2, <1>4, <2>3, CatalogAssumption
<1> QED
  BY <1>3, <1>4

LEMMA CatalogStoreKeeps ==
  ASSUME CatalogIInv, NEW c \in Fetchers, Catalog!Store(c)
  PROVE  CatalogIInv'
<1> DEFINE stored == [expires EXCEPT ![fetcher[c].key] = now + CatalogTTL]
<1>1. PICK periodic \in BOOLEAN : expires' \in Catalog!Cleaned(stored, periodic)
  BY DEF Catalog!Store
<1>2. Catalog!Ends(c) /\ UNCHANGED now /\ fetcher[c].pc = "store" /\ now + CatalogTTL \in Nat
  BY CatalogAssumption DEF Catalog!Store, CatalogIInv, CatalogTyped
<1>3. stored \in [Catalog!Keys -> Nat \cup {None}]
      /\ \A k \in Catalog!Keys : k # fetcher[c].key => stored[k] = expires[k]
  BY <1>2 DEF CatalogIInv, CatalogTyped
<1> HIDE DEF stored
<1>4. /\ expires' \in [Catalog!Keys -> Nat \cup {None}]
         /\ Catalog!Cardinality(Catalog!Held(expires')) <= CatalogLimit
      /\ \A k \in Catalog!Keys : expires'[k] \in {stored[k], None}
  BY <1>1, <1>3, CutKeeps
<1>5. InLimit'
  BY <1>4 DEF InLimit, Catalog!Held
<1> QED
  BY <1>2, <1>3, <1>4, <1>5, CatalogEndKeeps

LEMMA CatalogIInvInductive ==
  ASSUME CatalogIInv, Catalog!Next \/ UNCHANGED Catalog!vars
  PROVE  CatalogIInv'
<1>1. CASE UNCHANGED Catalog!vars
  BY <1>1 DEF Catalog!vars, CatalogIInv, CatalogTyped, Leading, Catalog!Fresh, InLimit,
     Catalog!Held
<1>2. CASE Catalog!Tick
  <2>1. now \in Nat /\ now' = now + 1
        /\ UNCHANGED <<expires, lastCleanup, catalogFlight, fetcher>>
    BY <1>2 DEF Catalog!Tick, Catalog!NoStore, CatalogIInv, CatalogTyped
  <2>2. \A k \in Metadata : ~Catalog!Fresh(k) => ~Catalog!Fresh(k)'
    BY <2>1 DEF Catalog!Fresh, CatalogIInv, CatalogTyped, Catalog!Keys
  <2>3. CatalogTyped'
    BY <2>1 DEF CatalogIInv, CatalogTyped
  <2>4. Leading'
    BY <2>1, <2>2 DEF CatalogIInv, Leading
  <2> QED
    BY <2>1, <2>3, <2>4 DEF CatalogIInv, InLimit, Catalog!Held
<1> QED
  BY <1>1, <1>2, CatalogStepKeeps, CatalogStoreKeeps DEF Catalog!Next

LEMMA IInvFetchedOnce == CatalogIInv => Catalog!FetchedOnce
<1> SUFFICES ASSUME CatalogIInv PROVE Catalog!FetchedOnce
  OBVIOUS
<1>1. ASSUME NEW k \in Metadata, NEW c \in Fetchers,
             fetcher[c].key = k, fetcher[c].pc \in {"fetch", "store"},
             NEW d \in Fetchers \ {c}, fetcher[d].key = k
      PROVE  fetcher[d].pc \in {"join", "wait"}
  <2>1. catalogFlight[k] = c
    BY <1>1 DEF CatalogIInv, Leading
  <2>2. fetcher[d].pc \notin {"recheck", "fetch", "store"}
    BY <1>1, <2>1 DEF CatalogIInv, Leading
  <2>3. fetcher[d].pc # "idle"
    BY <1>1, CatalogAssumption DEF CatalogIInv, CatalogTyped
  <2>4. fetcher[d] \in CallerSet
    BY DEF CatalogIInv, CatalogTyped
  <2> QED
    BY <2>2, <2>3, <2>4 DEF CallerSet
<1> QED
  BY <1>1 DEF Catalog!FetchedOnce, CatalogIInv, Leading, InLimit

-----------------------------------------------------------------------------
(* The links of a track.  Who has joined leads the flight of its key in its*)
(* table, and who asks the resolvers leads that of the URL.                *)
LEMMA PlatformsSameCardinality == \A S : Platforms!Cardinality(S) = Cardinality(S)
  BY DEF Platforms!Cardinality, Cardinality

Leaders == {"recheck", "search", "resolve", "share", "chain", "store"}
ResolverPcs == {"idle", "join", "wait"} \cup Leaders
ResolverSet ==
    [pc : ResolverPcs, table : Platforms!Tables \cup {None}, key : Platforms!Keys \cup {None},
     error : BOOLEAN, failed : BOOLEAN]
Entries == [error : BOOLEAN, failed : BOOLEAN, life : Nat, expires : Nat]
TableSet == [Platforms!Tables -> [Platforms!Keys -> Entries \cup {None}]]

PlatformsTyped ==
    /\ now \in Nat
    /\ table \in TableSet
    /\ keyFlight \in [Platforms!Tables -> [Platforms!Keys -> Resolvers \cup {None}]]
    /\ urlFlight \in [{"spotify", "deezer"} -> Resolvers \cup {None}]
    /\ resolver \in [Resolvers -> ResolverSet]
    /\ \A c \in Resolvers : resolver[c].pc # "idle" =>
         resolver[c].table \in Platforms!Tables /\ resolver[c].key \in Platforms!Keys

\* What a table of it holds.
Holds(t) == {k \in Platforms!Keys : table[t][k] # None}

\* The tables are within their limit and hold no error for long.
Bounded ==
    /\ \A t \in Platforms!Tables : Platforms!Cardinality(Holds(t)) <= LinkLimit
    /\ \A t \in Platforms!Tables, k \in Platforms!Keys :
         table[t][k] # None /\ table[t][k].error => table[t][k].life <= NegativeTTL

\* Who has joined leads the flight of its key until it is over, and what it
\* looks for is not in the table.
LeadingCall ==
    \A c \in Resolvers :
      /\ resolver[c].pc \in Leaders =>
           keyFlight[resolver[c].table][resolver[c].key] = c
      /\ resolver[c].pc \in {"search", "resolve", "share", "chain"} =>
           ~Platforms!Fresh(resolver[c].table, resolver[c].key)
      /\ resolver[c].pc = "chain" => urlFlight[Platforms!Source(resolver[c].key)] = c

PlatformsIInv == PlatformsTyped /\ Bounded /\ LeadingCall

LEMMA KeysFinite == \A S \in SUBSET Platforms!Keys : IsFiniteSet(S)
/\ Platforms!Cardinality(S) \in Nat
<1>1. IsFiniteSet({}) /\ IsFiniteSet({} \cup {"spotify"})
      /\ IsFiniteSet(({} \cup {"spotify"}) \cup {"isrc"})
  BY FS_EmptySet, FS_AddElement
<1>2. Platforms!Keys = ({} \cup {"spotify"}) \cup {"isrc"}
  BY DEF Platforms!Keys
<1>3. IsFiniteSet(Platforms!Keys)
  BY <1>1, <1>2
<1> QED
  BY <1>3, FS_Subset, FS_CardinalityType, PlatformsSameCardinality

LEMMA SourceType ==
  ASSUME NEW k \in Platforms!Keys
  PROVE  Platforms!Source(k) \in {"spotify", "deezer"}
  BY DEF Platforms!Source, Platforms!Keys

LEMMA PlatformsIInvInit == Platforms!Init => PlatformsIInv
<1> SUFFICES ASSUME Platforms!Init PROVE PlatformsIInv
  OBVIOUS
<1>1. PlatformsTyped /\ LeadingCall
  BY DEF Platforms!Init, PlatformsTyped, LeadingCall, Platforms!Idle, ResolverSet, ResolverPcs,
     TableSet, Holds, Leaders
<1>2. \A t \in Platforms!Tables : Holds(t) = {}
  BY DEF Platforms!Init, Holds
<1>3. Bounded
  <2>1. Platforms!Cardinality({}) <= LinkLimit
    BY FS_EmptySet, PlatformsSameCardinality, PlatformsAssumption
  <2>2. \A t \in Platforms!Tables, k \in Platforms!Keys : table[t][k] = None
    BY DEF Platforms!Init
  <2> QED
    BY <1>2, <2>1, <2>2 DEF Bounded
<1> QED
  BY <1>1, <1>3 DEF PlatformsIInv

\* Of the table some entries are dropped, and no more.
Shrinks == table' \in TableSet
/\ \A t \in Platforms!Tables, k \in Platforms!Keys : table'[t][k] \in {table[t][k], None}

LEMMA ShrinksKeeps ==
  ASSUME PlatformsIInv, Shrinks, UNCHANGED now
  PROVE  /\ Bounded'
         /\ \A t \in Platforms!Tables, k \in Platforms!Keys : Platforms!Fresh(t, k)' =>
              Platforms!Fresh(t, k)
<1>1. ASSUME NEW t \in Platforms!Tables
      PROVE  Platforms!Cardinality(Holds(t)') <= LinkLimit
  <2>1. Holds(t)' \subseteq Holds(t)
    BY DEF Shrinks, Holds
  <2>2. IsFiniteSet(Holds(t))
    BY KeysFinite DEF Holds
  <2>3. Platforms!Cardinality(Holds(t)') <=
          Platforms!Cardinality(Holds(t))
    BY <2>1, <2>2, FS_Subset, PlatformsSameCardinality
  <2>4. Platforms!Cardinality(Holds(t)) <= LinkLimit
    BY DEF PlatformsIInv, Bounded
  <2>5. Platforms!Cardinality(Holds(t)') \in Nat
        /\ Platforms!Cardinality(Holds(t)) \in Nat
    BY KeysFinite DEF Holds
  <2> QED
    BY <2>3, <2>4, <2>5, PlatformsAssumption
<1>2. Bounded'
  BY <1>1 DEF PlatformsIInv, Bounded, Shrinks
<1> QED
  BY <1>2 DEF Shrinks, Platforms!Fresh

LEMMA DropShrinks ==
  ASSUME PlatformsIInv, NEW t \in Platforms!Tables, NEW k \in Platforms!Keys,
         Platforms!Dropped(t, k)
  PROVE  Shrinks
<1>1. CASE table' = table
  BY <1>1 DEF Shrinks, PlatformsIInv, PlatformsTyped
<1>2. CASE table' = [table EXCEPT ![t][k] = None]
  BY <1>2 DEF Shrinks, PlatformsIInv, PlatformsTyped, TableSet
<1> QED
  BY <1>1, <1>2 DEF Platforms!Dropped

\* A step of a caller that changes no flight.
LEMMA PlatformsMoveKeeps ==
  ASSUME PlatformsIInv, NEW c \in Resolvers, NEW s \in ResolverSet,
         resolver' = [resolver EXCEPT ![c] = s],
         UNCHANGED <<now, keyFlight>>, Shrinks,
         s.pc # "idle" => s.table \in Platforms!Tables /\ s.key \in Platforms!Keys,
         s.pc \in Leaders =>
           keyFlight[s.table][s.key] = c,
         s.pc \in {"search", "resolve", "share", "chain"} => ~Platforms!Fresh(s.table, s.key),
         \/ UNCHANGED urlFlight /\ s.pc # "chain"
         \/ /\ s.pc = "chain" /\ urlFlight[Platforms!Source(s.key)] = None
            /\ urlFlight' = [urlFlight EXCEPT ![Platforms!Source(s.key)] = c]
  PROVE  PlatformsIInv'
<1>1. /\ resolver' \in [Resolvers -> ResolverSet] /\ resolver'[c] = s
      /\ \A d \in Resolvers : d # c => resolver'[d] = resolver[d]
  BY DEF PlatformsIInv, PlatformsTyped
<1>2. /\ urlFlight' \in [{"spotify", "deezer"} -> Resolvers \cup {None}]
      /\ s.pc = "chain" => urlFlight'[Platforms!Source(s.key)] = c
      /\ \A d \in Resolvers, k \in Platforms!Keys : urlFlight[Platforms!Source(k)] = d =>
           urlFlight'[Platforms!Source(k)] = d
  BY SourceType, PlatformsAssumption DEF PlatformsIInv, PlatformsTyped
<1>3. PlatformsTyped'
  BY <1>1, <1>2 DEF PlatformsIInv, PlatformsTyped, Shrinks
<1>4. \A t \in Platforms!Tables, k \in Platforms!Keys : Platforms!Fresh(t, k)' =>
        Platforms!Fresh(t, k)
  BY ShrinksKeeps
<1>5. ASSUME NEW d \in Resolvers
      PROVE  /\ resolver'[d].pc \in Leaders =>
                  keyFlight'[resolver'[d].table][resolver'[d].key] = d
             /\ resolver'[d].pc \in {"search", "resolve", "share", "chain"} =>
                  ~Platforms!Fresh(resolver[d].table, resolver[d].key)'
             /\ resolver'[d].pc = "chain" => urlFlight'[Platforms!Source(resolver'[d].key)] = d
  <2>1. CASE d = c
    BY <1>1, <1>2, <1>4, <2>1
  <2>2. CASE d # c
    <3>1. resolver'[d] = resolver[d]
      BY <1>1, <2>2
    <3>2. resolver[d].pc # "idle" => resolver[d].table \in Platforms!Tables
          /\ resolver[d].key \in Platforms!Keys
      BY DEF PlatformsIInv, PlatformsTyped
    <3> QED
      BY <1>2, <1>4, <3>1, <3>2 DEF PlatformsIInv, LeadingCall
  <2> QED
    BY <2>1, <2>2
<1>6. LeadingCall'
  BY <1>5 DEF LeadingCall
<1> QED
  BY <1>3, <1>6, ShrinksKeeps DEF PlatformsIInv

LEMMA PlatformsMovesType ==
  ASSUME PlatformsTyped, NEW c \in Resolvers, NEW pc \in ResolverPcs, Platforms!Moves(c, pc)
  PROVE  \E s \in ResolverSet : /\ resolver' = [resolver EXCEPT ![c] = s]
                                /\ s.pc = pc /\ s.key = resolver[c].key
                                   /\ s.table = resolver[c].table
<1>1. resolver[c] \in ResolverSet
  BY DEF PlatformsTyped
<1> DEFINE s == [resolver[c] EXCEPT !.pc = pc]
<1>2. s \in ResolverSet /\ s.pc = pc /\ s.key = resolver[c].key /\ s.table = resolver[c].table
  BY <1>1 DEF ResolverSet
<1>3. resolver' = [resolver EXCEPT ![c] = s]
  BY DEF Platforms!Moves
<1> HIDE DEF s
<1> QED
  BY <1>2, <1>3

\* The end of a call: its flight ends with it.
LEMMA PlatformsEndKeeps ==
  ASSUME PlatformsIInv, NEW c \in Resolvers, Platforms!Ends(c), UNCHANGED <<now, urlFlight>>,
         resolver[c].pc \in {"recheck", "store"}, table' \in TableSet, Bounded',
         \A t \in Platforms!Tables, k \in Platforms!Keys :
           \/ t = resolver[c].table /\ k = resolver[c].key
           \/ table'[t][k] \in {table[t][k], None}
  PROVE  PlatformsIInv'
<1>1. resolver[c].table \in Platforms!Tables /\ resolver[c].key \in Platforms!Keys
  BY DEF PlatformsIInv, PlatformsTyped
<1>2. Platforms!Idle \in ResolverSet /\ Platforms!Idle.pc = "idle"
  BY DEF Platforms!Idle, ResolverSet, ResolverPcs
<1>3. /\ resolver' \in [Resolvers -> ResolverSet] /\ resolver'[c] = Platforms!Idle
      /\ keyFlight' \in [Platforms!Tables -> [Platforms!Keys -> Resolvers \cup {None}]]
      /\ \A d \in Resolvers : resolver'[d] = Platforms!Idle
         \/ (d # c /\ resolver'[d] = resolver[d])
      /\ \A t \in Platforms!Tables, k \in Platforms!Keys :
           \/ t = resolver[c].table /\ k = resolver[c].key
           \/ keyFlight'[t][k] = keyFlight[t][k]
  BY <1>1, <1>2 DEF Platforms!Ends, PlatformsIInv, PlatformsTyped
<1>4. PlatformsTyped'
  BY <1>2, <1>3 DEF PlatformsIInv, PlatformsTyped
<1>5. ASSUME NEW d \in Resolvers
      PROVE  /\ resolver'[d].pc \in Leaders =>
                  keyFlight'[resolver'[d].table][resolver'[d].key] = d
             /\ resolver'[d].pc \in {"search", "resolve", "share", "chain"} =>
                  ~Platforms!Fresh(resolver[d].table, resolver[d].key)'
             /\ resolver'[d].pc = "chain" => urlFlight'[Platforms!Source(resolver'[d].key)] = d
  <2>1. CASE resolver'[d] = Platforms!Idle
    BY <1>2, <2>1 DEF Leaders
  <2>2. CASE resolver'[d] # Platforms!Idle
    <3>1. d # c /\ resolver'[d] = resolver[d]
      BY <1>3, <2>2
    <3>2. resolver[d].pc # "idle" => resolver[d].table \in Platforms!Tables
          /\ resolver[d].key \in Platforms!Keys
      BY DEF PlatformsIInv, PlatformsTyped
    <3>3. keyFlight[resolver[c].table][resolver[c].key] = c
      BY DEF PlatformsIInv, LeadingCall, Leaders
    <3>4. resolver[d].pc \in Leaders =>
            /\ keyFlight[resolver[d].table][resolver[d].key] = d
            /\ ~(resolver[d].table = resolver[c].table /\ resolver[d].key = resolver[c].key)
      BY <3>1, <3>3 DEF PlatformsIInv, LeadingCall
    <3>5. resolver[d].pc \in Leaders =>
            /\ keyFlight'[resolver[d].table][resolver[d].key] = d
            /\ Platforms!Fresh(resolver[d].table, resolver[d].key)' =>
                 Platforms!Fresh(resolver[d].table, resolver[d].key)
      <4>1. CASE resolver[d].pc \in Leaders
        <5>1. resolver[d].table \in Platforms!Tables /\ resolver[d].key \in Platforms!Keys
          BY <3>2, <4>1 DEF Leaders
        <5>2. keyFlight'[resolver[d].table][resolver[d].key] = d
          BY <1>3, <3>4, <4>1, <5>1
        <5>3. table'[resolver[d].table][resolver[d].key]
                \in {table[resolver[d].table][resolver[d].key], None}
          BY <3>4, <4>1, <5>1
        <5> QED
          BY <3>1, <5>2, <5>3 DEF Platforms!Fresh
      <4> QED
        BY <4>1
    <3> QED
      BY <3>1, <3>5 DEF PlatformsIInv, LeadingCall, Leaders
  <2> QED
    BY <2>1, <2>2
<1>6. LeadingCall'
  BY <1>5 DEF LeadingCall
<1> QED
  BY <1>4, <1>6 DEF PlatformsIInv

LEMMA PlatformsCallKeeps ==
  ASSUME PlatformsIInv, NEW c \in Resolvers,
         \/ \E t \in Platforms!Tables, k \in Platforms!Keys : Platforms!Look(c, t, k)
         \/ Platforms!Join(c) \/ Platforms!Recheck(c) \/ Platforms!SearchISRC(c)
            \/ Platforms!Resolve(c)
  PROVE  PlatformsIInv'
<1>1. ASSUME NEW t \in Platforms!Tables, NEW k \in Platforms!Keys,
             Platforms!Look(c, t, k) PROVE PlatformsIInv'
  <2> DEFINE s == IF Platforms!Fresh(t, k) THEN Platforms!Idle
                  ELSE [Platforms!Idle EXCEPT !.pc = "join", !.table = t, !.key = k]
  <2>1. resolver' = [resolver EXCEPT ![c] = s] /\ UNCHANGED <<now, keyFlight, urlFlight>>
        /\ Shrinks
    BY <1>1, DropShrinks DEF Platforms!Look
  <2>2. /\ s \in ResolverSet /\ s.pc \in {"idle", "join"}
        /\ s.pc # "idle" => s.table \in Platforms!Tables /\ s.key \in Platforms!Keys
    BY DEF Platforms!Idle, ResolverSet, ResolverPcs
  <2> HIDE DEF s
  <2> QED
    BY <2>1, <2>2, PlatformsMoveKeeps DEF Leaders
<1> DEFINE t == resolver[c].table
           k == resolver[c].key
<1>2. table' = table => Shrinks
  BY DEF Shrinks, PlatformsIInv, PlatformsTyped
<1>3. resolver[c].pc # "idle" => t \in Platforms!Tables /\ k \in Platforms!Keys
  BY DEF PlatformsIInv, PlatformsTyped
<1>4. ASSUME Platforms!Join(c) PROVE PlatformsIInv'
  <2>1. UNCHANGED <<now, table, urlFlight>> /\ t \in Platforms!Tables /\ k \in Platforms!Keys
    BY <1>3, <1>4 DEF Platforms!Join
  <2>2. CASE keyFlight[t][k] # None
    <3>1. Platforms!Moves(c, "wait") /\ UNCHANGED keyFlight
      BY <1>4, <2>2 DEF Platforms!Join
    <3>2. PICK s \in ResolverSet : resolver' = [resolver EXCEPT ![c] = s] /\ s.pc = "wait"
                                   /\ s.key = k /\ s.table = t
      BY <3>1, PlatformsMovesType DEF PlatformsIInv, ResolverPcs
    <3> QED
      BY <1>2, <2>1, <3>1, <3>2, PlatformsMoveKeeps DEF Leaders
  <2>3. CASE keyFlight[t][k] = None
    <3>1. Platforms!Moves(c, "recheck") /\ keyFlight' = [keyFlight EXCEPT ![t][k] = c]
      BY <1>4, <2>3 DEF Platforms!Join
    <3>2. PICK s \in ResolverSet : resolver' = [resolver EXCEPT ![c] = s] /\ s.pc = "recheck"
                                   /\ s.key = k /\ s.table = t
      BY <3>1, PlatformsMovesType DEF PlatformsIInv, ResolverPcs, Leaders
    <3>3. /\ resolver' \in [Resolvers -> ResolverSet] /\ resolver'[c] = s
          /\ \A d \in Resolvers : d # c => resolver'[d] = resolver[d]
      BY <3>2 DEF PlatformsIInv, PlatformsTyped
    <3>4. /\ keyFlight' \in [Platforms!Tables -> [Platforms!Keys -> Resolvers \cup {None}]]
          /\ keyFlight'[t][k] = c
          /\ \A u \in Platforms!Tables, l \in Platforms!Keys :
               keyFlight[u][l] # None => keyFlight'[u][l] = keyFlight[u][l]
      BY <2>1, <2>3, <3>1 DEF PlatformsIInv, PlatformsTyped
    <3>5. PlatformsTyped'
      BY <2>1, <3>2, <3>3, <3>4 DEF PlatformsIInv, PlatformsTyped
    <3>6. ASSUME NEW d \in Resolvers
          PROVE  /\ resolver'[d].pc \in Leaders =>
                      keyFlight'[resolver'[d].table][resolver'[d].key] = d
                 /\ resolver'[d].pc \in {"search", "resolve", "share", "chain"} =>
                      ~Platforms!Fresh(resolver[d].table, resolver[d].key)'
                 /\ resolver'[d].pc = "chain" =>
                      urlFlight'[Platforms!Source(resolver'[d].key)] = d
      <4>1. CASE d = c
        BY <3>2, <3>3, <3>4, <4>1
      <4>2. CASE d # c
        <5>1. resolver'[d] = resolver[d]
          BY <3>3, <4>2
        <5>2. resolver[d].pc # "idle" => resolver[d].table \in Platforms!Tables
              /\ resolver[d].key \in Platforms!Keys
          BY DEF PlatformsIInv, PlatformsTyped
        <5> QED
          BY <2>1, <3>4, <5>1, <5>2, PlatformsAssumption DEF PlatformsIInv, LeadingCall,
             Platforms!Fresh, Leaders
      <4> QED
        BY <4>1, <4>2
    <3>7. LeadingCall'
      BY <3>6 DEF LeadingCall
    <3> QED
      BY <1>2, <2>1, <3>5, <3>7, ShrinksKeeps DEF PlatformsIInv
  <2> QED
    BY <2>2, <2>3
<1>5. ASSUME Platforms!Recheck(c) PROVE PlatformsIInv'
  <2>1. UNCHANGED <<now, urlFlight>> /\ t \in Platforms!Tables /\ k \in Platforms!Keys
        /\ Platforms!Dropped(t, k)
        /\ resolver[c].pc = "recheck" /\ keyFlight[t][k] = c
    BY <1>3, <1>5 DEF Platforms!Recheck, PlatformsIInv, LeadingCall, Leaders
  <2>2. Shrinks
    BY <2>1, DropShrinks
  <2>3. CASE Platforms!Fresh(t, k)
    <3>1. Platforms!Ends(c)
      BY <1>5, <2>3 DEF Platforms!Recheck
    <3>2. Bounded' /\ table' \in TableSet
      BY <2>1, <2>2, ShrinksKeeps DEF Shrinks
    <3> QED
      BY <2>1, <2>2, <3>1, <3>2, PlatformsEndKeeps DEF Shrinks
  <2>4. CASE ~Platforms!Fresh(t, k)
    <3>1. PICK pc \in {"search", "resolve"} : Platforms!Moves(c, pc) /\ UNCHANGED keyFlight
      BY <1>5, <2>4 DEF Platforms!Recheck
    <3>2. PICK s \in ResolverSet : resolver' = [resolver EXCEPT ![c] = s] /\ s.pc = pc
                                   /\ s.key = k /\ s.table = t
      BY <3>1, PlatformsMovesType DEF PlatformsIInv, ResolverPcs, Leaders
    <3> QED
      BY <2>1, <2>2, <2>4, <3>1, <3>2, PlatformsMoveKeeps
  <2> QED
    BY <2>3, <2>4
<1>6. ASSUME Platforms!SearchISRC(c) PROVE PlatformsIInv'
  <2>1. PICK pc \in {"resolve", "store"} : Platforms!Moves(c, pc)
    BY <1>6 DEF Platforms!SearchISRC
  <2>2. PICK s \in ResolverSet : resolver' = [resolver EXCEPT ![c] = s] /\ s.pc = pc
                                 /\ s.key = k /\ s.table = t
    BY <2>1, PlatformsMovesType DEF PlatformsIInv, ResolverPcs, Leaders
  <2>3. UNCHANGED <<now, table, keyFlight, urlFlight>> /\ resolver[c].pc = "search"
    BY <1>6 DEF Platforms!SearchISRC
  <2>4. keyFlight[t][k] = c /\ ~Platforms!Fresh(t, k)
    BY <2>3 DEF PlatformsIInv, LeadingCall, Leaders
  <2> QED
    BY <1>2, <1>3, <2>1, <2>2, <2>3, <2>4, PlatformsMoveKeeps
<1>7. ASSUME Platforms!Resolve(c) PROVE PlatformsIInv'
  <2>1. UNCHANGED <<now, table, keyFlight>> /\ resolver[c].pc = "resolve"
        /\ keyFlight[t][k] = c /\ ~Platforms!Fresh(t, k) /\ t \in Platforms!Tables
           /\ k \in Platforms!Keys
    BY <1>3, <1>7 DEF Platforms!Resolve, PlatformsIInv, LeadingCall, Leaders
  <2>2. CASE urlFlight[Platforms!Source(k)] # None
    <3>1. Platforms!Moves(c, "share") /\ UNCHANGED urlFlight
      BY <1>7, <2>2 DEF Platforms!Resolve
    <3>2. PICK s \in ResolverSet : resolver' = [resolver EXCEPT ![c] = s] /\ s.pc = "share"
                                   /\ s.key = k /\ s.table = t
      BY <3>1, PlatformsMovesType DEF PlatformsIInv, ResolverPcs, Leaders
    <3> QED
      BY <1>2, <2>1, <3>1, <3>2, PlatformsMoveKeeps
  <2>3. CASE urlFlight[Platforms!Source(k)] = None
    <3>1. Platforms!Moves(c, "chain")
          /\ urlFlight' = [urlFlight EXCEPT ![Platforms!Source(k)] = c]
      BY <1>7, <2>3 DEF Platforms!Resolve
    <3>2. PICK s \in ResolverSet : resolver' = [resolver EXCEPT ![c] = s] /\ s.pc = "chain"
                                   /\ s.key = k /\ s.table = t
      BY <3>1, PlatformsMovesType DEF PlatformsIInv, ResolverPcs, Leaders
    <3> QED
      BY <1>2, <2>1, <2>3, <3>1, <3>2, PlatformsMoveKeeps
  <2> QED
    BY <2>2, <2>3
<1> QED
  BY <1>1, <1>4, <1>5, <1>6, <1>7

\* The chain has ended: who shares its answer goes on with it.
LEMMA ResolvedKeeps ==
  ASSUME PlatformsIInv, NEW c \in Resolvers, Platforms!Resolved(c)
  PROVE  PlatformsIInv'
<1> DEFINE s == Platforms!Source(resolver[c].key)
           told(d) == d = c
           \/ (resolver[d].pc = "share" /\ Platforms!Source(resolver[d].key) = s)
<1>1. /\ resolver[c].pc = "chain" /\ UNCHANGED <<now, table, keyFlight>>
      /\ urlFlight' = [urlFlight EXCEPT ![s] = None]
      /\ resolver[c].key \in Platforms!Keys /\ s \in {"spotify", "deezer"} /\ urlFlight[s] = c
  BY ZenonT(40), SourceType DEF Platforms!Resolved, PlatformsIInv, PlatformsTyped, LeadingCall
<1>2. PICK o \in Platforms!Outcomes(s) : resolver' = [d \in Resolvers |->
              IF told(d)
                THEN [resolver[d] EXCEPT !.pc = "store", !.error = o.error,
                                       !.failed = o.failed]
                ELSE resolver[d]]
  BY DEF Platforms!Resolved
<1>3. o.error \in BOOLEAN /\ o.failed \in BOOLEAN
  <2>1. PICK answers \in [1 .. 4 -> Platforms!Answers] :
          o = [error |-> Platforms!Chain(answers, s) = {},
               failed |-> \A i \in 1 .. 4 : answers[i] = Platforms!NoAnswers]
    BY DEF Platforms!Outcomes
  <2> DEFINE error == Platforms!Chain(answers, s) = {}
             failed == \A i \in 1 .. 4 : answers[i] = Platforms!NoAnswers
  <2>2. error \in BOOLEAN /\ failed \in BOOLEAN /\ o = [error |-> error, failed |-> failed]
    BY <2>1
  <2> HIDE DEF error, failed
  <2> QED
    BY <2>2
<1>4. ASSUME NEW d \in Resolvers
      PROVE  /\ resolver'[d] \in ResolverSet /\ resolver'[d].table = resolver[d].table
             /\ resolver'[d].key = resolver[d].key
             /\ told(d) => resolver'[d].pc = "store" /\ resolver[d].pc \in {"share", "chain"}
             /\ ~told(d) => resolver'[d].pc = resolver[d].pc
  <2>1. resolver[d] \in ResolverSet
    BY DEF PlatformsIInv, PlatformsTyped
  <2>2. CASE told(d)
    <3>1. resolver'[d] = [resolver[d] EXCEPT !.pc = "store", !.error = o.error,
                                              !.failed = o.failed]
      BY <1>2, <2>2
    <3>2. resolver[d].pc \in {"share", "chain"}
      BY <1>1, <2>2
    <3> HIDE DEF told
    <3> QED
      BY <1>3, <2>1, <2>2, <3>1, <3>2 DEF ResolverSet, ResolverPcs, Leaders
  <2>3. CASE ~told(d)
    BY <1>2, <2>1, <2>3
  <2> QED
    BY <2>2, <2>3
<1>5. /\ urlFlight' \in [{"spotify", "deezer"} -> Resolvers \cup {None}]
      /\ \A k \in Platforms!Keys : Platforms!Source(k) # s =>
           urlFlight'[Platforms!Source(k)] = urlFlight[Platforms!Source(k)]
  BY <1>1, SourceType DEF PlatformsIInv, PlatformsTyped
<1>6. resolver' \in [Resolvers -> ResolverSet]
  <2>1. DOMAIN resolver' = Resolvers /\ resolver' = [d \in Resolvers |-> resolver'[d]]
    BY <1>2
  <2> QED
    BY <1>4, <2>1
<1>7. ASSUME NEW d \in Resolvers, resolver'[d].pc = "chain"
      PROVE  urlFlight'[Platforms!Source(resolver'[d].key)] = d
  <2>1. ~told(d) /\ resolver[d].pc = "chain" /\ resolver'[d].key = resolver[d].key
    BY <1>4, <1>7
  <2>2. urlFlight[Platforms!Source(resolver[d].key)] = d
        /\ resolver[d].key \in Platforms!Keys /\ d # c
    BY <2>1 DEF PlatformsIInv, LeadingCall, PlatformsTyped
  <2>3. Platforms!Source(resolver[d].key) # s
    BY <1>1, <2>2
  <2> QED
    BY <1>5, <2>1, <2>2, <2>3
<1> HIDE DEF told, s
<1>8. ASSUME NEW d \in Resolvers
      PROVE  /\ resolver'[d].pc # "idle" =>
                  resolver'[d].table \in Platforms!Tables /\ resolver'[d].key \in Platforms!Keys
             /\ resolver'[d].pc \in Leaders =>
                  keyFlight'[resolver'[d].table][resolver'[d].key] = d
             /\ resolver'[d].pc \in {"search", "resolve", "share", "chain"} =>
                  ~Platforms!Fresh(resolver[d].table, resolver[d].key)'
  <2>1. CASE told(d)
    BY <1>1, <1>4, <2>1 DEF PlatformsIInv, PlatformsTyped, LeadingCall, Leaders
  <2>2. CASE ~told(d)
    BY <1>1, <1>4, <2>2 DEF PlatformsIInv, PlatformsTyped, LeadingCall, Platforms!Fresh
  <2> QED
    BY <2>1, <2>2
<1>9. PlatformsTyped'
  BY <1>1, <1>5, <1>6, <1>8 DEF PlatformsIInv, PlatformsTyped
<1>10. LeadingCall'
  BY <1>7, <1>8 DEF LeadingCall
<1> QED
  BY <1>1, <1>9, <1>10 DEF PlatformsIInv, Bounded, Holds, Leaders

LEMMA PlatformsStoreKeeps ==
  ASSUME PlatformsIInv, NEW c \in Resolvers, Platforms!Store(c)
  PROVE  PlatformsIInv'
<1> DEFINE t == resolver[c].table
           k == resolver[c].key
           held == {l \in Platforms!Keys \ {k} : table[t][l] # None}
           full == table[t][k] = None /\ Platforms!Cardinality(held) >= LinkLimit
           life == IF resolver[c].error THEN NegativeTTL ELSE LinkTTL
           new == [error |-> resolver[c].error, failed |-> resolver[c].failed,
                   life |-> life, expires |-> now + life]
<1>1. resolver[c].pc = "store" /\ Platforms!Ends(c) /\ UNCHANGED <<now, urlFlight>>
      /\ t \in Platforms!Tables /\ k \in Platforms!Keys /\ resolver[c] \in ResolverSet
  BY DEF Platforms!Store, PlatformsIInv, PlatformsTyped
<1>2. PICK kept \in SUBSET held :
        /\ ~full \/ \E l \in held : kept = held \ {l}
        /\ table' = [table EXCEPT ![t] = [l \in Platforms!Keys |->
              IF l = k THEN new ELSE IF l \in kept THEN table[t][l] ELSE None]]
  BY DEF Platforms!Store
<1>3. new \in Entries /\ (new.error => new.life <= NegativeTTL)
  BY <1>1, PlatformsAssumption DEF Entries, ResolverSet, PlatformsIInv, PlatformsTyped
<1>4. held \subseteq Platforms!Keys \ {k} /\ IsFiniteSet(held)
      /\ Platforms!Cardinality(held) \in Nat
  BY KeysFinite
<1>5. Platforms!Cardinality(kept \cup {k}) <= LinkLimit
  <2>1. IsFiniteSet(kept) /\ Platforms!Cardinality(kept) \in Nat
        /\ Platforms!Cardinality(kept) <= Platforms!Cardinality(held)
        /\ k \notin kept
    BY <1>4, KeysFinite, FS_Subset, PlatformsSameCardinality
  <2>2. Platforms!Cardinality(kept \cup {k}) = Platforms!Cardinality(kept) + 1
    BY <2>1, FS_AddElement, PlatformsSameCardinality
  <2>3. CASE full
    <3>1. PICK l \in held : kept = held \ {l}
      BY <1>2, <2>3
    <3>2. Platforms!Cardinality(held \ {l}) = Platforms!Cardinality(held) - 1
      BY <1>4, FS_RemoveElement, PlatformsSameCardinality
    <3>3. Platforms!Cardinality(held) <= LinkLimit
      <4>1. held \subseteq Holds(t)
        BY DEF Holds
      <4>2. Platforms!Cardinality(Holds(t)) <= LinkLimit
            /\ IsFiniteSet(Holds(t))
            /\ Platforms!Cardinality(Holds(t)) \in Nat
        BY <1>1, KeysFinite DEF PlatformsIInv, Bounded, Holds
      <4>3. Platforms!Cardinality(held) <= Platforms!Cardinality(Holds(t))
        BY <4>1, <4>2, FS_Subset, PlatformsSameCardinality
      <4> HIDE DEF held
      <4> QED
        BY <1>4, <4>2, <4>3, PlatformsAssumption
    <3> HIDE DEF held
    <3> QED
      BY <1>4, <2>2, <3>1, <3>2, <3>3, PlatformsAssumption
  <2>4. CASE table[t][k] = None /\ ~full
    <3>1. ~(Platforms!Cardinality(held) >= LinkLimit)
      BY <2>4
    <3> HIDE DEF held
    <3> QED
      BY <1>4, <2>1, <2>2, <3>1, PlatformsAssumption
  <2>5. CASE table[t][k] # None
    <3>1. kept \cup {k} \subseteq Holds(t)
      BY <1>1, <2>5 DEF Holds
    <3>2. Platforms!Cardinality(Holds(t)) <= LinkLimit
          /\ IsFiniteSet(Holds(t))
          /\ Platforms!Cardinality(Holds(t)) \in Nat
      BY <1>1, KeysFinite DEF PlatformsIInv, Bounded, Holds
    <3>3. Platforms!Cardinality(kept \cup {k}) <= Platforms!Cardinality(Holds(t))
      BY <3>1, <3>2, FS_Subset, PlatformsSameCardinality
    <3> HIDE DEF held
    <3> QED
      BY <2>1, <2>2, <3>2, <3>3, PlatformsAssumption
  <2> QED
    BY <2>3, <2>4, <2>5
<1> HIDE DEF new, held, full
<1>6. /\ table' \in TableSet
      /\ table'[t][k] = new
      /\ \A l \in Platforms!Keys : l # k => table'[t][l] \in {table[t][l], None}
      /\ \A l \in Platforms!Keys : l # k /\ table'[t][l] # None => l \in kept
      /\ \A u \in Platforms!Tables : u # t => table'[u] = table[u]
  <2>1. table \in TableSet
    BY DEF PlatformsIInv, PlatformsTyped
  <2> HIDE DEF t, k
  <2> QED
    BY <1>1, <1>2, <1>3, <2>1 DEF TableSet
<1>7. ASSUME NEW u \in Platforms!Tables PROVE Platforms!Cardinality(Holds(u)') <= LinkLimit
  <2>1. CASE u = t
    <3>1. Holds(u)' \subseteq kept \cup {k}
      BY <1>6, <2>1 DEF Holds
    <3>2. kept \cup {k} \subseteq Platforms!Keys
      BY <1>1, <1>4
    <3>3. Platforms!Cardinality(Holds(u)') <= Platforms!Cardinality(kept \cup {k})
      BY <3>1, <3>2, KeysFinite, FS_Subset, PlatformsSameCardinality
    <3>4. Platforms!Cardinality(Holds(u)') \in Nat
          /\ Platforms!Cardinality(kept \cup {k}) \in Nat
      BY <3>2, KeysFinite DEF Holds
    <3> QED
      BY <1>5, <3>3, <3>4, PlatformsAssumption
  <2>2. CASE u # t
    BY <1>6, <2>2 DEF PlatformsIInv, Bounded, Holds
  <2> QED
    BY <2>1, <2>2
<1>8. Bounded'
  <2>1. ASSUME NEW u \in Platforms!Tables, NEW l \in Platforms!Keys, table'[u][l] # None,
               table'[u][l].error
        PROVE  table'[u][l].life <= NegativeTTL
    <3>1. CASE u = t /\ l = k
      BY <1>3, <1>6, <2>1, <3>1
    <3>2. CASE ~(u = t /\ l = k)
      <4>1. table'[u][l] = table[u][l]
        BY <1>6, <2>1, <3>2
      <4> QED
        BY <2>1, <4>1 DEF PlatformsIInv, Bounded
    <3> QED
      BY <3>1, <3>2
  <2> QED
    BY <1>7, <2>1 DEF Bounded
<1>9. \A u \in Platforms!Tables, l \in Platforms!Keys :
        (u = t /\ l = k) \/ table'[u][l] \in {table[u][l], None}
  BY <1>6
<1> QED
  BY <1>1, <1>6, <1>8, <1>9, PlatformsEndKeeps

LEMMA PlatformsIInvInductive ==
  ASSUME PlatformsIInv, Platforms!Next \/ UNCHANGED Platforms!vars
  PROVE  PlatformsIInv'
<1>1. CASE UNCHANGED Platforms!vars
  BY <1>1 DEF Platforms!vars, PlatformsIInv, PlatformsTyped, Bounded, LeadingCall,
     Platforms!Fresh, Leaders, Holds
<1>2. CASE Platforms!Tick
  <2>1. now \in Nat /\ now' = now + 1 /\ UNCHANGED <<table, keyFlight, urlFlight, resolver>>
    BY <1>2 DEF Platforms!Tick, PlatformsIInv, PlatformsTyped
  <2>2. ASSUME NEW t \in Platforms!Tables, NEW k \in Platforms!Keys,
               Platforms!Fresh(t, k)' PROVE Platforms!Fresh(t, k)
    <3>1. table[t][k] \in Entries \cup {None}
      BY DEF PlatformsIInv, PlatformsTyped, TableSet
    <3> QED
      BY <2>1, <2>2, <3>1 DEF Platforms!Fresh, Entries
  <2>3. PlatformsTyped' /\ Bounded'
    BY <2>1 DEF PlatformsIInv, PlatformsTyped, Bounded, Holds
  <2>4. LeadingCall'
    BY <2>1, <2>2 DEF PlatformsIInv, LeadingCall, PlatformsTyped
  <2> QED
    BY <2>3, <2>4 DEF PlatformsIInv
<1> QED
  BY <1>1, <1>2, PlatformsCallKeeps, ResolvedKeeps, PlatformsStoreKeeps DEF Platforms!Next

LEMMA IInvResolvedOnce == PlatformsIInv => Platforms!ResolvedOnce
<1> SUFFICES ASSUME PlatformsIInv PROVE Platforms!ResolvedOnce
  OBVIOUS
<1> QED
  BY DEF Platforms!ResolvedOnce, PlatformsIInv, Bounded, LeadingCall, Holds, Leaders

\* AskedOnce: an extension is marked for as long as one refresh of it is on its
\* way, metadata is fetched by one caller at a time and not while it is known,
\* the links of a track are resolved by one, and the caches stay within their
\* limits (RefreshExtensionHealthAsync, metadataFlight, resolveTrackPlatforms).
THEOREM AskedOnceHolds == MCSpec => []AskedOnce
<1> DEFINE Inv == /\ which = "health" => HealthIInv
                  /\ which = "catalog" => CatalogIInv
                  /\ which = "platforms" => PlatformsIInv
<1>1. MCInit => Inv
  BY HealthIInvInit, CatalogIInvInit, PlatformsIInvInit DEF MCInit
<1>2. Inv /\ [MCNext]_all => Inv'
  BY ServiceStep, HealthIInvInductive, CatalogIInvInductive, PlatformsIInvInductive
<1>3. Inv => AskedOnce
  BY IInvCoalesced, IInvFetchedOnce, IInvResolvedOnce DEF AskedOnce
<1> QED
  BY <1>1, <1>2, <1>3, PTL DEF MCSpec

-----------------------------------------------------------------------------
(* What is remembered of searches for lyrics.  A writer that need not begin*)
(* again has the cache in its snapshot, and then in the file, with nothing *)
(* else than what was dropped; an open cache has the entries of the file.  *)
LEMMA KeptSameCardinality == \A S : Kept!Cardinality(S) = Cardinality(S)
  BY DEF Kept!Cardinality, Cardinality

LEMMA SameInjective == \A f : Kept!IsInjective(f) = IsInjective(f)
  BY DEF Kept!IsInjective, IsInjective

KeptTyped ==
    /\ lyricsCache \in Seq(Kept!ToSet(lyricsCache))
    /\ IsFiniteSet(lyricsFile) /\ IsFiniteSet(writer.entries)
    /\ ~opened => writer.pc = "none"
    /\ writer \in [pc : {"none", "asleep", "writing", "written"}, entries : {writer.entries},
                   generation : Nat]

\* What was cached is there, and else what was dropped only.
Covers(entries) ==
    /\ Kept!ToSet(lyricsCache) \subseteq entries
    /\ entries \subseteq Kept!ToSet(lyricsCache) \cup dropped

\* A writer that need not begin again has, or is about to have, the cache in
\* the file.
Caught ==
    opened =>
      /\ writer.pc \in {"writing", "written"} /\ writer.generation = persistGeneration =>
           Covers(writer.entries)
      /\ writer.pc = "none" /\ ~behind => Covers(lyricsFile)
      /\ writer.pc = "written" /\ writer.generation = persistGeneration /\ ~behind =>
           Covers(lyricsFile)

Counted ==
    /\ persistGeneration \in Nat /\ writer.generation \in Nat
    /\ writer.generation <= persistGeneration

KeptIInv == KeptTyped /\ Counted /\ Caught

LEMMA SeqFinite ==
  ASSUME NEW S, NEW s \in Seq(S)
  PROVE  /\ Kept!ToSet(s) \subseteq S /\ s \in Seq(Kept!ToSet(s)) /\ IsFiniteSet(Kept!ToSet(s))
<1>1. Kept!ToSet(s) \subseteq S /\ s \in Seq(Kept!ToSet(s))
      /\ s \in [1 .. Len(s) -> Kept!ToSet(s)]
      /\ Len(s) \in Nat
  BY DEF Kept!ToSet
<1>2. \A x \in Kept!ToSet(s) : \E i \in 1 .. Len(s) : s[i] = x
  BY DEF Kept!ToSet
<1>3. ExistsSurjection(1 .. Len(s), Kept!ToSet(s))
  BY <1>1, <1>2 DEF ExistsSurjection, Surjection
<1> QED
  BY <1>1, <1>3, FS_NatSurjection

\* A sequence of a finite set has its elements.
LEMMA SequenceOfSet ==
  ASSUME NEW S, IsFiniteSet(S)
  PROVE  Kept!SetToSeq(S) \in Seq(S) /\ Kept!ToSet(Kept!SetToSeq(S)) = S
<1> DEFINE n == Cardinality(S)
<1>1. n \in Nat /\ ExistsBijection(1 .. n, S)
  BY FS_CardinalityType
<1>2. \E f \in [1 .. n -> S] : IsInjective(f)
  BY <1>1 DEF ExistsBijection, Bijection, Injection
<1>3. Kept!SetToSeq(S) \in [1 .. n -> S] /\ IsInjective(Kept!SetToSeq(S))
  BY <1>2, KeptSameCardinality, SameInjective DEF Kept!SetToSeq
<1>4. Kept!SetToSeq(S) \in Injection(1 .. n, S)
  BY <1>3 DEF Injection
<1>5. IsFiniteSet(1 .. n) /\ Cardinality(1 .. n) = n
  BY <1>1, FS_Interval
<1>6. Kept!SetToSeq(S) \in Surjection(1 .. n, S)
  BY <1>4, <1>5, FS_Injection
<1> HIDE DEF n
<1> QED
  BY <1>1, <1>3, <1>6 DEF Surjection, Kept!ToSet

LEMMA KeptIInvInit == Kept!Init => KeptIInv
<1> SUFFICES ASSUME Kept!Init PROVE KeptIInv
  OBVIOUS
<1>1. lyricsCache \in Seq({}) /\ IsFiniteSet({})
  BY FS_EmptySet DEF Kept!Init
<1>2. lyricsCache \in Seq(Kept!ToSet(lyricsCache))
  BY <1>1, SeqFinite
<1> QED
  BY <1>1, <1>2 DEF Kept!Init, KeptIInv, KeptTyped, Counted, Caught, Kept!NoWriter

\* A change of the cache wakes the writer, or lets it begin again.
LEMMA ScheduleKeeps ==
  ASSUME KeptIInv, Kept!Schedule, UNCHANGED <<lyricsFile, opened>>, NEW S,
         lyricsCache' \in Seq(S)
  PROVE  KeptIInv'
<1>1. lyricsCache' \in Seq(Kept!ToSet(lyricsCache')) /\ IsFiniteSet(Kept!ToSet(lyricsCache'))
  BY SeqFinite
<1>2. /\ writer'.entries = writer.entries /\ writer'.generation = writer.generation
      /\ opened => writer'.pc \in {"asleep", "writing", "written"}
         /\ persistGeneration' = persistGeneration + 1
      /\ ~opened => UNCHANGED <<persistGeneration, writer>>
  <2>1. CASE writer.pc = "none" /\ opened
    <3>1. writer' = [writer EXCEPT !.pc = "asleep"]
          /\ persistGeneration' = persistGeneration + 1
      BY <2>1 DEF Kept!Schedule
    <3> QED
      BY <2>1, <3>1
  <2>2. CASE ~(writer.pc = "none" /\ opened)
    BY <2>2 DEF Kept!Schedule, KeptIInv, KeptTyped
  <2> QED
    BY <2>1, <2>2
<1>3. writer' \in [pc : {"none", "asleep", "writing", "written"}, entries : {writer.entries},
                   generation : Nat]
  BY DEF Kept!Schedule, KeptIInv, KeptTyped
<1>4. KeptTyped' /\ Counted'
  BY <1>1, <1>2, <1>3 DEF KeptIInv, KeptTyped, Counted, Kept!ToSet
<1>5. Caught'
  BY <1>2 DEF KeptIInv, KeptTyped, Counted, Caught
<1> QED
  BY <1>4, <1>5 DEF KeptIInv

LEMMA PutType ==
  ASSUME KeptIInv, NEW key, NEW source, Kept!Put(key, source)
  PROVE  \E S : lyricsCache' \in Seq(S)
<1> DEFINE added == [key |-> key, source |-> source]
           S == Kept!ToSet(lyricsCache) \cup {added}
           last == Len(lyricsCache)
           room == IF last >= LyricsLimit THEN SubSeq(lyricsCache, last - LyricsLimit + 2, last)
                   ELSE lyricsCache
           same == {i \in DOMAIN room : room[i].key = key}
           kept == IF same = {} THEN room ELSE Kept!RemoveAt(room, CHOOSE j \in same : TRUE)
<1>1. lyricsCache' = Append(kept, added)
  BY DEF Kept!Put
<1>2. lyricsCache \in Seq(S)
  BY DEF KeptIInv, KeptTyped
<1> HIDE DEF added, S
<1>3. room \in Seq(S)
  <2>1. CASE Len(lyricsCache) >= LyricsLimit
    <3>1. Len(lyricsCache) \in Nat /\ Len(lyricsCache) - LyricsLimit + 2 \in Int
          /\ \A i \in Len(lyricsCache) - LyricsLimit + 2 .. Len(lyricsCache) :
               i \in 1 .. Len(lyricsCache)
      BY <1>2, <2>1, KeptAssumption
    <3>2. \A i \in Len(lyricsCache) - LyricsLimit + 2 .. Len(lyricsCache) : lyricsCache[i] \in S
      BY <1>2, <3>1, ElementOfSeq
    <3>3. SubSeq(lyricsCache, Len(lyricsCache) - LyricsLimit + 2, Len(lyricsCache)) \in Seq(S)
      BY <3>1, <3>2, SubSeqProperties
    <3> QED
      BY <2>1, <3>3
  <2>2. CASE ~(Len(lyricsCache) >= LyricsLimit)
    BY <1>2, <2>2
  <2> QED
    BY <2>1, <2>2
<1> HIDE DEF room
<1>4. kept \in Seq(S)
  <2>1. CASE same = {}
    BY <1>3, <2>1
  <2>2. CASE same # {}
    <3> DEFINE k == CHOOSE j \in same : TRUE
    <3>1. k \in 1 .. Len(room) /\ kept = Kept!RemoveAt(room, k)
      <4>1. k \in same
        BY <2>2
      <4>2. kept = Kept!RemoveAt(room, k)
        BY <2>2
      <4> HIDE DEF k, kept
      <4> QED
        BY <1>3, <4>1, <4>2
    <3> HIDE DEF k, kept
    <3>2. /\ Len(room) \in Nat /\ k - 1 \in Int /\ k + 1 \in Int
          /\ \A i \in 1 .. k - 1 : i \in 1 .. Len(room)
          /\ \A i \in k + 1 .. Len(room) : i \in 1 .. Len(room)
      BY <1>3, <3>1
    <3>3. /\ \A i \in 1 .. k - 1 : room[i] \in S
          /\ \A i \in k + 1 .. Len(room) : room[i] \in S
      BY <1>3, <3>1, <3>2, ElementOfSeq
    <3>4. SubSeq(room, 1, k - 1) \in Seq(S) /\ SubSeq(room, k + 1, Len(room)) \in Seq(S)
      BY <3>2, <3>3, SubSeqProperties
    <3>5. kept = SubSeq(room, 1, k - 1) \o SubSeq(room, k + 1, Len(room))
      BY <3>1 DEF Kept!RemoveAt
    <3>6. SubSeq(room, 1, k - 1) \o SubSeq(room, k + 1, Len(room)) \in Seq(S)
      BY <3>4, ConcatProperties
    <3> QED
      BY <3>5, <3>6
  <2> QED
    BY <2>1, <2>2
<1> HIDE DEF kept
<1>5. Append(kept, added) \in Seq(S)
  BY <1>4 DEF S
<1> QED
  BY <1>1, <1>5

\* Steps that leave the cache, the file and the writer alone.
LEMMA OthersKeep ==
  ASSUME KeptIInv, UNCHANGED <<lyricsCache, Kept!disk, Kept!history>>
  PROVE  KeptIInv'
BY DEF KeptIInv, KeptTyped, Counted, Caught, Covers, Kept!disk, Kept!history, Kept!ToSet

LEMMA SearchesKeep ==
  ASSUME KeptIInv,
         \/ \E song \in Songs : Kept!Search(song)
         \/ \E f \in searching : Kept!Found(f) \/ Kept!NotFound(f)
         \/ \E k \in negative : Kept!NegativeExpires(k)
         \/ Kept!ClearAll \/ \E o \in Options : Kept!SetOptions(o)
  PROVE  KeptIInv'
<1>1. CASE \E song \in Songs : Kept!Search(song)
  BY SMTT(30), <1>1, OthersKeep DEF Kept!Search
<1>2. ASSUME NEW f \in searching, Kept!Found(f) PROVE KeptIInv'
  <2>1. PICK source : Kept!Put(<<f.key[1], options>>, source)
    BY <1>2 DEF Kept!Found
  <2>2. PICK S : lyricsCache' \in Seq(S)
    BY <2>1, PutType
  <2> QED
    BY <1>2, <2>1, <2>2, ScheduleKeeps DEF Kept!Found, Kept!Put
<1>3. CASE \E f \in searching : Kept!NotFound(f)
  BY <1>3, OthersKeep DEF Kept!NotFound
<1>4. CASE \E k \in negative : Kept!NegativeExpires(k)
  BY <1>4, OthersKeep DEF Kept!NegativeExpires
<1>5. CASE \E o \in Options : Kept!SetOptions(o)
  BY <1>5, OthersKeep DEF Kept!SetOptions
<1>6. CASE Kept!ClearAll
  <2>1. lyricsCache' \in Seq({})
    BY <1>6 DEF Kept!ClearAll
  <2> QED
    BY <1>6, <2>1, ScheduleKeeps DEF Kept!ClearAll
<1> QED
  BY <1>1, <1>2, <1>3, <1>4, <1>5, <1>6

LEMMA MemoryKeeps ==
  ASSUME KeptIInv, Kept!DropMemory \/ Kept!Crash
  PROVE  KeptIInv'
<1>1. lyricsCache' = <<>> /\ lyricsFile' = lyricsFile
  BY DEF Kept!DropMemory, Kept!Crash, Kept!disk
<1>2. lyricsCache' \in Seq(Kept!ToSet(lyricsCache')) /\ Kept!ToSet(lyricsCache') = {}
  <2>1. lyricsCache' \in Seq({})
    BY <1>1
  <2> QED
    BY <2>1, SeqFinite
<1>3. CASE Kept!DropMemory
  <2>1. /\ UNCHANGED <<lyricsFile, opened, persistGeneration, writer, behind>>
        /\ dropped' = (dropped \cup Kept!ToSet(lyricsCache))
                        \cap (lyricsFile \cup writer.entries)
        /\ Kept!ToSet(lyricsCache)' = {}
    BY <1>2, <1>3 DEF Kept!DropMemory, Kept!disk, Kept!ToSet
  <2>2. Caught'
    BY <2>1 DEF KeptIInv, Caught, Covers
  <2> QED
    BY <1>2, <2>1, <2>2 DEF KeptIInv, KeptTyped, Counted, Kept!ToSet
<1>4. CASE Kept!Crash
  BY <1>1, <1>2, <1>4, FS_EmptySet DEF Kept!Crash, KeptIInv, KeptTyped, Counted, Caught,
     Kept!NoWriter, Kept!ToSet
<1> QED
  BY <1>3, <1>4

\* What is too old goes from the cache, the snapshot and the file alike.
LEMMA ExpiresKeeps ==
  ASSUME KeptIInv, Kept!Expires
  PROVE  KeptIInv'
<1>1. PICK gone :
        /\ \/ lyricsCache # <<>> /\ lyricsCache' = Tail(lyricsCache)
              /\ gone = Kept!ToSet(lyricsCache) \ Kept!ToSet(lyricsCache')
           \/ UNCHANGED lyricsCache /\ gone \cap Kept!ToSet(lyricsCache) = {}
        /\ lyricsFile' = lyricsFile \ gone /\ dropped' = dropped \ gone
        /\ writer' = [writer EXCEPT !.entries = writer.entries \ gone]
        /\ UNCHANGED <<opened, persistGeneration, behind>>
  <2>1. Kept!ToSet(lyricsCache)' = Kept!ToSet(lyricsCache')
    BY DEF Kept!ToSet
  <2> QED
    BY <2>1 DEF Kept!Expires
<1>2. /\ lyricsCache' \in Seq(Kept!ToSet(lyricsCache'))
      /\ Kept!ToSet(lyricsCache') = Kept!ToSet(lyricsCache) \ gone
  <2>1. CASE lyricsCache # <<>> /\ lyricsCache' = Tail(lyricsCache)
             /\ gone = Kept!ToSet(lyricsCache) \ Kept!ToSet(lyricsCache')
    <3>1. lyricsCache' \in Seq(Kept!ToSet(lyricsCache))
      BY <2>1, HeadTailProperties DEF KeptIInv, KeptTyped
    <3>2. /\ lyricsCache' \in Seq(Kept!ToSet(lyricsCache'))
          /\ Kept!ToSet(lyricsCache') \subseteq Kept!ToSet(lyricsCache)
      BY <3>1, SeqFinite
    <3> QED
      BY <2>1, <3>2
  <2>2. CASE UNCHANGED lyricsCache /\ gone \cap Kept!ToSet(lyricsCache) = {}
    <3>1. Kept!ToSet(lyricsCache') = Kept!ToSet(lyricsCache)
      BY <2>2 DEF Kept!ToSet
    <3> QED
      BY <2>2, <3>1 DEF KeptIInv, KeptTyped
  <2> QED
    BY <1>1, <2>1, <2>2
<1>3. Kept!ToSet(lyricsCache)' = Kept!ToSet(lyricsCache')
  BY DEF Kept!ToSet
<1>4. /\ writer'.pc = writer.pc /\ writer'.generation = writer.generation
      /\ writer'.entries = writer.entries \ gone
      /\ writer' \in [pc : {"none", "asleep", "writing", "written"},
                      entries : {writer'.entries}, generation : Nat]
  BY <1>1 DEF KeptIInv, KeptTyped
<1>5. IsFiniteSet(lyricsFile') /\ IsFiniteSet(writer'.entries)
  BY <1>1, <1>4, FS_Difference DEF KeptIInv, KeptTyped
<1>6. Caught'
  <2>1. /\ Covers(writer.entries) => Covers(writer.entries)'
        /\ Covers(lyricsFile) => Covers(lyricsFile)'
    BY <1>1, <1>2, <1>3, <1>4 DEF Covers
  <2> QED
    BY <1>1, <1>4, <2>1 DEF KeptIInv, Caught
<1> QED
  BY <1>1, <1>2, <1>3, <1>4, <1>5, <1>6 DEF KeptIInv, KeptTyped, Counted

LEMMA OpenKeeps ==
  ASSUME KeptIInv, Kept!Open
  PROVE  KeptIInv'
<1> DEFINE found == {e \in lyricsFile : e.key \notin Kept!KeysOf(Kept!ToSet(lyricsCache))}
<1>1. /\ ~opened /\ opened' = TRUE /\ lyricsCache' = Kept!SetToSeq(found) \o lyricsCache
      /\ behind' = (lyricsCache # <<>>)
      /\ UNCHANGED <<lyricsFile, persistGeneration, writer>> /\ writer.pc = "none"
  BY DEF Kept!Open, KeptIInv, KeptTyped
<1>2. IsFiniteSet(found)
  BY FS_Subset DEF KeptIInv, KeptTyped
<1>3. Kept!SetToSeq(found) \in Seq(found) /\ Kept!ToSet(Kept!SetToSeq(found)) = found
  BY <1>2, SequenceOfSet
<1>4. lyricsCache = <<>> => found = lyricsFile
  BY DEF Kept!KeysOf, Kept!ToSet
<1>5. lyricsCache' \in Seq(Kept!ToSet(lyricsCache'))
  <2>1. Kept!SetToSeq(found) \in Seq(found \cup Kept!ToSet(lyricsCache))
        /\ lyricsCache \in Seq(found \cup Kept!ToSet(lyricsCache))
    BY <1>3 DEF KeptIInv, KeptTyped
  <2>2. lyricsCache' \in Seq(found \cup Kept!ToSet(lyricsCache))
    BY <1>1, <2>1, ConcatProperties
  <2> QED
    BY <2>2, SeqFinite
<1>6. lyricsCache = <<>> => Kept!ToSet(lyricsCache') = lyricsFile
  <2>1. lyricsCache = <<>> => lyricsCache' = Kept!SetToSeq(found)
    BY <1>1, <1>3, ConcatEmptySeq
  <2> QED
    BY <1>3, <1>4, <2>1
<1> HIDE DEF found
<1>7. Kept!ToSet(lyricsCache)' = Kept!ToSet(lyricsCache')
  BY DEF Kept!ToSet
<1> QED
  BY <1>1, <1>5, <1>6, <1>7 DEF KeptIInv, KeptTyped, Counted, Caught, Covers

LEMMA WriterKeeps ==
  ASSUME KeptIInv, Kept!Snapshot \/ Kept!Write \/ Kept!Finish
  PROVE  KeptIInv'
<1>1. UNCHANGED <<lyricsCache, opened, persistGeneration, dropped>>
      /\ Kept!ToSet(lyricsCache)' = Kept!ToSet(lyricsCache)
      /\ IsFiniteSet(Kept!ToSet(lyricsCache))
  BY SeqFinite DEF Kept!Snapshot, Kept!Write, Kept!Finish, Kept!history, Kept!ToSet, KeptIInv,
     KeptTyped
<1>2. CASE Kept!Snapshot
  BY <1>1, <1>2 DEF Kept!Snapshot, Kept!history, KeptIInv, KeptTyped, Counted, Caught, Covers
<1>3. CASE Kept!Write
  <2>1. /\ writer.pc = "writing" /\ writer'.pc = "written" /\ writer'.entries = writer.entries
        /\ writer'.generation = writer.generation
        /\ writer' \in [pc : {"none", "asleep", "writing", "written"},
                        entries : {writer.entries}, generation : Nat]
    BY <1>3 DEF Kept!Write, KeptIInv, KeptTyped
  <2>2. CASE lyricsFile' = writer.entries
    BY <1>1, <2>1, <2>2 DEF KeptIInv, KeptTyped, Counted, Caught, Covers
  <2>3. CASE UNCHANGED lyricsFile /\ behind'
    BY <1>1, <2>1, <2>3 DEF KeptIInv, KeptTyped, Counted, Caught, Covers
  <2> QED
    BY <1>3, <2>2, <2>3 DEF Kept!Write
<1>4. CASE Kept!Finish
  BY <1>1, <1>4, FS_EmptySet DEF Kept!Finish, Kept!history, KeptIInv, KeptTyped, Counted,
     Caught, Covers, Kept!NoWriter
<1> QED
  BY <1>2, <1>3, <1>4

LEMMA KeptIInvInductive ==
  ASSUME KeptIInv, Kept!Next \/ UNCHANGED Kept!vars
  PROVE  KeptIInv'
<1>1. CASE UNCHANGED Kept!vars
  BY <1>1, OthersKeep DEF Kept!vars
<1> QED
  BY <1>1, SearchesKeep, MemoryKeeps, ExpiresKeeps, OpenKeeps, WriterKeeps DEF Kept!Next

\* FileCaughtUp: when no writer is under way and no write has failed, what is
\* cached is in the file, and the file has else only what was dropped from the
\* memory, whenever the cache was changed while a snapshot was written, and
\* after a restart (persistAfterDebounce, SetPersistencePath).  That what was
\* dropped stays in the file the code does not guarantee: DroppedAreKept.
THEOREM FileCaughtUpHolds == MCSpec => []FileCaughtUp
<1> DEFINE Inv == which = "kept" => KeptIInv
<1>1. MCInit => Inv
  BY KeptIInvInit DEF MCInit
<1>2. Inv /\ [MCNext]_all => Inv'
  BY ServiceStep, KeptIInvInductive
<1>3. Inv => FileCaughtUp
  BY DEF KeptIInv, Caught, Covers, FileCaughtUp, Kept!FileCaughtUp
<1> QED
  BY <1>1, <1>2, <1>3, PTL DEF MCSpec

-----------------------------------------------------------------------------
(* The budget of a resolution.  The counters count those who hold a pause  *)
(* or a charge, and the timer of a budget that runs is for the moment that *)
(* the rest of the allowance will be spent.                                *)
Holders(what) == {w \in Workers : worker[w] = what}

BudgetTyped ==
    /\ now \in Nat /\ started \in Nat /\ started <= now
    /\ remaining \in Nat /\ spent \in Nat
    /\ timer \in Nat \cup {None}
    /\ generation \in Nat /\ firing \in SUBSET (0 .. generation)
    /\ stopped \in BOOLEAN /\ cancelled \in BOOLEAN
    /\ worker \in [Workers -> {"none", "pause", "charge", "nothing"}]

\* The counters count those who hold a pause or a charge.
Tallied ==
    /\ pauses = Cardinality(Holders("pause"))
    /\ charges = Cardinality(Holders("charge"))

Spending == pauses = 0 \/ charges > 0

\* The timer, or its callback, of a budget that is not over is that of the
\* rest of the allowance, and of a budget that runs.
Timed ==
    ~Budget!Over =>
      /\ timer # None => Spending /\ timer = started + remaining
      /\ generation \in firing => Spending /\ now >= started + remaining
      /\ Spending => timer # None \/ generation \in firing

BudgetIInv == BudgetTyped /\ Tallied /\ Timed /\ Budget!ChargedExactly

LEMMA HoldersFinite ==
  ASSUME BudgetTyped, NEW what
  PROVE  /\ IsFiniteSet(Holders(what)) /\ Cardinality(Holders(what)) \in Nat
         /\ Cardinality(Holders(what)) = 0 <=> \A w \in Workers : worker[w] # what
<1>1. IsFiniteSet(Holders(what))
  BY BudgetAssumption, FS_Subset DEF Holders
<1>2. Cardinality(Holders(what)) \in Nat
      /\ (Cardinality(Holders(what)) = 0 <=> Holders(what) = {})
  BY <1>1, FS_CardinalityType, FS_EmptySet
<1> QED
  BY <1>1, <1>2 DEF Holders

LEMMA TalliedTyped ==
  ASSUME BudgetTyped, Tallied
  PROVE  /\ pauses \in Nat /\ charges \in Nat
         /\ Budget!Working <=> Spending
<1>1. pauses \in Nat /\ charges \in Nat
  BY HoldersFinite DEF Tallied
<1>2. /\ pauses = 0 <=> \A w \in Workers : worker[w] # "pause"
      /\ charges = 0 <=> \A w \in Workers : worker[w] # "charge"
  BY HoldersFinite DEF Tallied
<1> QED
  BY <1>1, <1>2 DEF Budget!Working, Spending

LEMMA BudgetIInvInit == Budget!Init => BudgetIInv
<1> SUFFICES ASSUME Budget!Init PROVE BudgetIInv
  OBVIOUS
<1>1. BudgetTyped
  <2>1. firing \in SUBSET (0 .. generation)
    BY DEF Budget!Init
  <2>2. worker \in [Workers -> {"none", "pause", "charge", "nothing"}]
    BY DEF Budget!Init
  <2>3. now \in Nat /\ started \in Nat /\ started <= now /\ remaining \in Nat /\ spent \in Nat
    BY BudgetAssumption DEF Budget!Init
  <2>4. /\ timer \in Nat \cup {None} /\ generation \in Nat
        /\ stopped \in BOOLEAN /\ cancelled \in BOOLEAN
    BY BudgetAssumption DEF Budget!Init
  <2> QED
    BY <2>1, <2>2, <2>3, <2>4 DEF BudgetTyped
<1>2. Cardinality(Holders("pause")) = 0 /\ Cardinality(Holders("charge")) = 0
  BY <1>1, HoldersFinite DEF Budget!Init
<1>3. Tallied
  BY <1>2 DEF Budget!Init, Tallied
<1>4. Timed
  BY BudgetAssumption DEF Budget!Init, Timed, Spending, Budget!Over
<1>5. Budget!ChargedExactly
  BY BudgetAssumption DEF Budget!Init, Budget!ChargedExactly, Budget!RemainingTime
<1> QED
  BY <1>1, <1>3, <1>4, <1>5 DEF BudgetIInv

\* What a worker takes or gives back changes the count of its kind by one.
LEMMA HoldsCounts ==
  ASSUME BudgetTyped, NEW w \in Workers, NEW what \in {"none", "pause", "charge", "nothing"},
         what # worker[w], Budget!Holds(w, what), NEW kind
  PROVE  /\ worker' \in [Workers -> {"none", "pause", "charge", "nothing"}]
         /\ Cardinality(Holders(kind))' =
              Cardinality(Holders(kind)) +
              (IF kind = what THEN 1 ELSE IF kind = worker[w] THEN -1 ELSE 0)
<1>1. worker' \in [Workers -> {"none", "pause", "charge", "nothing"}]
  BY DEF BudgetTyped, Budget!Holds
<1>2. CASE kind = what
  <2>1. Holders(kind)' = Holders(kind) \cup {w} /\ w \notin Holders(kind)
    BY <1>2 DEF Holders, Budget!Holds, BudgetTyped
  <2> QED
    BY <1>1, <1>2, <2>1, HoldersFinite, FS_AddElement
<1>3. CASE kind # what /\ kind = worker[w]
  <2>1. Holders(kind)' = Holders(kind) \ {w} /\ w \in Holders(kind)
    BY <1>3 DEF Holders, Budget!Holds, BudgetTyped
  <2>2. Cardinality(Holders(kind) \ {w}) = Cardinality(Holders(kind)) - 1
    BY <2>1, HoldersFinite, FS_RemoveElement
  <2>3. Cardinality(Holders(kind)) \in Nat
    BY HoldersFinite
  <2> QED
    BY <1>1, <1>3, <2>1, <2>2, <2>3
<1>4. CASE kind # what /\ kind # worker[w]
  <2>1. Holders(kind)' = Holders(kind)
    BY <1>4 DEF Holders, Budget!Holds, BudgetTyped
  <2>2. Cardinality(Holders(kind)) \in Nat
    BY HoldersFinite
  <2> QED
    BY <1>1, <1>4, <2>1, <2>2
<1> QED
  BY <1>2, <1>3, <1>4

\* The timer starts anew for what remains.
LEMMA ArmKeeps ==
  ASSUME BudgetIInv, ~Spending, ~Budget!Over, Budget!Arm, Spending',
         UNCHANGED <<now, firing, spent, stopped>>,
         pauses' \in Nat, charges' \in Nat
  PROVE  Timed' /\ Budget!ChargedExactly' /\ started' = now /\ timer' \in Nat
         /\ generation' = generation + 1 /\ remaining' \in Nat
<1>1. /\ started' = now /\ timer' = now + remaining /\ generation' = generation + 1
      /\ remaining' = remaining /\ cancelled' = cancelled
  BY DEF Budget!Arm
<1>2. pauses \in Nat /\ charges \in Nat
  BY TalliedTyped DEF BudgetIInv
<1>3. ~cancelled /\ ~stopped /\ remaining = Allowance - spent
  BY <1>2 DEF BudgetIInv, Budget!ChargedExactly, Budget!RemainingTime, Spending, Budget!Over,
     BudgetTyped
<1>4. generation' \notin firing
  BY <1>1 DEF BudgetIInv, BudgetTyped
<1>5. Timed'
  BY <1>1, <1>4, BudgetAssumption DEF Timed, BudgetIInv, BudgetTyped
<1>6. Budget!ChargedExactly'
  BY <1>1, <1>3, BudgetAssumption DEF Budget!ChargedExactly, Budget!RemainingTime, Spending,
     BudgetIInv, BudgetTyped
<1> QED
  BY <1>1, <1>5, <1>6 DEF BudgetIInv, BudgetTyped

\* The timer stops, and what has run is taken off.
LEMMA DisarmKeeps ==
  ASSUME BudgetIInv, Spending, ~Budget!Over, Budget!Disarm,
         UNCHANGED <<now, firing, spent, stopped>>,
         cancelled' \/ ~Spending', pauses' \in Nat, charges' \in Nat
  PROVE  Timed' /\ Budget!ChargedExactly' /\ started' = started /\ timer' = None
         /\ generation' = generation + 1 /\ remaining' \in Nat /\ cancelled' \in BOOLEAN
<1>1. /\ started' = started /\ timer' = None /\ generation' = generation + 1
      /\ remaining' = IF now - started >= remaining THEN 0 ELSE remaining - (now - started)
      /\ cancelled' \in BOOLEAN /\ (cancelled' <=> remaining' = 0)
  BY DEF Budget!Disarm
<1>2. pauses \in Nat /\ charges \in Nat
  BY TalliedTyped DEF BudgetIInv
<1>3. ~cancelled /\ ~stopped /\ remaining - (now - started) = Allowance - spent
  BY <1>2 DEF BudgetIInv, Budget!ChargedExactly, Budget!RemainingTime, Spending, Budget!Over,
     BudgetTyped
<1>4. generation' \notin firing
  BY <1>1 DEF BudgetIInv, BudgetTyped
<1>5. Timed'
  BY <1>1, <1>4 DEF Timed, Budget!Over, BudgetIInv, BudgetTyped
<1>6. Budget!ChargedExactly'
  <2>1. ASSUME cancelled' PROVE spent >= Allowance
    BY <2>1, <1>1, <1>3, BudgetAssumption DEF BudgetIInv, BudgetTyped
  <2>2. ASSUME ~cancelled' PROVE remaining' = Allowance - spent /\ ~Spending'
    BY <2>2, <1>1, <1>3, BudgetAssumption DEF BudgetIInv, BudgetTyped
  <2> QED
    BY <1>1, <2>1, <2>2, BudgetAssumption DEF Budget!ChargedExactly, Budget!RemainingTime,
       Spending, BudgetIInv, BudgetTyped
<1>7. remaining' \in Nat
  BY <1>1 DEF BudgetIInv, BudgetTyped
<1> QED
  BY <1>1, <1>5, <1>6, <1>7

\* Everything of the timer stays, and so does whether the budget runs.
LEMMA KeepKeeps ==
  ASSUME BudgetIInv, Budget!Keep, UNCHANGED <<now, firing, spent, stopped>>,
         Budget!Over \/ (Spending' <=> Spending), pauses' \in Nat, charges' \in Nat
  PROVE  Timed' /\ Budget!ChargedExactly'
<1>1. UNCHANGED <<remaining, started, timer, generation, cancelled>>
  BY DEF Budget!Keep
<1>2. Timed'
  BY <1>1 DEF Timed, Budget!Over, BudgetIInv
<1>3. pauses \in Nat /\ charges \in Nat
  BY TalliedTyped DEF BudgetIInv
<1>4. Budget!ChargedExactly'
  BY <1>1, <1>3 DEF Budget!ChargedExactly, Budget!RemainingTime, Spending, Budget!Over,
     BudgetIInv, BudgetTyped
<1> QED
  BY <1>2, <1>4

\* A worker takes or gives back nothing.
LEMMA NothingKeeps ==
  ASSUME BudgetIInv, NEW w \in Workers, NEW what \in {"none", "nothing"},
         worker[w] \in {"none", "nothing"}, what # worker[w], Budget!Holds(w, what),
         UNCHANGED <<now, Budget!budget, firing, spent>>
  PROVE  BudgetIInv'
<1>1. BudgetTyped' 
  BY HoldsCounts DEF BudgetIInv, BudgetTyped, Budget!budget
<1>2. /\ Cardinality(Holders("pause"))' = Cardinality(Holders("pause"))
      /\ Cardinality(Holders("charge"))' = Cardinality(Holders("charge"))
  BY HoldsCounts, HoldersFinite DEF BudgetIInv
<1>3. Tallied'
  BY <1>2 DEF BudgetIInv, Tallied, Budget!budget
<1>4. Timed' /\ Budget!ChargedExactly'
  BY DEF BudgetIInv, Timed, Spending, Budget!ChargedExactly, Budget!RemainingTime, Budget!Over,
     Budget!budget
<1> QED
  BY <1>1, <1>3, <1>4 DEF BudgetIInv

LEMMA PauseKeeps == ASSUME BudgetIInv, NEW w \in Workers, Budget!Pause(w) PROVE BudgetIInv'
<1>1. CASE Budget!Over
  BY <1>1, NothingKeeps DEF Budget!Pause
<1>2. CASE ~Budget!Over
  <2>1. /\ worker[w] = "none" /\ UNCHANGED <<now, firing, spent, charges, stopped>>
        /\ IF pauses = 0 /\ charges = 0 THEN Budget!Disarm ELSE Budget!Keep
        /\ IF cancelled' THEN Budget!Holds(w, "nothing") /\ UNCHANGED pauses
           ELSE Budget!Holds(w, "pause") /\ pauses' = pauses + 1
    BY <1>2 DEF Budget!Pause
  <2>2. pauses \in Nat /\ charges \in Nat
    BY TalliedTyped DEF BudgetIInv
  <2>3. CASE cancelled'
    <3>1. Budget!Disarm /\ Spending
      BY <2>1, <2>3, <1>2 DEF Budget!Keep, Budget!Over, Spending
    <3>2. /\ Timed' /\ Budget!ChargedExactly' /\ started' = started /\ timer' = None
          /\ generation' = generation + 1 /\ remaining' \in Nat /\ cancelled' \in BOOLEAN
      BY <1>2, <2>1, <2>2, <2>3, <3>1, DisarmKeeps
    <3>3. /\ worker' \in [Workers -> {"none", "pause", "charge", "nothing"}]
          /\ Cardinality(Holders("pause"))' = Cardinality(Holders("pause"))
          /\ Cardinality(Holders("charge"))' = Cardinality(Holders("charge"))
      BY <2>1, <2>3, HoldsCounts, HoldersFinite DEF BudgetIInv
    <3>4. BudgetTyped'
      BY <2>1, <3>2, <3>3 DEF BudgetIInv, BudgetTyped
    <3>5. Tallied'
      BY <2>1, <2>3, <3>3 DEF BudgetIInv, Tallied
    <3> QED
      BY <3>2, <3>4, <3>5 DEF BudgetIInv
  <2>4. CASE ~cancelled'
    <3>1. /\ worker' \in [Workers -> {"none", "pause", "charge", "nothing"}]
          /\ Cardinality(Holders("pause"))' = Cardinality(Holders("pause")) + 1
          /\ Cardinality(Holders("charge"))' = Cardinality(Holders("charge"))
      BY <2>1, <2>4, HoldsCounts, HoldersFinite DEF BudgetIInv
    <3>2. Tallied' /\ pauses' = pauses + 1
      BY <2>1, <2>4, <3>1 DEF BudgetIInv, Tallied
    <3>3. CASE pauses = 0 /\ charges = 0
      <4>1. Budget!Disarm /\ Spending /\ ~Spending'
        BY <2>1, <3>3, <3>2 DEF Spending
      <4>2. /\ Timed' /\ Budget!ChargedExactly' /\ started' = started /\ timer' = None
            /\ generation' = generation + 1 /\ remaining' \in Nat /\ cancelled' \in BOOLEAN
        BY <1>2, <2>1, <2>2, <3>2, <4>1, DisarmKeeps
      <4>3. BudgetTyped'
        BY <2>1, <4>2, <3>1 DEF BudgetIInv, BudgetTyped
      <4> QED
        BY <4>2, <4>3, <3>2 DEF BudgetIInv
    <3>4. CASE ~(pauses = 0 /\ charges = 0)
      <4>1. Budget!Keep /\ (Spending' <=> Spending)
        BY <2>1, <2>2, <3>2, <3>4 DEF Spending
      <4>2. Timed' /\ Budget!ChargedExactly'
        BY <2>1, <2>2, <3>2, <4>1, KeepKeeps
      <4>3. BudgetTyped'
        BY <2>1, <4>1, <3>1 DEF BudgetIInv, BudgetTyped, Budget!Keep
      <4> QED
        BY <4>2, <4>3, <3>2 DEF BudgetIInv
    <3> QED
      BY <3>3, <3>4
  <2> QED
    BY <2>3, <2>4
<1> QED
  BY <1>1, <1>2

LEMMA ResumeKeeps == ASSUME BudgetIInv, NEW w \in Workers, Budget!Resume(w) PROVE BudgetIInv'
<1>1. /\ worker[w] = "pause" /\ Budget!Holds(w, "none") /\ pauses' = pauses - 1
      /\ UNCHANGED <<now, firing, charges, stopped, spent>>
      /\ IF pauses' = 0 /\ charges = 0 /\ ~Budget!Over THEN Budget!Arm ELSE Budget!Keep
  BY DEF Budget!Resume
<1>2. pauses \in Nat /\ charges \in Nat
  BY TalliedTyped DEF BudgetIInv
<1>3. /\ worker' \in [Workers -> {"none", "pause", "charge", "nothing"}]
      /\ Cardinality(Holders("pause"))' = Cardinality(Holders("pause")) - 1
      /\ Cardinality(Holders("charge"))' = Cardinality(Holders("charge"))
  BY <1>1, HoldsCounts, HoldersFinite DEF BudgetIInv
<1>4. Tallied'
  BY <1>1, <1>3 DEF BudgetIInv, Tallied
<1>5. pauses > 0
  BY <1>1, <1>2, HoldersFinite DEF BudgetIInv, Tallied
<1>6. CASE pauses' = 0 /\ charges = 0 /\ ~Budget!Over
  <2>1. Budget!Arm /\ ~Spending /\ Spending'
    BY <1>1, <1>2, <1>5, <1>6 DEF Spending
  <2>2. /\ Timed' /\ Budget!ChargedExactly' /\ started' = now /\ timer' \in Nat
        /\ generation' = generation + 1 /\ remaining' \in Nat
    BY <1>1, <1>2, <1>5, <1>6, <2>1, ArmKeeps
  <2>3. BudgetTyped'
    BY <1>1, <1>3, <2>1, <2>2 DEF BudgetIInv, BudgetTyped, Budget!Arm
  <2> QED
    BY <1>4, <2>2, <2>3 DEF BudgetIInv
<1>7. CASE ~(pauses' = 0 /\ charges = 0 /\ ~Budget!Over)
  <2>1. Budget!Keep /\ (Budget!Over \/ (Spending' <=> Spending))
    BY <1>1, <1>2, <1>5, <1>7 DEF Spending
  <2>2. Timed' /\ Budget!ChargedExactly'
    BY <1>1, <1>2, <1>5, <2>1, KeepKeeps
  <2>3. BudgetTyped'
    BY <1>1, <1>3, <2>1 DEF BudgetIInv, BudgetTyped, Budget!Keep
  <2> QED
    BY <1>4, <2>2, <2>3 DEF BudgetIInv
<1> QED
  BY <1>6, <1>7

LEMMA ChargeKeeps == ASSUME BudgetIInv, NEW w \in Workers, Budget!Charge(w) PROVE BudgetIInv'
<1>1. CASE Budget!Over
  BY <1>1, NothingKeeps DEF Budget!Charge
<1>2. CASE ~Budget!Over
  <2>1. /\ worker[w] = "none" /\ Budget!Holds(w, "charge") /\ charges' = charges + 1
        /\ UNCHANGED <<now, firing, pauses, stopped, spent>>
        /\ IF charges = 0 /\ pauses > 0 THEN Budget!Arm ELSE Budget!Keep
    BY <1>2 DEF Budget!Charge
  <2>2. pauses \in Nat /\ charges \in Nat
    BY TalliedTyped DEF BudgetIInv
  <2>3. /\ worker' \in [Workers -> {"none", "pause", "charge", "nothing"}]
        /\ Cardinality(Holders("charge"))' = Cardinality(Holders("charge")) + 1
        /\ Cardinality(Holders("pause"))' = Cardinality(Holders("pause"))
    BY <2>1, HoldsCounts, HoldersFinite DEF BudgetIInv
  <2>4. Tallied' /\ Spending'
    BY <2>1, <2>2, <2>3 DEF BudgetIInv, Tallied, Spending
  <2>5. CASE charges = 0 /\ pauses > 0
    <3>1. Budget!Arm /\ ~Spending
      BY <2>1, <2>5 DEF Spending
    <3>2. /\ Timed' /\ Budget!ChargedExactly' /\ started' = now /\ timer' \in Nat
          /\ generation' = generation + 1 /\ remaining' \in Nat
      BY <1>2, <2>1, <2>2, <2>4, <3>1, ArmKeeps
    <3>3. BudgetTyped'
      BY <2>1, <2>3, <3>1, <3>2 DEF BudgetIInv, BudgetTyped, Budget!Arm
    <3> QED
      BY <2>4, <3>2, <3>3 DEF BudgetIInv
  <2>6. CASE ~(charges = 0 /\ pauses > 0)
    <3>1. Budget!Keep /\ Spending
      BY <2>1, <2>2, <2>6 DEF Spending
    <3>2. Timed' /\ Budget!ChargedExactly'
      BY <2>1, <2>2, <2>4, <3>1, KeepKeeps
    <3>3. BudgetTyped'
      BY <2>1, <2>3, <3>1 DEF BudgetIInv, BudgetTyped, Budget!Keep
    <3> QED
      BY <2>4, <3>2, <3>3 DEF BudgetIInv
  <2> QED
    BY <2>5, <2>6
<1> QED
  BY <1>1, <1>2

LEMMA EndChargeKeeps == ASSUME BudgetIInv, NEW w \in Workers,
Budget!EndCharge(w) PROVE BudgetIInv'
<1>1. /\ worker[w] = "charge" /\ Budget!Holds(w, "none") /\ charges' = charges - 1
      /\ UNCHANGED <<now, firing, pauses, stopped, spent>>
      /\ IF charges' = 0 /\ pauses > 0 /\ ~Budget!Over THEN Budget!Disarm ELSE Budget!Keep
  BY DEF Budget!EndCharge
<1>2. pauses \in Nat /\ charges \in Nat
  BY TalliedTyped DEF BudgetIInv
<1>3. /\ worker' \in [Workers -> {"none", "pause", "charge", "nothing"}]
      /\ Cardinality(Holders("charge"))' = Cardinality(Holders("charge")) - 1
      /\ Cardinality(Holders("pause"))' = Cardinality(Holders("pause"))
  BY <1>1, HoldsCounts, HoldersFinite DEF BudgetIInv
<1>4. Tallied'
  BY <1>1, <1>3 DEF BudgetIInv, Tallied
<1>5. charges > 0 /\ charges' \in Nat
  BY <1>1, <1>2, HoldersFinite DEF BudgetIInv, Tallied
<1>6. CASE charges' = 0 /\ pauses > 0 /\ ~Budget!Over
  <2>1. Budget!Disarm /\ Spending /\ ~Spending'
    BY <1>1, <1>2, <1>5, <1>6 DEF Spending
  <2>2. /\ Timed' /\ Budget!ChargedExactly' /\ started' = started /\ timer' = None
        /\ generation' = generation + 1 /\ remaining' \in Nat /\ cancelled' \in BOOLEAN
    BY <1>1, <1>2, <1>5, <1>6, <2>1, DisarmKeeps
  <2>3. BudgetTyped'
    BY <1>1, <1>3, <2>2 DEF BudgetIInv, BudgetTyped
  <2> QED
    BY <1>4, <2>2, <2>3 DEF BudgetIInv
<1>7. CASE ~(charges' = 0 /\ pauses > 0 /\ ~Budget!Over)
  <2>1. Budget!Keep /\ (Budget!Over \/ (Spending' <=> Spending))
    BY <1>1, <1>2, <1>5, <1>7 DEF Spending
  <2>2. Timed' /\ Budget!ChargedExactly'
    BY <1>1, <1>2, <1>5, <2>1, KeepKeeps
  <2>3. BudgetTyped'
    BY <1>1, <1>3, <2>1 DEF BudgetIInv, BudgetTyped, Budget!Keep
  <2> QED
    BY <1>4, <2>2, <2>3 DEF BudgetIInv
<1> QED
  BY <1>6, <1>7

\* A callback cancels only when its own generation has run out.
LEMMA FireKeeps == ASSUME BudgetIInv, NEW g \in firing, Budget!Fire(g) PROVE BudgetIInv'
<1>1. /\ firing' = firing \ {g} /\ UNCHANGED <<now, worker, spent>>
      /\ \/ /\ stopped \/ (pauses > 0 /\ charges = 0) \/ generation # g
            /\ UNCHANGED Budget!budget
         \/ /\ ~stopped /\ generation = g
            /\ remaining' = 0 /\ cancelled' = TRUE
            /\ UNCHANGED <<started, timer, generation, pauses, charges, stopped>>
  BY DEF Budget!Fire
<1>2. pauses \in Nat /\ charges \in Nat
  BY TalliedTyped DEF BudgetIInv
<1>3. UNCHANGED <<now, worker, spent, started, timer, generation, pauses, charges, stopped>>
  BY <1>1 DEF Budget!budget
<1>4. BudgetTyped'
  <2>1. firing' \in SUBSET (0 .. generation')
    BY <1>1, <1>3 DEF BudgetIInv, BudgetTyped
  <2>2. remaining' \in Nat /\ cancelled' \in BOOLEAN
    <3>1. remaining' \in {remaining, 0} /\ (cancelled' = cancelled \/ cancelled' = TRUE)
      BY <1>1 DEF Budget!budget
    <3>2. remaining \in Nat /\ cancelled \in BOOLEAN
      BY DEF BudgetIInv, BudgetTyped
    <3>3. cancelled' \in BOOLEAN
      BY <3>1, <3>2, Zenon
    <3> QED
      BY <3>1, <3>2, <3>3
  <2>3. /\ now' \in Nat /\ started' \in Nat /\ started' <= now' /\ spent' \in Nat
        /\ timer' \in Nat \cup {None} /\ generation' \in Nat /\ stopped' \in BOOLEAN
        /\ worker' \in [Workers -> {"none", "pause", "charge", "nothing"}]
    BY <1>3 DEF BudgetIInv, BudgetTyped
  <2> QED
    BY <2>1, <2>2, <2>3 DEF BudgetTyped
<1>5. Tallied'
  BY <1>3 DEF BudgetIInv, Tallied, Holders
<1>6. CASE UNCHANGED Budget!budget /\ (stopped \/ (pauses > 0 /\ charges = 0) \/ generation # g)
  <2>1. Timed'
    BY <1>1, <1>2, <1>6 DEF BudgetIInv, Timed, Budget!Over, Spending, Budget!budget
  <2>2. Budget!ChargedExactly'
    BY <1>1, <1>6 DEF BudgetIInv, Budget!ChargedExactly, Budget!RemainingTime, Budget!budget
  <2> QED
    BY <1>4, <1>5, <2>1, <2>2 DEF BudgetIInv
<1>7. CASE ~stopped /\ generation = g /\ cancelled' = TRUE
  <2>1. spent >= Allowance
    <3>1. CASE cancelled
      BY <3>1, <1>7 DEF BudgetIInv, Budget!ChargedExactly
    <3>2. CASE ~cancelled
      <4>1. Spending /\ now >= started + remaining
        BY <3>2, <1>7 DEF BudgetIInv, Timed, Budget!Over
      <4>2. remaining - (now - started) = Allowance - spent
        BY <3>2, <1>2, <1>7, <4>1 DEF BudgetIInv, Budget!ChargedExactly, Budget!RemainingTime,
           Spending
      <4> QED
        BY <4>1, <4>2, BudgetAssumption DEF BudgetIInv, BudgetTyped
    <3> QED
      BY <3>1, <3>2
  <2>2. Timed' /\ Budget!ChargedExactly'
    BY <1>3, <1>7, <2>1 DEF Timed, Budget!Over, Budget!ChargedExactly
  <2> QED
    BY <1>4, <1>5, <2>2 DEF BudgetIInv
<1> QED
  BY <1>1, <1>6, <1>7

LEMMA ClockKeeps == ASSUME BudgetIInv, Budget!Expire \/ Budget!Stop
\/ Budget!Tick PROVE BudgetIInv'
<1>1. UNCHANGED <<worker, pauses, charges>>
  BY DEF Budget!Expire, Budget!Stop, Budget!Tick, Budget!budget
<1>2. Tallied' /\ pauses \in Nat /\ charges \in Nat
  BY <1>1, TalliedTyped DEF BudgetIInv, Tallied, Holders
<1>3. CASE Budget!Expire
  <2>1. BudgetTyped'
    BY <1>3 DEF Budget!Expire, BudgetIInv, BudgetTyped
  <2>2. Timed'
    BY <1>3, <2>1 DEF Budget!Expire, BudgetIInv, BudgetTyped, Timed, Budget!Over, Spending
  <2>3. Budget!ChargedExactly'
    BY <1>3 DEF Budget!Expire, BudgetIInv, Budget!ChargedExactly, Budget!RemainingTime
  <2> QED
    BY <1>2, <2>1, <2>2, <2>3 DEF BudgetIInv
<1>4. CASE Budget!Stop
  <2>1. BudgetTyped'
    BY <1>4 DEF Budget!Stop, BudgetIInv, BudgetTyped
  <2>2. Timed' /\ Budget!ChargedExactly'
    BY <1>4 DEF Budget!Stop, Timed, Budget!Over, Budget!ChargedExactly
  <2> QED
    BY <1>2, <2>1, <2>2 DEF BudgetIInv
<1>5. CASE Budget!Tick
  <2>1. Budget!Working <=> Spending
    BY TalliedTyped DEF BudgetIInv
  <2>2. /\ now' = now + 1 /\ UNCHANGED <<Budget!budget, firing, worker>>
        /\ spent' = IF Spending /\ ~Budget!Over THEN spent + 1 ELSE spent
    BY <1>5, <2>1 DEF Budget!Tick
  <2>3. BudgetTyped'
    BY <2>2 DEF BudgetIInv, BudgetTyped, Budget!budget
  <2>4. Timed'
    BY <2>2 DEF BudgetIInv, BudgetTyped, Timed, Budget!Over, Spending, Budget!budget
  <2>5. Budget!ChargedExactly'
    BY <1>2, <2>2, BudgetAssumption
       DEF BudgetIInv, BudgetTyped, Budget!ChargedExactly, Budget!RemainingTime, Budget!Over,
       Spending, Budget!budget
  <2> QED
    BY <1>2, <2>3, <2>4, <2>5 DEF BudgetIInv
<1> QED
  BY <1>3, <1>4, <1>5

LEMMA BudgetIInvInductive == BudgetIInv /\ (Budget!Next \/ UNCHANGED Budget!vars) => BudgetIInv'
<1> SUFFICES ASSUME BudgetIInv, Budget!Next \/ UNCHANGED Budget!vars PROVE BudgetIInv'
  OBVIOUS
<1>1. ASSUME NEW w \in Workers, Budget!EndNothing(w) PROVE BudgetIInv'
  BY <1>1, NothingKeeps DEF Budget!EndNothing
<1>2. CASE UNCHANGED Budget!vars
  BY <1>2 DEF Budget!vars, Budget!budget, BudgetIInv, BudgetTyped, Tallied, Holders, Timed,
     Budget!Over, Spending, Budget!ChargedExactly,
     Budget!RemainingTime
<1> QED
  BY <1>1, <1>2, PauseKeeps, ResumeKeeps, ChargeKeeps, EndChargeKeeps, FireKeeps, ClockKeeps
  DEF Budget!Next

LEMMA IInvGuarded == BudgetIInv => Budget!ChargedExactly /\ Budget!Guarded
  BY TalliedTyped DEF BudgetIInv, Timed, Budget!Guarded, Budget!Over

\* ChargedExactly: what remains of the allowance is the allowance less the time
\* the resolver has worked, however pauses and charges overlap, nothing is timed
\* out early, and while work goes on the end is guarded (extension_resolution_budget.go).
THEOREM ChargedExactlyHolds == MCSpec => []ChargedExactly
<1> DEFINE Inv == which = "budget" => BudgetIInv
<1>1. MCInit => Inv
  BY BudgetIInvInit DEF MCInit
<1>2. Inv /\ [MCNext]_all => Inv'
  BY ServiceStep, BudgetIInvInductive
<1>3. Inv => ChargedExactly
  BY IInvGuarded DEF ChargedExactly
<1> QED
  BY <1>1, <1>2, <1>3, PTL DEF MCSpec

-----------------------------------------------------------------------------
(* The race of a dial.  What a race has taken and what is still to come    *)
(* are all of its attempts, and what it took are failures.                 *)
LEMMA DiallingSameCardinality == \A S : Dialling!Cardinality(S) = Cardinality(S)
  BY DEF Dialling!Cardinality, Cardinality

Pending == {"dialling", "open", "error"}
Reports == Pending \cup {"given", "failed", "closed"}

\* What may be dialled, and in what order.
Lists == {Dialling!Dialable(ips) : ips \in HostAnswers} \cup {<<>>}
Orders == {Dialling!DialOrder(list) : list \in Lists} \cup {<<>>}

DialSet ==
    [pc : {"idle", "doh", "race", "ended"}, upstream : Int, ordered : Orders, finished : Int,
     result : Int, cancelled : BOOLEAN, draining : Int]

Left(a) == {k \in DOMAIN a : a[k] \in Pending}
Given(a) == {k \in DOMAIN a : a[k] = "given"}

\* A dial before, in and after its race.
Before(r, a) == a = <<>> /\ r.ordered = <<>> /\ r.finished = 0 /\ r.result = 0 /\ r.draining = 0

Racing(r, a) ==
    /\ r.result = 0 /\ r.draining = 0
    /\ r.finished + Dialling!Cardinality(Left(a)) = Len(a)
    /\ Len(a) <= Len(r.ordered)
    /\ \A k \in DOMAIN a : a[k] \in Pending \cup {"failed"}

After(r, a) ==
    /\ Dialling!Cardinality(Left(a)) = r.draining
    /\ Given(a) = {r.result} \ {0}
    /\ Given(a) = {} /\ ~r.cancelled =>
         Len(a) = Len(r.ordered) /\ \A k \in DOMAIN a : a[k] = "failed"

DiallingAccounted(r, a) ==
    /\ r.pc \in {"idle", "doh"} => Before(r, a)
    /\ r.pc = "race" => Racing(r, a)
    /\ r.pc = "ended" => After(r, a)

DiallingTyped ==
    /\ dohCache.ips \in Lists
    /\ dial \in [Dials -> DialSet]
    /\ attempt \in [Dials -> Seq(Reports)]

DiallingIInv == DiallingTyped /\ \A d \in Dials : DiallingAccounted(dial[d], attempt[d])

LEMMA ListsAreLists ==
  ASSUME NEW list \in Lists
  PROVE  /\ Len(list) \in Nat /\ DOMAIN list = 1 .. Len(list)
         /\ list # <<>> => Len(list) > 0
<1>1. CASE list = <<>>
  BY <1>1
<1>2. CASE list # <<>>
  <2>1. PICK ips \in HostAnswers : list = Dialling!Dialable(ips)
    BY <1>2 DEF Lists
  <2> DEFINE may == {i \in DOMAIN ips : PrivateAllowed \/ ~ips[i].private}
             nth(k) == CHOOSE i \in may : Dialling!Cardinality({j \in may : j <= i}) = k
             n == Dialling!Cardinality(may)
  <2>2. IsFiniteSet(may)
    <3>1. ips \in Seq([family : {4, 6}, private : BOOLEAN, n : Nat])
      BY DiallingAssumption
    <3>2. DOMAIN ips = 1 .. Len(ips) /\ Len(ips) \in Nat
      BY <3>1
    <3>3. may \subseteq DOMAIN ips /\ IsFiniteSet(DOMAIN ips)
      BY <3>2, FS_Interval
    <3> QED
      BY <3>3, FS_Subset
  <2>3. n \in Nat
    BY <2>2, FS_CardinalityType, DiallingSameCardinality
  <2>4. list = [k \in 1 .. n |-> ips[nth(k)]]
    BY <2>1 DEF Dialling!Dialable
  <2> DEFINE S == {ips[nth(k)] : k \in 1 .. n}
  <2> HIDE DEF n, nth
  <2>5. list \in [1 .. n -> S]
    BY <2>4
  <2>6. list \in Seq(S) /\ Len(list) = n
    BY <2>3, <2>5
  <2> QED
    BY <1>2, <2>3, <2>6, EmptySeq
<1> QED
  BY <1>1, <1>2

LEMMA OrdersAreLists ==
  ASSUME NEW list \in Lists
  PROVE  Len(Dialling!DialOrder(list)) = Len(list)
<1> DEFINE order == Dialling!DialOrder(list)
           S == {order[k] : k \in 1 .. Len(list)}
<1>1. DOMAIN list = 1 .. Len(list) /\ Len(list) \in Nat
  BY ListsAreLists
<1>2. DOMAIN order = 1 .. Len(list) /\ order = [k \in DOMAIN order |-> order[k]]
  BY <1>1 DEF Dialling!DialOrder
<1> HIDE DEF order
<1>3. order \in [1 .. Len(list) -> S]
  BY <1>2
<1>4. Len(order) = Len(list)
  BY <1>1, <1>3
<1> QED
  BY <1>4 DEF order

LEMMA OrderLength == ASSUME NEW order \in Orders PROVE Len(order) \in Nat
  BY ListsAreLists, OrdersAreLists DEF Orders

LEMMA LeftFinite ==
  ASSUME NEW a \in Seq(Reports)
  PROVE  /\ IsFiniteSet(Left(a)) /\ Dialling!Cardinality(Left(a)) \in Nat
         /\ Dialling!Cardinality(Left(a)) = 0 <=> Left(a) = {}
<1>1. IsFiniteSet(DOMAIN a)
  BY FS_Interval
<1>2. IsFiniteSet(Left(a))
  BY <1>1, FS_Subset DEF Left
<1> QED
  BY <1>2, FS_CardinalityType, FS_EmptySet, DiallingSameCardinality

LEMMA DiallingIInvInit == Dialling!Init => DiallingIInv
<1> SUFFICES ASSUME Dialling!Init PROVE DiallingIInv
  OBVIOUS
<1>1. Dialling!Idle \in DialSet
  BY DEF Dialling!Idle, DialSet, Orders
<1>2. DiallingTyped
  BY <1>1 DEF Dialling!Init, DiallingTyped, Lists
<1>3. \A d \in Dials : DiallingAccounted(dial[d], attempt[d])
  BY DEF Dialling!Init, Dialling!Idle, DiallingAccounted, Before
<1> QED
  BY <1>2, <1>3 DEF DiallingIInv

\* One dial moves, and stays accounted for.
LEMMA DiallingMoveKeeps ==
  ASSUME DiallingIInv, NEW d \in Dials, NEW r \in DialSet, NEW a \in Seq(Reports),
         dial' = [dial EXCEPT ![d] = r], attempt' = [attempt EXCEPT ![d] = a],
         DiallingAccounted(r, a), dohCache'.ips \in Lists
  PROVE  DiallingIInv'
<1>1. DiallingTyped'
  BY DEF DiallingIInv, DiallingTyped
<1>2. ASSUME NEW e \in Dials PROVE DiallingAccounted(dial'[e], attempt'[e])
  <2>1. CASE e = d
    BY <2>1 DEF DiallingIInv, DiallingTyped
  <2>2. CASE e # d
    BY <2>2 DEF DiallingIInv, DiallingTyped
  <2> QED
    BY <2>1, <2>2
<1> QED
  BY <1>1, <1>2 DEF DiallingIInv

LEMMA DialTyped ==
  ASSUME DiallingIInv, NEW d \in Dials
  PROVE  /\ dial[d] \in DialSet /\ attempt[d] \in Seq(Reports)
         /\ DiallingAccounted(dial[d], attempt[d])
         /\ DOMAIN attempt[d] = 1 .. Len(attempt[d])
         /\ Len(attempt[d]) \in Nat /\ Len(dial[d].ordered) \in Nat
  BY OrderLength DEF DiallingIInv, DiallingTyped, DialSet

LEMMA DialUnmoved ==
  ASSUME DiallingIInv, NEW d \in Dials
  PROVE  /\ dial = [dial EXCEPT ![d] = dial[d]]
         /\ attempt = [attempt EXCEPT ![d] = attempt[d]]
  BY DEF DiallingIInv, DiallingTyped

LEMMA CacheListed ==
  ASSUME DiallingIInv, dohCache' = dohCache
  PROVE  dohCache'.ips \in Lists
  BY DEF DiallingIInv, DiallingTyped

\* A dial fails before it has begun a race.
LEMMA FailKeeps ==
  ASSUME DiallingIInv, NEW d \in Dials, dial[d].pc \in {"idle", "doh"}, Dialling!Fails(d),
         dohCache'.ips \in Lists
  PROVE  DiallingIInv'
<1> DEFINE r == [dial[d] EXCEPT !.pc = "ended"]
<1>1. r \in DialSet /\ Before(r, attempt[d]) /\ r.pc = "ended"
  BY DialTyped DEF DialSet, DiallingAccounted, Before
<1>2. Left(attempt[d]) = {} /\ Given(attempt[d]) = {} /\ attempt[d] = <<>>
  BY <1>1 DEF Left, Given, Before
<1>3. DiallingAccounted(r, attempt[d])
  <2>1. /\ r.pc = "ended" /\ r.result = 0 /\ r.draining = 0 /\ r.ordered = <<>>
        /\ Dialling!Cardinality(Left(attempt[d])) = 0
    BY <1>1, <1>2, FS_EmptySet, DiallingSameCardinality DEF Before
  <2> HIDE DEF r
  <2>2. After(r, attempt[d])
    BY <1>2, <2>1 DEF After
  <2> QED
    BY <2>1, <2>2 DEF DiallingAccounted
<1>4. dial' = [dial EXCEPT ![d] = r] /\ attempt' = [attempt EXCEPT ![d] = attempt[d]]
  BY DialUnmoved DEF Dialling!Fails
<1> HIDE DEF r
<1> QED
  BY <1>1, <1>3, <1>4, DialTyped, DiallingMoveKeeps

\* A race begins with one attempt.
LEMMA RaceKeeps ==
  ASSUME DiallingIInv, NEW d \in Dials, dial[d].pc \in {"idle", "doh"},
         NEW list \in Lists, list # <<>>, Dialling!Race(d, list), dohCache'.ips \in Lists
  PROVE  DiallingIInv'
<1> DEFINE r == [dial[d] EXCEPT !.pc = "race", !.ordered = Dialling!DialOrder(list)]
           a == <<"dialling">>
<1>1. /\ r \in DialSet /\ r.pc = "race" /\ r.ordered = Dialling!DialOrder(list)
      /\ r.finished = 0 /\ r.result = 0 /\ r.draining = 0
  BY DialTyped DEF DialSet, DiallingAccounted, Before, Orders
<1>2. a \in Seq(Reports) /\ Len(a) = 1 /\ a[1] = "dialling" /\ DOMAIN a = {1}
  BY DEF Reports, Pending
<1>3. Left(a) = {1}
  BY <1>2 DEF Left, Pending
<1>4. Dialling!Cardinality(Left(a)) = 1
  BY <1>3, FS_Singleton, DiallingSameCardinality
<1>5. Len(r.ordered) >= 1
  BY <1>1, ListsAreLists, OrdersAreLists
<1>6. Racing(r, a)
  BY <1>1, <1>2, <1>4, <1>5 DEF Racing, Pending
<1>7. DiallingAccounted(r, a)
  BY <1>1, <1>6 DEF DiallingAccounted
<1>8. dial' = [dial EXCEPT ![d] = r] /\ attempt' = [attempt EXCEPT ![d] = a]
  BY DEF Dialling!Race
<1> HIDE DEF r, a
<1> QED
  BY <1>1, <1>2, <1>7, <1>8, DiallingMoveKeeps

LEMMA ResolveKeeps == ASSUME DiallingIInv, NEW d \in Dials,
Dialling!Resolve(d) PROVE DiallingIInv'
<1>1. ASSUME NEW ips \in HostAnswers, Dialling!Resolved(d, ips) PROVE DiallingIInv'
  <2>1. Dialling!Dialable(ips) \in Lists /\ dohCache' = dohCache /\ dial[d].pc = "idle"
    BY <1>1 DEF Lists, Dialling!Resolved, Dialling!At
  <2> QED
    BY <1>1, <2>1, FailKeeps, RaceKeeps DEF Dialling!Resolved, DiallingIInv, DiallingTyped
<1>2. ASSUME NEW ips \in HostAnswers, Dialling!Queried(d, ips) PROVE DiallingIInv'
  <2>1. Dialling!Dialable(ips) \in Lists /\ dohCache'.ips = Dialling!Dialable(ips)
        /\ dial[d].pc = "doh"
    BY <1>2 DEF Lists, Dialling!Queried, Dialling!Remember, Dialling!At
  <2> QED
    BY <1>2, <2>1, FailKeeps, RaceKeeps DEF Dialling!Queried
<1>3. CASE Dialling!LookupFails(d)
  BY <1>3, FailKeeps DEF Dialling!LookupFails, Dialling!At, DiallingIInv, DiallingTyped
<1>4. CASE Dialling!FallBack(d)
  <2>1. dial[d].pc = "idle" /\ dohCache' = dohCache /\ dohCache.ips \in Lists
    BY <1>4 DEF Dialling!FallBack, Dialling!At, DiallingIInv, DiallingTyped
  <2>2. CASE Dialling!Cached
    BY <1>4, <2>1, <2>2, FailKeeps, RaceKeeps DEF Dialling!FallBack
  <2>3. CASE ~Dialling!Cached
    <3> DEFINE r == [dial[d] EXCEPT !.pc = "doh", !.upstream = 1]
    <3>1. r \in DialSet /\ r.pc = "doh" /\ Before(r, attempt[d])
      <4>1. dial[d] \in DialSet /\ Before(dial[d], attempt[d])
        BY <2>1, DialTyped DEF DiallingAccounted
      <4>2. /\ r \in DialSet /\ r.pc = "doh" /\ r.ordered = dial[d].ordered
            /\ r.finished = dial[d].finished /\ r.result = dial[d].result
            /\ r.draining = dial[d].draining
        <5>1. [dial[d] EXCEPT !.upstream = 1] \in DialSet
          BY <4>1 DEF DialSet
        <5>2. /\ r = [[dial[d] EXCEPT !.upstream = 1] EXCEPT !.pc = "doh"]
              /\ r.ordered = dial[d].ordered /\ r.finished = dial[d].finished
              /\ r.result = dial[d].result /\ r.draining = dial[d].draining
          BY <4>1 DEF DialSet
        <5> HIDE DEF r
        <5>3. r \in DialSet /\ r.pc = "doh"
          BY <5>1, <5>2 DEF DialSet
        <5> QED
          BY <5>2, <5>3
      <4> QED
        BY <4>1, <4>2 DEF Before
    <3>2. dial' = [dial EXCEPT ![d] = r] /\ attempt' = [attempt EXCEPT ![d] = attempt[d]]
      BY <1>4, <2>3, DialUnmoved DEF Dialling!FallBack
    <3> HIDE DEF r
    <3> QED
      BY <2>1, <3>1, <3>2, DialTyped, DiallingMoveKeeps DEF DiallingAccounted
  <2> QED
    BY <2>2, <2>3
<1>5. CASE Dialling!QueryFails(d)
  <2>1. dial[d].pc = "doh"
    BY <1>5 DEF Dialling!QueryFails, Dialling!At
  <2>2. CASE dial[d].upstream < Upstreams
    <3> DEFINE r == [dial[d] EXCEPT !.upstream = @ + 1]
    <3>1. r \in DialSet /\ r.pc = "doh" /\ Before(r, attempt[d])
      <4>1. dial[d] \in DialSet /\ Before(dial[d], attempt[d])
        BY <2>1, DialTyped DEF DiallingAccounted
      <4>2. /\ r \in DialSet /\ r.pc = "doh" /\ r.ordered = dial[d].ordered
            /\ r.finished = dial[d].finished /\ r.result = dial[d].result
            /\ r.draining = dial[d].draining
        BY <2>1, <4>1 DEF DialSet
      <4> QED
        BY <4>1, <4>2 DEF Before
    <3>2. /\ dial' = [dial EXCEPT ![d] = r] /\ attempt' = [attempt EXCEPT ![d] = attempt[d]]
          /\ dohCache' = dohCache
      BY <1>5, <2>2, DialUnmoved DEF Dialling!QueryFails
    <3> HIDE DEF r
    <3> QED
      BY <3>1, <3>2, DialTyped, CacheListed, DiallingMoveKeeps DEF DiallingAccounted
  <2>3. CASE ~(dial[d].upstream < Upstreams)
    <3>1. Dialling!Fails(d) /\ dohCache'.ips = <<>>
      BY <1>5, <2>3 DEF Dialling!QueryFails, Dialling!Remember
    <3> QED
      BY <2>1, <3>1, FailKeeps DEF Lists
  <2> QED
    BY <2>2, <2>3
<1> QED
  BY <1>1, <1>2, <1>3, <1>4, <1>5 DEF Dialling!Resolve

\* An attempt ends, or its result is taken, and the others stay.
LEMMA OutcomeChanges ==
  ASSUME NEW a \in Seq(Reports), NEW k \in DOMAIN a, a[k] \in Pending,
         NEW report \in Reports, NEW b, b = [a EXCEPT ![k] = report]
  PROVE  /\ b \in Seq(Reports) /\ Len(b) = Len(a) /\ DOMAIN b = DOMAIN a
         /\ \A i \in DOMAIN a : b[i] = IF i = k THEN report ELSE a[i]
         /\ Given(b) = IF report = "given" THEN Given(a) \cup {k} ELSE Given(a)
         /\ Dialling!Cardinality(Left(b)) =
              IF report \in Pending THEN Dialling!Cardinality(Left(a))
              ELSE Dialling!Cardinality(Left(a)) - 1
<1>1. b \in Seq(Reports) /\ Len(b) = Len(a) /\ DOMAIN b = DOMAIN a
  OBVIOUS
<1>2. \A i \in DOMAIN a : b[i] = IF i = k THEN report ELSE a[i]
  OBVIOUS
<1>3. Given(b) = IF report = "given" THEN Given(a) \cup {k} ELSE Given(a)
  BY <1>1, <1>2 DEF Given, Pending
<1>4. Dialling!Cardinality(Left(b)) =
        IF report \in Pending THEN Dialling!Cardinality(Left(a))
        ELSE Dialling!Cardinality(Left(a)) - 1
  <2>1. CASE report \in Pending
    <3>1. Left(b) = Left(a)
      BY <1>1, <1>2, <2>1 DEF Left
    <3> QED
      BY <2>1, <3>1
  <2>2. CASE report \notin Pending
    <3>1. Left(b) = Left(a) \ {k} /\ k \in Left(a)
      BY <1>1, <1>2, <2>2 DEF Left
    <3>2. Dialling!Cardinality(Left(a) \ {k}) = Dialling!Cardinality(Left(a)) - 1
      BY <3>1, LeftFinite, FS_RemoveElement, DiallingSameCardinality
    <3> QED
      BY <2>2, <3>1, <3>2
  <2> QED
    BY <2>1, <2>2
<1> QED
  BY <1>1, <1>2, <1>3, <1>4

\* One more attempt is under way.
LEMMA AttemptAdded ==
  ASSUME NEW a \in Seq(Reports), NEW b, b = Append(a, "dialling")
  PROVE  /\ b \in Seq(Reports) /\ Len(b) = Len(a) + 1
         /\ Dialling!Cardinality(Left(b)) = Dialling!Cardinality(Left(a)) + 1
         /\ \A i \in DOMAIN b : b[i] = "dialling" \/ (i \in DOMAIN a /\ b[i] = a[i])
<1> DEFINE n == Len(a) + 1
<1>1. /\ b \in Seq(Reports) /\ Len(b) = n /\ b[n] = "dialling"
      /\ DOMAIN a = 1 .. Len(a) /\ DOMAIN b = 1 .. n /\ n \notin DOMAIN a /\ Len(a) \in Nat
      /\ \A i \in 1 .. Len(a) : b[i] = a[i]
  BY DEF Reports, Pending
<1>2. \A i \in DOMAIN b : i = n \/ i \in DOMAIN a
  BY <1>1
<1>3. Left(b) = Left(a) \cup {n} /\ n \notin Left(a)
  BY <1>1, <1>2 DEF Left, Pending
<1>4. Dialling!Cardinality(Left(b)) = Dialling!Cardinality(Left(a)) + 1
  BY <1>3, LeftFinite, FS_AddElement, DiallingSameCardinality
<1> QED
  BY <1>1, <1>2, <1>4

LEMMA AttemptEndsKeeps ==
  ASSUME DiallingIInv, NEW d \in Dials, NEW k, NEW report, Dialling!AttemptEnds(d, k, report)
  PROVE  DiallingIInv'
<1> DEFINE b == [attempt[d] EXCEPT ![k] = report]
<1>1. /\ k \in DOMAIN attempt[d] /\ attempt[d][k] = "dialling" /\ report \in {"open", "error"}
      /\ attempt' = [attempt EXCEPT ![d] = b]
      /\ dial' = [dial EXCEPT ![d] = dial[d]] /\ dohCache' = dohCache
  BY DialUnmoved DEF Dialling!AttemptEnds
<1>2. /\ b \in Seq(Reports) /\ Len(b) = Len(attempt[d]) /\ DOMAIN b = DOMAIN attempt[d]
      /\ \A i \in DOMAIN attempt[d] : b[i] = IF i = k THEN report ELSE attempt[d][i]
      /\ Given(b) = Given(attempt[d])
      /\ Dialling!Cardinality(Left(b)) = Dialling!Cardinality(Left(attempt[d]))
  <2>1. attempt[d] \in Seq(Reports) /\ attempt[d][k] \in Pending /\ report \in Reports
    BY <1>1, DialTyped DEF Reports, Pending
  <2> HIDE DEF b
  <2>2. report \in Pending /\ report # "given"
    BY <1>1 DEF Pending
  <2>3. b = [attempt[d] EXCEPT ![k] = report]
    BY DEF b
  <2> QED
    BY <1>1, <2>1, <2>2, <2>3, OutcomeChanges
<1> HIDE DEF b
<1>3. DiallingAccounted(dial[d], b)
  <2>1. dial[d].pc \notin {"idle", "doh"}
    BY <1>1, DialTyped DEF DiallingAccounted, Before
  <2>2. dial[d].pc = "race" => Racing(dial[d], b)
    BY <1>1, <1>2, DialTyped DEF DiallingAccounted, Racing, Pending
  <2>3. dial[d].pc = "ended" => After(dial[d], b)
    BY <1>1, <1>2, DialTyped DEF DiallingAccounted, After
  <2> QED
    BY <2>1, <2>2, <2>3 DEF DiallingAccounted
<1> QED
  BY <1>1, <1>2, <1>3, DialTyped, CacheListed, DiallingMoveKeeps

LEMMA TimerKeeps == ASSUME DiallingIInv, NEW d \in Dials, Dialling!Timer(d) PROVE DiallingIInv'
<1> DEFINE b == Append(attempt[d], "dialling")
<1>1. /\ dial[d].pc = "race" /\ Len(attempt[d]) < Len(dial[d].ordered)
      /\ attempt' = [attempt EXCEPT ![d] = b]
      /\ dial' = [dial EXCEPT ![d] = dial[d]] /\ dohCache' = dohCache
  BY DialUnmoved DEF Dialling!Timer, Dialling!At, Dialling!Started
<1>2. /\ b \in Seq(Reports) /\ Len(b) = Len(attempt[d]) + 1
      /\ Dialling!Cardinality(Left(b)) = Dialling!Cardinality(Left(attempt[d])) + 1
      /\ \A i \in DOMAIN b : b[i] = "dialling"
         \/ (i \in DOMAIN attempt[d] /\ b[i] = attempt[d][i])
  <2>1. attempt[d] \in Seq(Reports) /\ b = Append(attempt[d], "dialling")
    BY DialTyped
  <2> HIDE DEF b
  <2> QED
    BY <2>1, AttemptAdded
<1> HIDE DEF b
<1>3. /\ Racing(dial[d], attempt[d]) /\ dial[d].finished \in Int
      /\ Len(attempt[d]) \in Nat /\ Len(dial[d].ordered) \in Nat
  BY <1>1, DialTyped DEF DiallingAccounted, DialSet
<1>4. Dialling!Cardinality(Left(attempt[d])) \in Nat
  BY LeftFinite, DialTyped
<1>5. Racing(dial[d], b)
  <2>1. /\ dial[d].finished + Dialling!Cardinality(Left(attempt[d])) = Len(attempt[d])
        /\ Len(b) = Len(attempt[d]) + 1
        /\ Dialling!Cardinality(Left(b)) = Dialling!Cardinality(Left(attempt[d])) + 1
    BY <1>2, <1>3 DEF Racing
  <2>3. Len(b) <= Len(dial[d].ordered)
        /\ dial[d].finished + Dialling!Cardinality(Left(b)) = Len(b)
    <3>1. Len(attempt[d]) < Len(dial[d].ordered)
      BY <1>1
    <3> QED
      BY <2>1, <3>1, <1>3, <1>4
  <2>2. \A i \in DOMAIN b : b[i] \in Pending \cup {"failed"}
    BY <1>2, <1>3 DEF Racing, Pending
  <2> QED
    BY <1>3, <2>2, <2>3 DEF Racing
<1>6. DiallingAccounted(dial[d], b)
  BY <1>1, <1>5 DEF DiallingAccounted
<1> QED
  BY <1>1, <1>2, <1>6, DialTyped, CacheListed, DiallingMoveKeeps

LEMMA ConnectedKeeps == ASSUME DiallingIInv, NEW d \in Dials, NEW k,
Dialling!Connected(d, k) PROVE DiallingIInv'
<1> DEFINE b == [attempt[d] EXCEPT ![k] = "given"]
           r == [dial[d] EXCEPT !.pc = "ended", !.result = k, !.finished = @ + 1,
                                !.draining = Dialling!Started(d) - (dial[d].finished + 1)]
<1>1. /\ k \in DOMAIN attempt[d] /\ attempt[d][k] = "open" /\ dial[d].pc = "race"
      /\ attempt' = [attempt EXCEPT ![d] = b] /\ dial' = [dial EXCEPT ![d] = r]
      /\ dohCache' = dohCache
  BY DEF Dialling!Connected, Dialling!At
<1>2. /\ Racing(dial[d], attempt[d]) /\ dial[d] \in DialSet /\ dial[d].finished \in Int
      /\ Len(attempt[d]) \in Nat /\ k \in Nat /\ k # 0
  BY <1>1, DialTyped DEF DiallingAccounted, DialSet
<1>3. /\ r \in DialSet /\ r.pc = "ended" /\ r.result = k
      /\ r.draining = Len(attempt[d]) - (dial[d].finished + 1)
  <2> DEFINE left == Dialling!Started(d) - (dial[d].finished + 1)
  <2>1. left \in Int /\ left = Len(attempt[d]) - (dial[d].finished + 1)
    BY <1>2 DEF Dialling!Started
  <2> HIDE DEF left
  <2>2. r = [dial[d] EXCEPT !.pc = "ended", !.result = k, !.finished = @ + 1, !.draining = left]
    BY DEF left
  <2> HIDE DEF r
  <2>3. dial[d].finished + 1 \in Int /\ k \in Int
    BY <1>2
  <2>4. r \in DialSet /\ r.pc = "ended" /\ r.result = k /\ r.draining = left
    BY <1>2, <2>1, <2>2, <2>3 DEF DialSet
  <2> QED
    BY <2>1, <2>4
<1>4. /\ b \in Seq(Reports)
      /\ Given(b) = Given(attempt[d]) \cup {k}
      /\ Dialling!Cardinality(Left(b)) = Dialling!Cardinality(Left(attempt[d])) - 1
  <2>1. attempt[d] \in Seq(Reports) /\ attempt[d][k] \in Pending /\ "given" \in Reports
    BY <1>1, DialTyped DEF Reports, Pending
  <2> HIDE DEF b
  <2>2. "given" \notin Pending
    BY <1>1 DEF Pending
  <2>3. b = [attempt[d] EXCEPT ![k] = "given"]
    BY DEF b
  <2> QED
    BY <1>1, <2>1, <2>2, <2>3, OutcomeChanges
<1> HIDE DEF b, r
<1>5. Given(attempt[d]) = {}
  BY <1>2 DEF Racing, Given, Pending
<1>6. Dialling!Cardinality(Left(attempt[d])) \in Nat
  BY LeftFinite, DialTyped
<1>7. After(r, b)
  BY <1>2, <1>3, <1>4, <1>5, <1>6 DEF After, Racing
<1>8. DiallingAccounted(r, b)
  BY <1>3, <1>7 DEF DiallingAccounted
<1> QED
  BY <1>1, <1>3, <1>4, <1>8, CacheListed, DiallingMoveKeeps

LEMMA RefusedKeeps == ASSUME DiallingIInv, NEW d \in Dials, NEW k,
Dialling!Refused(d, k) PROVE DiallingIInv'
<1> DEFINE finished == dial[d].finished + 1
           last == finished = Len(dial[d].ordered)
           taken == [attempt[d] EXCEPT ![k] = "failed"]
           r == [dial[d] EXCEPT !.finished = finished, !.pc = IF last THEN "ended" ELSE @]
           b == IF ~last
           /\ finished = Dialling!Started(d) THEN Append(taken, "dialling") ELSE taken
<1>1. /\ k \in DOMAIN attempt[d] /\ attempt[d][k] = "error" /\ dial[d].pc = "race"
      /\ attempt' = [attempt EXCEPT ![d] = b] /\ dial' = [dial EXCEPT ![d] = r]
      /\ dohCache' = dohCache
  BY DEF Dialling!Refused, Dialling!At
<1>2. /\ Racing(dial[d], attempt[d]) /\ dial[d] \in DialSet /\ dial[d].finished \in Int
      /\ Len(attempt[d]) \in Nat /\ Len(dial[d].ordered) \in Nat
  BY <1>1, DialTyped DEF DiallingAccounted, DialSet
<1>3. /\ r \in DialSet /\ r.finished = finished /\ r.ordered = dial[d].ordered
      /\ r.pc = (IF last THEN "ended" ELSE "race")
      /\ r.result = 0 /\ r.draining = 0
  <2>1. finished \in Int /\ dial[d].result = 0 /\ dial[d].draining = 0
    BY <1>2 DEF Racing
  <2> HIDE DEF finished, last
  <2> DEFINE pc == IF last THEN "ended" ELSE "race"
  <2>2. pc \in {"race", "ended"}
    OBVIOUS
  <2>3. r = [dial[d] EXCEPT !.finished = finished, !.pc = pc]
    BY <1>1, <1>2 DEF DialSet
  <2> HIDE DEF r, pc
  <2>4. /\ r \in DialSet /\ r.finished = finished /\ r.ordered = dial[d].ordered
        /\ r.pc = pc /\ r.result = dial[d].result /\ r.draining = dial[d].draining
    BY <1>2, <2>1, <2>2, <2>3 DEF DialSet
  <2> QED
    BY <2>1, <2>4 DEF pc
<1>4. /\ taken \in Seq(Reports) /\ Len(taken) = Len(attempt[d])
      /\ DOMAIN taken = DOMAIN attempt[d]
      /\ \A i \in DOMAIN attempt[d] : taken[i] = IF i = k THEN "failed" ELSE attempt[d][i]
      /\ Dialling!Cardinality(Left(taken)) = Dialling!Cardinality(Left(attempt[d])) - 1
  <2>1. attempt[d] \in Seq(Reports) /\ attempt[d][k] \in Pending /\ "failed" \in Reports
    BY <1>1, DialTyped DEF Reports, Pending
  <2> HIDE DEF taken
  <2>2. "failed" \notin Pending
    BY <1>1 DEF Pending
  <2>3. taken = [attempt[d] EXCEPT ![k] = "failed"]
    BY DEF taken
  <2> QED
    BY <1>1, <2>1, <2>2, <2>3, OutcomeChanges
<1> HIDE DEF r, taken
<1>5. Dialling!Cardinality(Left(taken)) \in Nat
      /\ (Dialling!Cardinality(Left(taken)) = 0 <=> Left(taken) = {})
  BY <1>4, LeftFinite
<1>6. \A i \in DOMAIN taken : taken[i] \in Pending \cup {"failed"}
  BY <1>2, <1>4 DEF Racing
<1>7. finished + Dialling!Cardinality(Left(taken)) = Len(taken) /\ finished \in Int
  BY <1>2, <1>4, <1>5, LeftFinite, DialTyped DEF Racing
<1>8. CASE last
  <2>1. Len(taken) = Len(r.ordered) /\ Dialling!Cardinality(Left(taken)) = 0
    <3>1. finished = Len(r.ordered) /\ Len(taken) <= Len(r.ordered)
      BY <1>2, <1>3, <1>4, <1>8 DEF Racing
    <3>2. Len(taken) \in Nat /\ Len(r.ordered) \in Nat
      BY <1>2, <1>3, <1>4
    <3> HIDE DEF finished
    <3> QED
      BY <1>5, <1>7, <3>1, <3>2
  <2>2. \A i \in DOMAIN taken : taken[i] = "failed"
    BY <2>1, <1>5, <1>6 DEF Left
  <2>3. Given(taken) = {}
    BY <2>2 DEF Given
  <2>4. DiallingAccounted(r, taken) /\ b = taken
    BY <1>3, <1>8, <2>1, <2>2, <2>3 DEF DiallingAccounted, After
  <2> HIDE DEF b
  <2> QED
    BY <1>1, <1>3, <1>4, <2>4, CacheListed, DiallingMoveKeeps
<1>9. CASE ~last /\ finished = Dialling!Started(d)
  <2>1. b = Append(taken, "dialling")
    BY <1>9
  <2> HIDE DEF b
  <2>2. /\ b \in Seq(Reports) /\ Len(b) = Len(taken) + 1
        /\ Dialling!Cardinality(Left(b)) = Dialling!Cardinality(Left(taken)) + 1
        /\ \A i \in DOMAIN b : b[i] = "dialling" \/ (i \in DOMAIN taken /\ b[i] = taken[i])
    BY <1>4, <2>1, AttemptAdded
  <2>3. Len(b) <= Len(r.ordered)
    BY <1>2, <1>3, <1>4, <1>9, <2>2 DEF Racing, Dialling!Started
  <2>4. \A i \in DOMAIN b : b[i] \in Pending \cup {"failed"}
    BY <1>6, <2>2 DEF Pending
  <2>5. r.finished + Dialling!Cardinality(Left(b)) = Len(b)
    <3>1. Len(taken) \in Nat /\ finished = Len(taken) /\ r.finished = finished
      BY <1>2, <1>3, <1>4, <1>9 DEF Dialling!Started
    <3> HIDE DEF finished
    <3> QED
      BY <1>5, <1>7, <2>2, <3>1
  <2>6. Racing(r, b)
    BY <1>3, <2>3, <2>4, <2>5 DEF Racing
  <2>7. DiallingAccounted(r, b)
    BY <1>3, <1>9, <2>6 DEF DiallingAccounted
  <2> QED
    BY <1>1, <1>3, <2>2, <2>7, CacheListed, DiallingMoveKeeps
<1>10. CASE ~last /\ finished # Dialling!Started(d)
  <2>1. b = taken
    BY <1>10
  <2>2. Racing(r, taken)
    BY <1>2, <1>3, <1>4, <1>6, <1>7 DEF Racing
  <2>3. DiallingAccounted(r, taken)
    BY <1>3, <1>10, <2>2 DEF DiallingAccounted
  <2> HIDE DEF b
  <2> QED
    BY <1>1, <1>3, <1>4, <2>1, <2>3, CacheListed, DiallingMoveKeeps
<1> QED
  BY <1>8, <1>9, <1>10

LEMMA DrainKeeps == ASSUME DiallingIInv, NEW d \in Dials, NEW k \in DOMAIN attempt[d],
Dialling!Drain(d, k) PROVE DiallingIInv'
<1> DEFINE report == IF attempt[d][k] = "open" THEN "closed" ELSE "failed"
           b == [attempt[d] EXCEPT ![k] = report]
           r == [dial[d] EXCEPT !.draining = @ - 1]
<1>1. /\ dial[d].draining > 0 /\ attempt[d][k] \in {"open", "error"}
      /\ attempt' = [attempt EXCEPT ![d] = b] /\ dial' = [dial EXCEPT ![d] = r]
      /\ dohCache' = dohCache
  BY DEF Dialling!Drain
<1>2. After(dial[d], attempt[d]) /\ dial[d] \in DialSet /\ dial[d].pc = "ended"
  <2>1. dial[d].pc \in {"idle", "doh", "race", "ended"} /\ dial[d] \in DialSet
    BY DialTyped DEF DialSet
  <2>2. dial[d].pc # "race"
    BY <1>1, DialTyped DEF DiallingAccounted, Racing
  <2>3. dial[d].pc \notin {"idle", "doh"}
    BY <1>1, DialTyped DEF DiallingAccounted, Before
  <2> QED
    BY <2>1, <2>2, <2>3, DialTyped DEF DiallingAccounted
<1>3. /\ r \in DialSet /\ r.pc = "ended" /\ r.result = dial[d].result
      /\ r.ordered = dial[d].ordered /\ r.cancelled = dial[d].cancelled
      /\ r.draining = dial[d].draining - 1
  BY <1>2 DEF DialSet
<1>4. /\ b \in Seq(Reports) /\ Given(b) = Given(attempt[d])
      /\ Dialling!Cardinality(Left(b)) = Dialling!Cardinality(Left(attempt[d])) - 1
  <2>1. attempt[d] \in Seq(Reports) /\ attempt[d][k] \in Pending /\ report \in Reports
    BY <1>1, DialTyped DEF Reports, Pending
  <2> HIDE DEF b
  <2>2. report \notin Pending /\ report # "given"
    BY <1>1 DEF Pending
  <2>3. b = [attempt[d] EXCEPT ![k] = report]
    BY DEF b
  <2> QED
    BY <1>1, <2>1, <2>2, <2>3, OutcomeChanges
<1> HIDE DEF b, r
<1>5. ~(Given(attempt[d]) = {} /\ ~dial[d].cancelled)
  BY <1>1, <1>2 DEF After
<1>6. After(r, b)
  BY <1>2, <1>3, <1>4, <1>5 DEF After
<1>7. DiallingAccounted(r, b)
  BY <1>3, <1>6 DEF DiallingAccounted
<1> QED
  BY <1>1, <1>3, <1>4, <1>7, CacheListed, DiallingMoveKeeps

LEMMA DiallingEndKeeps == ASSUME DiallingIInv, NEW d \in Dials, Dialling!Cancel(d)
\/ Dialling!Cancelled(d) \/ Dialling!Again(d) PROVE DiallingIInv'
<1>1. CASE Dialling!Cancel(d)
  <2> DEFINE r == [dial[d] EXCEPT !.cancelled = TRUE]
  <2>1. /\ dial' = [dial EXCEPT ![d] = r] /\ attempt' = [attempt EXCEPT ![d] = attempt[d]]
        /\ dohCache' = dohCache /\ dial[d].pc \in {"doh", "race"}
    BY <1>1, DialUnmoved DEF Dialling!Cancel
  <2>2. /\ r \in DialSet /\ r.pc = dial[d].pc /\ r.ordered = dial[d].ordered
        /\ r.finished = dial[d].finished /\ r.result = dial[d].result
        /\ r.draining = dial[d].draining
    BY DialTyped DEF DialSet
  <2> HIDE DEF r
  <2>3. DiallingAccounted(r, attempt[d])
    BY <2>1, <2>2, DialTyped DEF DiallingAccounted, Before, Racing
  <2> QED
    BY <2>1, <2>2, <2>3, DialTyped, CacheListed, DiallingMoveKeeps
<1>2. CASE Dialling!Cancelled(d)
  <2> DEFINE r ==
        [dial[d] EXCEPT !.pc = "ended", !.draining = Dialling!Started(d) - dial[d].finished]
  <2>1. /\ dial' = [dial EXCEPT ![d] = r] /\ attempt' = [attempt EXCEPT ![d] = attempt[d]]
        /\ dohCache' = dohCache /\ dial[d].pc = "race" /\ dial[d].cancelled
    BY <1>2, DialUnmoved DEF Dialling!Cancelled, Dialling!At
  <2>2. /\ Racing(dial[d], attempt[d]) /\ dial[d].finished \in Int
    BY <2>1, DialTyped DEF DiallingAccounted, DialSet
  <2>3. /\ r \in DialSet /\ r.pc = "ended" /\ r.cancelled /\ r.result = dial[d].result
        /\ r.draining = Len(attempt[d]) - dial[d].finished
    <3> DEFINE left == Dialling!Started(d) - dial[d].finished
    <3>1. left \in Int /\ left = Len(attempt[d]) - dial[d].finished /\ dial[d] \in DialSet
      BY <2>2, DialTyped DEF Dialling!Started
    <3> HIDE DEF left
    <3>2. r = [dial[d] EXCEPT !.pc = "ended", !.draining = left]
      BY DEF left
    <3> HIDE DEF r
    <3>3. /\ r \in DialSet /\ r.pc = "ended" /\ r.cancelled = dial[d].cancelled
          /\ r.result = dial[d].result /\ r.draining = left
      BY <3>1, <3>2 DEF DialSet
    <3> QED
      BY <2>1, <3>1, <3>3
  <2> HIDE DEF r
  <2>4. Given(attempt[d]) = {}
    BY <2>2 DEF Racing, Given, Pending
  <2>5. Dialling!Cardinality(Left(attempt[d])) \in Nat
    BY LeftFinite, DialTyped
  <2>6. Dialling!Cardinality(Left(attempt[d])) = r.draining
    BY <2>2, <2>3, <2>5, DialTyped DEF Racing
  <2>7. DiallingAccounted(r, attempt[d])
    BY <2>2, <2>3, <2>4, <2>6 DEF DiallingAccounted, After, Racing
  <2> QED
    BY <2>1, <2>3, <2>7, DialTyped, CacheListed, DiallingMoveKeeps
<1>3. CASE Dialling!Again(d)
  <2>1. Dialling!Idle \in DialSet /\ DiallingAccounted(Dialling!Idle, <<>>)
        /\ <<>> \in Seq(Reports)
    BY DEF Dialling!Idle, DialSet, Orders, DiallingAccounted, Before
  <2> QED
    BY <1>3, <2>1, CacheListed, DiallingMoveKeeps DEF Dialling!Again
<1> QED
  BY <1>1, <1>2, <1>3

LEMMA DiallingIInvInductive == DiallingIInv
/\ (Dialling!Next \/ UNCHANGED Dialling!vars) => DiallingIInv'
<1> SUFFICES ASSUME DiallingIInv, Dialling!Next \/ UNCHANGED Dialling!vars PROVE DiallingIInv'
  OBVIOUS
<1>1. CASE Dialling!Tick \/ UNCHANGED Dialling!vars
  <2>1. UNCHANGED <<dohCache, dial, attempt>>
    BY <1>1 DEF Dialling!Tick, Dialling!vars
  <2> QED
    BY <2>1 DEF DiallingIInv, DiallingTyped
<1>2. ASSUME NEW d \in Dials, NEW k \in DOMAIN attempt[d],
             Dialling!Report(d, k) PROVE DiallingIInv'
  BY <1>2, AttemptEndsKeeps, ConnectedKeeps, RefusedKeeps, DrainKeeps DEF Dialling!Report
<1> QED
  BY <1>1, <1>2, ResolveKeeps, TimerKeeps, DiallingEndKeeps DEF Dialling!Next

LEMMA IInvAccounted == DiallingIInv => Dialling!RaceAccounted
  BY DEF DiallingIInv, DiallingAccounted, After, Left, Given, Pending, Dialling!RaceAccounted,
     Dialling!At, Dialling!Started

\* RaceAccounted: when a race is over exactly the attempts nobody has heard of
\* are left to be drained, and it gives no connection only when all have failed
\* or it was cancelled (raceResolvedIPs, drainDialResults).
THEOREM RaceAccountedHolds == MCSpec => []RaceAccounted
<1> DEFINE Inv == which = "dialling" => DiallingIInv
<1>1. MCInit => Inv
  BY DiallingIInvInit DEF MCInit
<1>2. Inv /\ [MCNext]_all => Inv'
  BY ServiceStep, DiallingIInvInductive
<1>3. Inv => RaceAccounted
  BY IInvAccounted DEF RaceAccounted
<1> QED
  BY <1>1, <1>2, <1>3, PTL DEF MCSpec

-----------------------------------------------------------------------------
(* The scan of the library.  A file that a scan which is not cancelled, and*)
(* whose sink has not failed, has handed out is with one worker, in the    *)
(* channel or answered, and a worker is gone only once all are handed out. *)
LEMMA ScanningSameCardinality == \A S : Scanning!Cardinality(S) = Cardinality(S)
  BY DEF Scanning!Cardinality, Cardinality

Results == [task : Tasks, ok : BOOLEAN]

ScanSet ==
    [pc : {"new", "collecting", "scanning", "alone", "ending", "flushing", "done", "failed"},
     fed : Nat, closed : BOOLEAN, cancelled : BOOLEAN, sinkFailed : BOOLEAN, completed : Nat,
     emitted : SUBSET Tasks, errors : Nat, buffer : SUBSET Results]

Places == Tasks \cup {Scanning!Ready, Scanning!Gone}

Busy(m) == {w \in Readers : m[w] \in Tasks}

\* Before the first file is handed out.
Untouched(r, m) ==
    /\ r.fed = 0 /\ ~r.closed /\ r.completed = 0
    /\ r.emitted = {} /\ r.errors = 0 /\ r.buffer = {}
    /\ \A w \in Readers : m[w] = Scanning!Ready

\* A file that was handed out is with one worker, in the channel or answered.
Apart(r, m) ==
    /\ \A w \in Busy(m) : m[w] <= r.fed /\ m[w] \notin r.emitted
    /\ \A v, w \in Busy(m) : m[v] = m[w] => v = w
    /\ \A w \in Busy(m), x \in r.buffer : x.task # m[w]
    /\ \A x \in r.buffer : x.task <= r.fed /\ x.task \notin r.emitted
    /\ \A x, y \in r.buffer : x.task = y.task => x = y
    /\ \A t \in r.emitted : t <= r.fed

Counts(r, m) ==
    /\ IsFiniteSet(r.buffer) /\ IsFiniteSet(r.emitted)
    /\ r.completed + Scanning!Cardinality(r.buffer) + Scanning!Cardinality(Busy(m)) = r.fed
    /\ Scanning!Cardinality(r.emitted) + r.errors = r.completed

Closes(r, m) == (r.closed => r.fed = Scanning!N)
/\ \A w \in Readers : m[w] = Scanning!Gone => r.closed

Sound(r) == ~r.cancelled /\ ~r.sinkFailed

\* Without workers: one file at most is begun and not answered.
OneByOne(r) ==
    /\ r.fed \in {r.completed, r.completed + 1} /\ r.fed <= Scanning!N
    /\ IsFiniteSet(r.emitted) /\ \A t \in r.emitted : t <= r.completed
    /\ Scanning!Cardinality(r.emitted) + r.errors = r.completed

Answered(r) ==
    /\ r.completed = Scanning!N
    /\ Scanning!Cardinality(r.emitted) + r.errors = Scanning!N

ScanningAccounted(r, m, out) ==
    /\ r.pc \in {"new", "collecting"} => Untouched(r, m)
    /\ r.pc = "scanning" /\ Sound(r) => Apart(r, m) /\ Counts(r, m) /\ Closes(r, m)
    /\ r.pc = "alone" => OneByOne(r)
    /\ r.pc \in {"ending", "flushing", "done"} => Answered(r)
    /\ out = "complete" <=> r.pc = "done"
    /\ r.pc = "failed" => out = "none"

ScanningTyped ==
    /\ scan \in [Scans -> ScanSet]
    /\ reader \in [Scans -> [Readers -> Places]]
    /\ output \in [Scans -> {"none", "partial", "complete"}]

ScanningIInv == ScanningTyped
/\ \A s \in Scans : ScanningAccounted(scan[s], reader[s], output[s])

LEMMA Tasked == Scanning!N \in Nat /\ Tasks = 1 .. Scanning!N /\ Scanning!Ready \notin Tasks
/\ Scanning!Gone \notin Tasks /\ Scanning!Ready # Scanning!Gone
<1>1. Scanning!N \in Nat /\ Tasks = 1 .. Scanning!N
  BY ScanningAssumption, FS_CardinalityType, ScanningSameCardinality DEF Scanning!N
<1> QED
  BY <1>1 DEF Scanning!Ready, Scanning!Gone

LEMMA BusyFinite ==
  ASSUME NEW m
  PROVE  IsFiniteSet(Busy(m)) /\ Scanning!Cardinality(Busy(m)) \in Nat
  BY ScanningAssumption, FS_Subset, FS_CardinalityType, ScanningSameCardinality DEF Busy

LEMMA ScanTyped ==
  ASSUME ScanningIInv, NEW s \in Scans
  PROVE  /\ scan[s] \in ScanSet /\ reader[s] \in [Readers -> Places]
         /\ output[s] \in {"none", "partial", "complete"}
         /\ ScanningAccounted(scan[s], reader[s], output[s])
  BY DEF ScanningIInv, ScanningTyped

LEMMA Unmoved ==
  ASSUME ScanningIInv, NEW s \in Scans
  PROVE  /\ scan = [scan EXCEPT ![s] = scan[s]]
         /\ reader = [reader EXCEPT ![s] = reader[s]]
         /\ output = [output EXCEPT ![s] = output[s]]
  BY DEF ScanningIInv, ScanningTyped

LEMMA ScanningIInvInit == Scanning!Init => ScanningIInv
<1> SUFFICES ASSUME Scanning!Init PROVE ScanningIInv
  OBVIOUS
<1>1. Scanning!New \in ScanSet
  BY DEF Scanning!New, ScanSet
<1>2. ScanningTyped
  BY <1>1 DEF Scanning!Init, ScanningTyped, Places
<1>3. \A s \in Scans : ScanningAccounted(scan[s], reader[s], output[s])
  BY DEF Scanning!Init, Scanning!New, ScanningAccounted, Untouched
<1> QED
  BY <1>2, <1>3 DEF ScanningIInv

\* A scan moves, and the others stay or are cancelled.
LEMMA ScanningMoveKeeps ==
  ASSUME ScanningIInv, NEW s \in Scans, NEW r \in ScanSet, NEW m \in [Readers -> Places],
         NEW out \in {"none", "partial", "complete"},
         scan' = [scan EXCEPT ![s] = r], reader' = [reader EXCEPT ![s] = m],
         output' = [output EXCEPT ![s] = out], ScanningAccounted(r, m, out)
  PROVE  ScanningIInv'
<1>1. ScanningTyped'
  BY DEF ScanningIInv, ScanningTyped
<1>2. ASSUME NEW t \in Scans PROVE ScanningAccounted(scan'[t], reader'[t], output'[t])
  <2>1. CASE t = s
    BY <2>1 DEF ScanningIInv, ScanningTyped
  <2>2. CASE t # s
    BY <2>2 DEF ScanningIInv, ScanningTyped
  <2> QED
    BY <2>1, <2>2
<1> QED
  BY <1>1, <1>2 DEF ScanningIInv

LEMMA CancelledIsAccounted ==
  ASSUME NEW r \in ScanSet, NEW m, NEW out, ScanningAccounted(r, m, out),
         NEW c, c = [r EXCEPT !.cancelled = TRUE]
  PROVE  c \in ScanSet /\ c.pc = r.pc /\ ScanningAccounted(c, m, out)
<1>1. /\ c \in ScanSet /\ c.pc = r.pc /\ c.cancelled /\ c.fed = r.fed /\ c.closed = r.closed
      /\ c.completed = r.completed /\ c.emitted = r.emitted /\ c.errors = r.errors
      /\ c.buffer = r.buffer
  BY DEF ScanSet
<1> QED
  BY <1>1 DEF ScanningAccounted, Untouched, Sound, OneByOne, Answered

LEMMA ClosingKeeps ==
  ASSUME ScanningIInv
  PROVE  /\ Scanning!Closing \in [Scans -> ScanSet]
         /\ \A s \in Scans :
              /\ Scanning!Closing[s].pc = scan[s].pc
              /\ ScanningAccounted(Scanning!Closing[s], reader[s], output[s])
<1>1. ASSUME NEW s \in Scans
      PROVE  /\ Scanning!Closing[s] \in ScanSet /\ Scanning!Closing[s].pc = scan[s].pc
             /\ ScanningAccounted(Scanning!Closing[s], reader[s], output[s])
  <2>1. CASE s = current
    BY <2>1, ScanTyped, CancelledIsAccounted DEF Scanning!Closing
  <2>2. CASE s # current
    BY <2>2, ScanTyped DEF Scanning!Closing
  <2> QED
    BY <2>1, <2>2
<1> QED
  BY <1>1 DEF Scanning!Closing

LEMMA ScanStartKeeps == ASSUME ScanningIInv, NEW s \in Scans,
Scanning!Start(s) PROVE ScanningIInv'
<1> DEFINE r == [Scanning!Closing[s] EXCEPT !.pc = "collecting"]
<1>1. /\ scan[s].pc = "new" /\ scan' = [Scanning!Closing EXCEPT ![s] = r]
      /\ output' = [output EXCEPT ![s] = "partial"] /\ reader' = reader
  BY DEF Scanning!Start
<1>2. /\ Scanning!Closing[s] \in ScanSet /\ Scanning!Closing[s].pc = "new"
      /\ Untouched(Scanning!Closing[s], reader[s])
  BY <1>1, ClosingKeeps DEF ScanningAccounted
<1>3. /\ r \in ScanSet /\ r.pc = "collecting" /\ r.fed = Scanning!Closing[s].fed
      /\ r.closed = Scanning!Closing[s].closed /\ r.completed = Scanning!Closing[s].completed
      /\ r.emitted = Scanning!Closing[s].emitted /\ r.errors = Scanning!Closing[s].errors
      /\ r.buffer = Scanning!Closing[s].buffer
  BY <1>2 DEF ScanSet
<1> HIDE DEF r
<1>4. ScanningAccounted(r, reader[s], "partial")
  BY <1>2, <1>3 DEF ScanningAccounted, Untouched
<1>5. ScanningTyped'
  BY <1>1, <1>3, ClosingKeeps DEF ScanningIInv, ScanningTyped
<1>6. ASSUME NEW t \in Scans PROVE ScanningAccounted(scan'[t], reader'[t], output'[t])
  <2>1. CASE t = s
    <3>1. scan'[t] = r /\ reader'[t] = reader[s] /\ output'[t] = "partial"
      BY <1>1, <2>1, ClosingKeeps DEF ScanningIInv, ScanningTyped
    <3> QED
      BY <1>4, <3>1
  <2>2. CASE t # s
    <3>1. scan'[t] = Scanning!Closing[t] /\ reader'[t] = reader[t] /\ output'[t] = output[t]
      BY <1>1, <2>2, ClosingKeeps DEF ScanningIInv, ScanningTyped
    <3> QED
      BY <3>1, ClosingKeeps
  <2> QED
    BY <2>1, <2>2
<1> QED
  BY <1>5, <1>6 DEF ScanningIInv

LEMMA CancelKeeps == ASSUME ScanningIInv, Scanning!Cancel PROVE ScanningIInv'
<1>1. scan' = Scanning!Closing /\ reader' = reader /\ output' = output
  BY DEF Scanning!Cancel
<1>2. ScanningTyped'
  BY <1>1, ClosingKeeps DEF ScanningIInv, ScanningTyped
<1> QED
  BY <1>1, <1>2, ClosingKeeps DEF ScanningIInv

LEMMA FailsKeeps ==
  ASSUME ScanningIInv, NEW s \in Scans, Scanning!Fails(s), UNCHANGED reader
  PROVE  ScanningIInv'
<1> DEFINE r == [scan[s] EXCEPT !.pc = "failed"]
<1>1. r \in ScanSet /\ r.pc = "failed"
  BY ScanTyped DEF ScanSet
<1>2. /\ scan' = [scan EXCEPT ![s] = r] /\ output' = [output EXCEPT ![s] = "none"]
      /\ reader' = [reader EXCEPT ![s] = reader[s]]
  BY Unmoved DEF Scanning!Fails
<1> HIDE DEF r
<1>3. ScanningAccounted(r, reader[s], "none")
  BY <1>1 DEF ScanningAccounted
<1>9. reader[s] \in [Readers -> Places] /\ output[s] \in {"none", "partial", "complete"}
  BY ScanTyped
<1> QED
  BY <1>1, <1>2, <1>3, <1>9, ScanningMoveKeeps

LEMMA CollectKeeps == ASSUME ScanningIInv, NEW s \in Scans,
Scanning!Collect(s) PROVE ScanningIInv'
<1>1. CASE Scanning!Fails(s)
  BY <1>1, FailsKeeps DEF Scanning!Collect
<1>2. CASE ~Scanning!Fails(s)
  <2>1. PICK pc \in {"scanning", "alone"} : scan' = [scan EXCEPT ![s].pc = pc]
    BY <1>2 DEF Scanning!Collect
  <2> DEFINE r == [scan[s] EXCEPT !.pc = pc]
  <2>2. /\ scan[s].pc = "collecting" /\ ~scan[s].cancelled
        /\ scan' = [scan EXCEPT ![s] = r] /\ output' = [output EXCEPT ![s] = output[s]]
        /\ reader' = [reader EXCEPT ![s] = reader[s]]
    BY <1>2, <2>1, Unmoved DEF Scanning!Collect
  <2>3. /\ r \in ScanSet /\ r.pc = pc /\ r.fed = scan[s].fed
        /\ r.closed = scan[s].closed /\ r.completed = scan[s].completed
        /\ r.emitted = scan[s].emitted /\ r.errors = scan[s].errors
        /\ r.buffer = scan[s].buffer
    BY ScanTyped DEF ScanSet
  <2> HIDE DEF r
  <2>4. Untouched(scan[s], reader[s]) /\ output[s] # "complete"
    BY <2>2, ScanTyped DEF ScanningAccounted
  <2>5. Busy(reader[s]) = {}
    BY <2>4, Tasked DEF Busy, Untouched
  <2>6. Scanning!Cardinality({}) = 0 /\ IsFiniteSet({})
    BY FS_EmptySet, ScanningSameCardinality
  <2>7. Counts(r, reader[s]) /\ Apart(r, reader[s]) /\ Closes(r, reader[s])
    BY <2>3, <2>4, <2>5, <2>6, Tasked DEF Counts, Apart, Closes, Untouched
  <2>8. OneByOne(r)
    BY <2>3, <2>4, <2>6, Tasked DEF OneByOne, Untouched
  <2>9. ScanningAccounted(r, reader[s], output[s])
    BY <2>3, <2>4, <2>7, <2>8 DEF ScanningAccounted
  <2>10. reader[s] \in [Readers -> Places] /\ output[s] \in {"none", "partial", "complete"}
    BY ScanTyped
  <2> QED
    BY <2>2, <2>3, <2>9, <2>10, ScanningMoveKeeps
<1> QED
  BY <1>1, <1>2

\* One by one the files are begun.
LEMMA NextAloneKeeps == ASSUME ScanningIInv, NEW s \in Scans,
Scanning!NextAlone(s) PROVE ScanningIInv'
<1>1. CASE Scanning!Fails(s)
  BY <1>1, FailsKeeps DEF Scanning!NextAlone
<1>2. CASE ~Scanning!Fails(s)
  <2> DEFINE r == [scan[s] EXCEPT !.fed = @ + 1]
  <2>1. /\ scan[s].pc = "alone" /\ scan[s].fed = scan[s].completed
        /\ scan[s].fed < Scanning!N /\ scan' = [scan EXCEPT ![s] = r]
        /\ output' = [output EXCEPT ![s] = output[s]]
        /\ reader' = [reader EXCEPT ![s] = reader[s]]
    BY <1>2, Unmoved DEF Scanning!NextAlone
  <2>2. /\ r \in ScanSet /\ r.pc = "alone" /\ r.fed = scan[s].fed + 1
        /\ r.completed = scan[s].completed /\ r.emitted = scan[s].emitted
        /\ r.errors = scan[s].errors /\ scan[s].fed \in Nat
    BY <2>1, ScanTyped DEF ScanSet
  <2> HIDE DEF r
  <2>3. OneByOne(scan[s]) /\ output[s] # "complete"
    BY <2>1, ScanTyped DEF ScanningAccounted
  <2>4. OneByOne(r)
    BY <2>1, <2>2, <2>3, Tasked DEF OneByOne
  <2>5. ScanningAccounted(r, reader[s], output[s])
    BY <2>2, <2>3, <2>4 DEF ScanningAccounted
  <2>9. reader[s] \in [Readers -> Places] /\ output[s] \in {"none", "partial", "complete"}
    BY ScanTyped
  <2> QED
    BY <2>1, <2>2, <2>5, <2>9, ScanningMoveKeeps
<1> QED
  BY <1>1, <1>2

\* One by one they are answered.
LEMMA ReadAloneKeeps == ASSUME ScanningIInv, NEW s \in Scans,
Scanning!ReadAlone(s) PROVE ScanningIInv'
<1>1. CASE Scanning!Fails(s)
  BY <1>1, FailsKeeps DEF Scanning!ReadAlone
<1>2. CASE ~Scanning!Fails(s)
  <2> DEFINE old == scan[s]
  <2>1. PICK ok \in BOOLEAN :
          scan' = [scan EXCEPT ![s].completed = @ + 1,
                               ![s].emitted = IF ok THEN @ \cup {old.fed} ELSE @,
                               ![s].errors = IF ok THEN @ ELSE @ + 1]
    BY <1>2 DEF Scanning!ReadAlone
  <2> DEFINE r == [old EXCEPT !.completed = @ + 1,
                              !.emitted = IF ok THEN @ \cup {old.fed} ELSE @,
                              !.errors = IF ok THEN @ ELSE @ + 1]
             emitted == IF ok THEN old.emitted \cup {old.fed} ELSE old.emitted
             errors == IF ok THEN old.errors ELSE old.errors + 1
             completed == old.completed + 1
  <2>2. scan' = [scan EXCEPT ![s] = r]
    BY <2>1, ScanTyped DEF ScanningIInv, ScanningTyped
  <2>3. /\ old.pc = "alone" /\ old.completed < old.fed
        /\ output' = [output EXCEPT ![s] = output[s]]
        /\ reader' = [reader EXCEPT ![s] = reader[s]]
    BY <1>2, Unmoved DEF Scanning!ReadAlone
  <2>4. /\ old \in ScanSet /\ old.completed \in Nat /\ old.fed \in Nat /\ old.errors \in Nat
        /\ old.emitted \in SUBSET Tasks
    BY ScanTyped DEF ScanSet
  <2>5. OneByOne(old) /\ output[s] # "complete"
    BY <2>3, ScanTyped DEF ScanningAccounted
  <2> HIDE DEF old
  <2>6. old.fed = old.completed + 1 /\ old.fed \in Tasks /\ old.fed \notin old.emitted
    BY <2>3, <2>4, <2>5, Tasked DEF OneByOne
  <2>7. emitted \in SUBSET Tasks /\ errors \in Nat /\ completed \in Nat
    BY <2>4, <2>6
  <2>8. r = [old EXCEPT !.completed = completed, !.emitted = emitted, !.errors = errors]
    BY <2>4 DEF ScanSet
  <2> HIDE DEF r
  <2>9. /\ r \in ScanSet /\ r.pc = "alone" /\ r.fed = old.fed /\ r.completed = completed
        /\ r.emitted = emitted /\ r.errors = errors
    <3> HIDE DEF completed, emitted, errors
    <3> QED
      BY <2>3, <2>4, <2>7, <2>8 DEF ScanSet
  <2>10. /\ IsFiniteSet(emitted)
         /\ Scanning!Cardinality(emitted) = IF ok THEN Scanning!Cardinality(old.emitted) + 1
                                            ELSE Scanning!Cardinality(old.emitted)
    BY <2>5, <2>6, FS_AddElement, ScanningSameCardinality DEF OneByOne
  <2>11. Scanning!Cardinality(old.emitted) \in Nat
    BY <2>5, FS_CardinalityType, ScanningSameCardinality DEF OneByOne
  <2>12. \A t \in emitted : t <= completed
    <3>1. \A t \in old.emitted : t \in Nat /\ t <= old.completed
      BY <2>4, <2>5, Tasked DEF OneByOne
    <3> QED
      BY <2>4, <2>6, <3>1
  <2>13. Scanning!Cardinality(emitted) + errors = completed
    BY <2>4, <2>5, <2>10, <2>11 DEF OneByOne
  <2>14. OneByOne(r)
    <3> HIDE DEF emitted, errors
    <3> QED
      BY <2>5, <2>6, <2>9, <2>10, <2>12, <2>13 DEF OneByOne
  <2>15. ScanningAccounted(r, reader[s], output[s])
    BY <2>5, <2>9, <2>14 DEF ScanningAccounted
  <2>16. reader[s] \in [Readers -> Places] /\ output[s] \in {"none", "partial", "complete"}
    BY ScanTyped
  <2> QED
    BY <2>2, <2>3, <2>9, <2>15, <2>16, ScanningMoveKeeps
<1> QED
  BY <1>1, <1>2

\* What is known of a scan that goes on.
LEMMA GoingOn ==
  ASSUME ScanningIInv, NEW s \in Scans, scan[s].pc = "scanning"
  PROVE  /\ output[s] # "complete"
         /\ Sound(scan[s]) =>
              /\ Apart(scan[s], reader[s])
              /\ Counts(scan[s], reader[s])
              /\ Closes(scan[s], reader[s])
  BY ScanTyped DEF ScanningAccounted

LEMMA FeedKeeps == ASSUME ScanningIInv, NEW s \in Scans, NEW w \in Readers,
Scanning!Feed(s, w) PROVE ScanningIInv'
<1> DEFINE old == scan[s]
           place == IF old.cancelled THEN Scanning!Gone ELSE old.fed + 1
           m == reader[s]
           m2 == [m EXCEPT ![w] = place]
           r == [old EXCEPT !.fed = @ + 1]
<1>1. /\ old.pc = "scanning" /\ m[w] = Scanning!Ready /\ ~old.closed /\ old.fed < Scanning!N
      /\ scan' = [scan EXCEPT ![s] = r] /\ reader' = [reader EXCEPT ![s] = m2]
      /\ output' = [output EXCEPT ![s] = output[s]]
  BY Unmoved DEF Scanning!Feed
<1>2. old \in ScanSet /\ m \in [Readers -> Places] /\ old.fed \in Nat
  BY ScanTyped DEF ScanSet
<1>3. /\ r \in ScanSet /\ r.pc = old.pc /\ r.fed = old.fed + 1 /\ r.closed = old.closed
      /\ r.cancelled = old.cancelled /\ r.sinkFailed = old.sinkFailed
      /\ r.completed = old.completed
      /\ r.emitted = old.emitted /\ r.errors = old.errors /\ r.buffer = old.buffer
  BY <1>2 DEF ScanSet
<1>4. place \in Places /\ (~old.cancelled => place = old.fed + 1 /\ place \in Tasks)
  BY <1>1, <1>2, Tasked DEF Places
<1> HIDE DEF place, r
<1>5. /\ m2 \in [Readers -> Places] /\ m2[w] = place
      /\ \A v \in Readers : v # w => m2[v] = m[v]
  BY <1>2, <1>4
<1> HIDE DEF m2
<1>6. ScanningAccounted(r, m2, output[s])
  <2>1. CASE ~Sound(old)
    BY <1>1, <1>3, <2>1, GoingOn DEF ScanningAccounted, Sound
  <2>2. CASE Sound(old)
    <3>1. Apart(old, m) /\ Counts(old, m) /\ Closes(old, m)
      BY <1>1, <2>2, GoingOn
    <3>2. Busy(m2) = Busy(m) \cup {w} /\ w \notin Busy(m)
      BY <1>1, <1>4, <1>5, <2>2, Tasked DEF Busy, Sound
    <3>3. Scanning!Cardinality(Busy(m2)) = Scanning!Cardinality(Busy(m)) + 1
      BY <3>2, BusyFinite, FS_AddElement, ScanningSameCardinality
    <3> HIDE DEF old, m
    <3>4. Counts(r, m2)
      <4>1. Scanning!Cardinality(old.buffer) \in Nat
            /\ Scanning!Cardinality(Busy(m)) \in Nat /\ old.completed \in Nat
        BY <3>1, <1>2, BusyFinite, FS_CardinalityType, ScanningSameCardinality DEF Counts,
           ScanSet
      <4> QED
        BY <1>2, <1>3, <3>1, <3>3, <4>1 DEF Counts
    <3>5. Apart(r, m2)
      <4>1. \A v \in Busy(m2) : v = w \/ (v \in Busy(m) /\ v # w)
        BY <3>2
      <4>2. m2[w] = r.fed /\ \A v \in Busy(m) : v # w => m2[v] = m[v]
        BY <1>3, <1>4, <1>5, <2>2 DEF Busy, Sound
      <4>3. \A v \in Busy(m) : m[v] \in Nat
        BY Tasked DEF Busy
      <4>4. /\ \A x \in old.buffer : x.task \in Nat
            /\ \A t \in old.emitted : t \in Nat
        BY <1>2, Tasked DEF ScanSet, Results
      <4>5. \A v \in Busy(m2) : m2[v] <= r.fed /\ m2[v] \notin r.emitted
        BY <1>2, <1>3, <3>1, <4>1, <4>2, <4>3, <4>4 DEF Apart
      <4>6. \A u, v \in Busy(m2) : m2[u] = m2[v] => u = v
        BY <1>2, <1>3, <3>1, <4>1, <4>2, <4>3 DEF Apart
      <4>7. \A v \in Busy(m2), x \in r.buffer : x.task # m2[v]
        BY <1>2, <1>3, <3>1, <4>1, <4>2, <4>3, <4>4 DEF Apart
      <4>8. /\ \A x \in r.buffer : x.task <= r.fed /\ x.task \notin r.emitted
            /\ \A x, y \in r.buffer : x.task = y.task => x = y
            /\ \A t \in r.emitted : t <= r.fed
        BY <1>2, <1>3, <3>1, <4>4 DEF Apart
      <4> QED
        BY <4>5, <4>6, <4>7, <4>8 DEF Apart
    <3>6. Closes(r, m2)
      BY <1>1, <1>3, <1>4, <1>5, <2>2, <3>1, Tasked DEF Closes, Sound, old
    <3> QED
      BY <1>1, <1>3, <3>4, <3>5, <3>6, GoingOn DEF ScanningAccounted, old
  <2> QED
    BY <2>1, <2>2
<1>9. reader[s] \in [Readers -> Places] /\ output[s] \in {"none", "partial", "complete"}
  BY ScanTyped
<1> QED
  BY <1>1, <1>3, <1>5, <1>6, <1>9, ScanningMoveKeeps

LEMMA FeederEndsKeeps == ASSUME ScanningIInv, NEW s \in Scans,
Scanning!FeederEnds(s) PROVE ScanningIInv'
<1> DEFINE r == [scan[s] EXCEPT !.closed = TRUE]
<1>1. /\ scan[s].pc = "scanning" /\ (scan[s].fed = Scanning!N \/ scan[s].cancelled)
      /\ scan' = [scan EXCEPT ![s] = r] /\ reader' = [reader EXCEPT ![s] = reader[s]]
      /\ output' = [output EXCEPT ![s] = output[s]]
  BY Unmoved DEF Scanning!FeederEnds
<1>2. /\ r \in ScanSet /\ r.pc = scan[s].pc /\ r.fed = scan[s].fed /\ r.closed
      /\ r.cancelled = scan[s].cancelled /\ r.sinkFailed = scan[s].sinkFailed
      /\ r.completed = scan[s].completed
      /\ r.emitted = scan[s].emitted /\ r.errors = scan[s].errors /\ r.buffer = scan[s].buffer
  BY ScanTyped DEF ScanSet
<1> HIDE DEF r
<1>3. ScanningAccounted(r, reader[s], output[s])
  BY <1>1, <1>2, GoingOn DEF ScanningAccounted, Apart, Counts, Closes, Sound
<1>9. reader[s] \in [Readers -> Places] /\ output[s] \in {"none", "partial", "complete"}
  BY ScanTyped
<1> QED
  BY <1>1, <1>2, <1>3, <1>9, ScanningMoveKeeps

LEMMA SendKeeps == ASSUME ScanningIInv, NEW s \in Scans, NEW w \in Readers,
Scanning!Send(s, w) PROVE ScanningIInv'
<1>1. PICK ok \in BOOLEAN :
        scan' = [scan EXCEPT ![s].buffer = @ \cup {[task |-> reader[s][w], ok |-> ok]}]
  BY DEF Scanning!Send
<1> DEFINE old == scan[s]
           m == reader[s]
           x == [task |-> m[w], ok |-> ok]
           r == [old EXCEPT !.buffer = @ \cup {x}]
           m2 == [m EXCEPT ![w] = Scanning!Ready]
<1>2. /\ m[w] \in Tasks /\ scan' = [scan EXCEPT ![s] = r]
      /\ reader' = [reader EXCEPT ![s] = m2] /\ output' = [output EXCEPT ![s] = output[s]]
  BY <1>1, Unmoved DEF Scanning!Send
<1>3. old \in ScanSet /\ m \in [Readers -> Places]
  BY ScanTyped
<1>4. x \in Results /\ x.task = m[w]
  BY <1>2 DEF Results
<1> HIDE DEF x
<1>5. /\ r \in ScanSet /\ r.pc = old.pc /\ r.fed = old.fed /\ r.closed = old.closed
      /\ r.cancelled = old.cancelled /\ r.sinkFailed = old.sinkFailed
      /\ r.completed = old.completed
      /\ r.emitted = old.emitted /\ r.errors = old.errors /\ r.buffer = old.buffer \cup {x}
  BY <1>3, <1>4 DEF ScanSet
<1>6. /\ m2 \in [Readers -> Places] /\ m2[w] = Scanning!Ready
      /\ \A v \in Readers : v # w => m2[v] = m[v]
  BY <1>3 DEF Places
<1> HIDE DEF r, m2
<1>7. ScanningAccounted(r, m2, output[s])
  <2>1. old.pc \notin {"new", "collecting"}
    BY <1>2, ScanTyped, Tasked DEF ScanningAccounted, Untouched
  <2>2. ASSUME old.pc = "scanning", Sound(old)
        PROVE  Apart(r, m2) /\ Counts(r, m2) /\ Closes(r, m2)
    <3>1. Apart(old, m) /\ Counts(old, m) /\ Closes(old, m)
      BY <2>2, GoingOn
    <3>2. Busy(m2) = Busy(m) \ {w} /\ w \in Busy(m)
      BY <1>2, <1>6, Tasked DEF Busy
    <3> HIDE DEF old, m
    <3>3. Scanning!Cardinality(Busy(m2)) = Scanning!Cardinality(Busy(m)) - 1
      BY <3>2, BusyFinite, FS_RemoveElement, ScanningSameCardinality
    <3>4. x \notin old.buffer
      BY <1>4, <3>1, <3>2 DEF Apart
    <3>5. IsFiniteSet(r.buffer)
          /\ Scanning!Cardinality(r.buffer) = Scanning!Cardinality(old.buffer) + 1
      <4>1. IsFiniteSet(old.buffer)
        BY <3>1 DEF Counts
      <4>2. /\ IsFiniteSet(old.buffer \cup {x})
            /\ Scanning!Cardinality(old.buffer \cup {x}) = Scanning!Cardinality(old.buffer) + 1
        BY <3>4, <4>1, FS_AddElement, ScanningSameCardinality
      <4> QED
        BY <1>5, <4>2
    <3>6. Counts(r, m2)
      <4>1. Scanning!Cardinality(old.buffer) \in Nat /\ Scanning!Cardinality(Busy(m)) \in Nat
        BY <3>1, BusyFinite, FS_CardinalityType, ScanningSameCardinality DEF Counts
      <4>2. old.completed \in Nat
        BY <1>3 DEF ScanSet
      <4>3. r.completed + Scanning!Cardinality(r.buffer) + Scanning!Cardinality(Busy(m2))
              = r.fed
        BY <1>5, <3>1, <3>3, <3>5, <4>1, <4>2 DEF Counts
      <4> QED
        BY <1>5, <3>1, <3>5, <4>3 DEF Counts
    <3>7. Apart(r, m2)
      <4>1. \A v \in Busy(m2) : v \in Busy(m) /\ v # w /\ m2[v] = m[v]
        BY <1>6, <3>2 DEF Busy
      <4> QED
        BY <1>4, <1>5, <3>1, <3>2, <4>1 DEF Apart
    <3>8. Closes(r, m2)
      BY <1>5, <1>6, <3>1, Tasked DEF Closes
    <3> QED
      BY <3>6, <3>7, <3>8
  <2> QED
    BY <1>5, <2>1, <2>2, ScanTyped DEF ScanningAccounted, Sound, OneByOne, Answered
<1>8. r \in ScanSet /\ m2 \in [Readers -> Places]
      /\ output[s] \in {"none", "partial", "complete"}
  BY <1>5, <1>6, ScanTyped
<1> QED
  BY <1>2, <1>7, <1>8, ScanningMoveKeeps

LEMMA WorkerEndsKeeps ==
  ASSUME ScanningIInv, NEW s \in Scans, NEW w \in Readers, Scanning!WorkerEnds(s, w)
  PROVE  ScanningIInv'
<1> DEFINE m == reader[s]
           m2 == [m EXCEPT ![w] = Scanning!Gone]
<1>1. /\ scan[s].pc = "scanning" /\ scan' = [scan EXCEPT ![s] = scan[s]]
      /\ reader' = [reader EXCEPT ![s] = m2] /\ output' = [output EXCEPT ![s] = output[s]]
      /\ scan[s].cancelled \/ (m[w] = Scanning!Ready /\ scan[s].closed)
  BY Unmoved DEF Scanning!WorkerEnds
<1>2. /\ m2 \in [Readers -> Places] /\ m2[w] = Scanning!Gone
      /\ \A v \in Readers : v # w => m2[v] = m[v]
  BY ScanTyped DEF Places
<1> HIDE DEF m2
<1>3. ASSUME Sound(scan[s])
      PROVE  Apart(scan[s], m2) /\ Counts(scan[s], m2) /\ Closes(scan[s], m2)
  <2>1. Apart(scan[s], m) /\ Counts(scan[s], m) /\ Closes(scan[s], m)
    BY <1>1, <1>3, GoingOn
  <2>2. Busy(m2) = Busy(m) /\ \A v \in Busy(m) : m2[v] = m[v]
    BY <1>1, <1>2, <1>3, Tasked DEF Busy, Sound
  <2>3. Apart(scan[s], m2)
    BY <2>1, <2>2 DEF Apart
  <2>4. Counts(scan[s], m2)
    BY <2>1, <2>2 DEF Counts
  <2>5. Closes(scan[s], m2)
    BY <1>1, <1>2, <1>3, <2>1 DEF Closes, Sound
  <2> QED
    BY <2>3, <2>4, <2>5
<1>4. ScanningAccounted(scan[s], m2, output[s])
  BY <1>1, <1>3, ScanTyped DEF ScanningAccounted
<1>9. scan[s] \in ScanSet /\ output[s] \in {"none", "partial", "complete"}
  BY ScanTyped
<1> QED
  BY <1>1, <1>2, <1>4, <1>9, ScanningMoveKeeps

LEMMA ScanReceiveKeeps == ASSUME ScanningIInv, NEW s \in Scans,
Scanning!Receive(s) PROVE ScanningIInv'
<1> DEFINE old == scan[s]
           m == reader[s]
<1>1. PICK x \in old.buffer, written \in BOOLEAN :
        scan' = [scan EXCEPT ![s].buffer = @ \ {x}, ![s].completed = @ + 1,
                   ![s].emitted = IF (x.ok /\ ~old.sinkFailed) /\ written THEN @ \cup {x.task}
                                  ELSE @,
                   ![s].sinkFailed = @ \/ ((x.ok /\ ~old.sinkFailed) /\ ~written),
                   ![s].errors = IF x.ok THEN @ ELSE @ + 1]
  BY DEF Scanning!Receive
<1>2. old \in ScanSet /\ x \in Results /\ m \in [Readers -> Places]
  BY ScanTyped DEF ScanSet
<1> DEFINE row == x.ok /\ ~old.sinkFailed
           emitted == IF row /\ written THEN old.emitted \cup {x.task} ELSE old.emitted
           failed == old.sinkFailed \/ (row /\ ~written)
           errors == IF x.ok THEN old.errors ELSE old.errors + 1
<1>3. emitted \in SUBSET Tasks /\ errors \in Nat /\ failed \in BOOLEAN
  BY <1>2 DEF ScanSet, Results
<1> DEFINE r == [old EXCEPT !.buffer = @ \ {x}, !.completed = @ + 1,
                            !.emitted = IF row /\ written THEN @ \cup {x.task} ELSE @,
                            !.sinkFailed = @ \/ (row /\ ~written),
                            !.errors = IF x.ok THEN @ ELSE @ + 1]
<1>4. /\ old.pc = "scanning" /\ scan' = [scan EXCEPT ![s] = r]
      /\ reader' = [reader EXCEPT ![s] = m] /\ output' = [output EXCEPT ![s] = output[s]]
  <2>1. scan = [t \in Scans |-> scan[t]]
    BY DEF ScanningIInv, ScanningTyped
  <2>2. scan' = [scan EXCEPT ![s] = r]
    BY <1>1, <2>1
  <2> HIDE DEF r
  <2> QED
    BY <2>2, Unmoved DEF Scanning!Receive
<1>5. /\ r \in ScanSet /\ r.pc = old.pc /\ r.fed = old.fed /\ r.closed = old.closed
      /\ r.cancelled = old.cancelled /\ r.sinkFailed = failed
      /\ r.completed = old.completed + 1
      /\ r.emitted = emitted /\ r.errors = errors /\ r.buffer = old.buffer \ {x}
  <2> DEFINE buffer == old.buffer \ {x}
             completed == old.completed + 1
  <2>1. buffer \in SUBSET Results /\ completed \in Nat
    BY <1>2 DEF ScanSet
  <2>2. r = [old EXCEPT !.buffer = buffer, !.completed = completed, !.emitted = emitted,
                        !.sinkFailed = failed, !.errors = errors]
    BY <1>2 DEF ScanSet
  <2> HIDE DEF row, emitted, errors, failed, old, buffer, completed, r
  <2>3. /\ r \in ScanSet /\ r.pc = old.pc /\ r.fed = old.fed /\ r.closed = old.closed
        /\ r.cancelled = old.cancelled /\ r.sinkFailed = failed /\ r.completed = completed
        /\ r.emitted = emitted /\ r.errors = errors /\ r.buffer = buffer
    BY <1>2, <1>3, <2>1, <2>2 DEF ScanSet
  <2> QED
    BY <2>3 DEF buffer, completed
<1> HIDE DEF r
<1>6. ASSUME Sound(r) PROVE Apart(r, m) /\ Counts(r, m) /\ Closes(r, m)
  <2>10. Sound(old) /\ (row /\ written <=> x.ok)
    BY <1>2, <1>5, <1>6 DEF Sound, Results
  <2>1. Apart(old, m) /\ Counts(old, m) /\ Closes(old, m)
    BY <1>4, <2>10, GoingOn
  <2>2. x \in old.buffer
    OBVIOUS
  <2> HIDE DEF old, m, row
  <2>3. x.task \notin old.emitted /\ x.task <= old.fed
    BY <2>1, <2>2 DEF Apart
  <2>4. /\ IsFiniteSet(emitted)
        /\ Scanning!Cardinality(emitted) =
             IF x.ok THEN Scanning!Cardinality(old.emitted) + 1
             ELSE Scanning!Cardinality(old.emitted)
    BY <2>1, <2>3, <2>10, FS_AddElement, ScanningSameCardinality DEF Counts
  <2>5. /\ IsFiniteSet(old.buffer \ {x})
        /\ Scanning!Cardinality(old.buffer \ {x}) = Scanning!Cardinality(old.buffer) - 1
    BY <2>1, <2>2, FS_RemoveElement, ScanningSameCardinality DEF Counts
  <2>6. Counts(r, m)
    <3>1. /\ Scanning!Cardinality(old.buffer) \in Nat /\ Scanning!Cardinality(Busy(m)) \in Nat
          /\ Scanning!Cardinality(old.emitted) \in Nat
      BY <2>1, BusyFinite, FS_CardinalityType, ScanningSameCardinality DEF Counts
    <3>2. old.completed \in Nat /\ old.errors \in Nat
      BY <1>2 DEF ScanSet
    <3>3. Scanning!Cardinality(emitted) + errors = old.completed + 1
      BY <2>1, <2>4, <3>1, <3>2 DEF Counts
    <3> HIDE DEF emitted, errors
    <3>4. r.completed + Scanning!Cardinality(r.buffer) + Scanning!Cardinality(Busy(m)) = r.fed
      <4>1. old.completed + Scanning!Cardinality(old.buffer) + Scanning!Cardinality(Busy(m))
              = old.fed
        BY <2>1 DEF Counts
      <4>2. /\ r.completed = old.completed + 1 /\ r.fed = old.fed
            /\ Scanning!Cardinality(r.buffer) = Scanning!Cardinality(old.buffer) - 1
        BY <1>5, <2>5
      <4> QED
        BY <3>1, <3>2, <4>1, <4>2
    <3> QED
      BY <1>5, <2>4, <2>5, <3>3, <3>4 DEF Counts
  <2>7. Apart(r, m)
    <3>1. \A t \in emitted : t \in old.emitted \/ t = x.task
      OBVIOUS
    <3> HIDE DEF emitted
    <3>2. /\ \A v \in Busy(m) : m[v] # x.task
          /\ \A y \in r.buffer : y.task # x.task /\ y \in old.buffer
      BY <1>5, <2>1, <2>2 DEF Apart
    <3> QED
      BY <1>5, <2>1, <2>3, <3>1, <3>2 DEF Apart
  <2>8. Closes(r, m)
    BY <1>5, <2>1 DEF Closes
  <2> QED
    BY <2>6, <2>7, <2>8
<1>7. ScanningAccounted(r, m, output[s])
  BY <1>4, <1>5, <1>6, GoingOn DEF ScanningAccounted
<1>8. r \in ScanSet /\ m \in [Readers -> Places]
      /\ output[s] \in {"none", "partial", "complete"}
  BY <1>2, <1>5, ScanTyped
<1> QED
  BY <1>4, <1>7, <1>8, ScanningMoveKeeps

LEMMA ScanningEndKeeps == ASSUME ScanningIInv, NEW s \in Scans,
Scanning!End(s) PROVE ScanningIInv'
<1>1. CASE Scanning!Fails(s)
  BY <1>1, FailsKeeps DEF Scanning!End
<1>2. CASE ~Scanning!Fails(s)
  <2> DEFINE r == [scan[s] EXCEPT !.pc = "ending"]
  <2>1. /\ Scanning!Drained(s) /\ (scan[s].pc = "scanning" => Sound(scan[s]))
        /\ scan' = [scan EXCEPT ![s] = r] /\ reader' = [reader EXCEPT ![s] = reader[s]]
        /\ output' = [output EXCEPT ![s] = output[s]]
    BY <1>2, Unmoved DEF Scanning!End, Sound
  <2>2. /\ r \in ScanSet /\ r.pc = "ending" /\ r.completed = scan[s].completed
        /\ r.emitted = scan[s].emitted /\ r.errors = scan[s].errors
        /\ scan[s].completed \in Nat
    BY ScanTyped DEF ScanSet
  <2>3. Answered(scan[s]) /\ output[s] # "complete"
    <3>1. CASE scan[s].pc = "scanning"
      <4>1. scan[s].buffer = {} /\ \A w \in Readers : reader[s][w] = Scanning!Gone
        BY <2>1, <3>1 DEF Scanning!Drained
      <4>2. Counts(scan[s], reader[s]) /\ Closes(scan[s], reader[s])
        BY <2>1, <3>1, GoingOn
      <4>3. Busy(reader[s]) = {} /\ scan[s].fed = Scanning!N
        BY <4>1, <4>2, ScanningAssumption, Tasked DEF Busy, Closes
      <4>4. Scanning!Cardinality({}) = 0
        BY FS_EmptySet, ScanningSameCardinality
      <4> QED
        BY <2>2, <3>1, <4>1, <4>2, <4>3, <4>4, GoingOn DEF Counts, Answered
    <3>2. CASE scan[s].pc = "alone"
      BY <2>1, <3>2, ScanTyped DEF Scanning!Drained, ScanningAccounted, OneByOne, Answered
    <3> QED
      BY <2>1, <3>1, <3>2 DEF Scanning!Drained
  <2> HIDE DEF r
  <2>4. ScanningAccounted(r, reader[s], output[s])
    BY <2>2, <2>3 DEF ScanningAccounted, Answered
  <2>9. reader[s] \in [Readers -> Places] /\ output[s] \in {"none", "partial", "complete"}
    BY ScanTyped
  <2> QED
    BY <2>1, <2>2, <2>4, <2>9, ScanningMoveKeeps
<1> QED
  BY <1>1, <1>2

\* What is answered stays so until the file is closed.
LEMMA ScanFlushKeeps == ASSUME ScanningIInv, NEW s \in Scans,
Scanning!Complete(s) \/ Scanning!Flush(s) PROVE ScanningIInv'
<1>1. CASE Scanning!Flush(s) /\ Scanning!Fails(s)
  BY <1>1, FailsKeeps DEF Scanning!Flush
<1>2. CASE Scanning!Complete(s) \/ (Scanning!Flush(s) /\ ~Scanning!Fails(s))
  <2> DEFINE pc == IF scan[s].pc = "ending" THEN "flushing" ELSE "done"
             r == [scan[s] EXCEPT !.pc = pc]
             out == IF pc = "done" THEN "complete" ELSE output[s]
  <2>1. /\ scan[s].pc \in {"ending", "flushing"} /\ scan' = [scan EXCEPT ![s] = r]
        /\ output' = [output EXCEPT ![s] = out]
        /\ reader' = [reader EXCEPT ![s] = reader[s]]
    <3>1. CASE Scanning!Complete(s)
      BY <3>1, Unmoved DEF Scanning!Complete
    <3>2. CASE Scanning!Flush(s) /\ ~Scanning!Fails(s)
      BY <3>2, Unmoved DEF Scanning!Flush
    <3> QED
      BY <1>2, <3>1, <3>2
  <2>2. /\ r \in ScanSet /\ r.pc = pc /\ pc \in {"flushing", "done"}
        /\ r.completed = scan[s].completed
        /\ r.emitted = scan[s].emitted /\ r.errors = scan[s].errors
    BY ScanTyped DEF ScanSet
  <2>3. /\ Answered(scan[s]) /\ output[s] # "complete"
        /\ out \in {"none", "partial", "complete"} /\ reader[s] \in [Readers -> Places]
    BY <2>1, ScanTyped DEF ScanningAccounted
  <2> HIDE DEF r
  <2>4. ScanningAccounted(r, reader[s], out)
    BY <2>2, <2>3 DEF ScanningAccounted, Answered
  <2> HIDE DEF out, pc
  <2> QED
    BY <2>1, <2>2, <2>3, <2>4, ScanningMoveKeeps
<1> QED
  BY <1>1, <1>2

LEMMA ScanningIInvInductive == ScanningIInv
/\ (Scanning!Next \/ UNCHANGED Scanning!vars) => ScanningIInv'
<1> SUFFICES ASSUME ScanningIInv, Scanning!Next \/ UNCHANGED Scanning!vars PROVE ScanningIInv'
  OBVIOUS
<1>1. CASE UNCHANGED Scanning!vars
  BY <1>1 DEF Scanning!vars, ScanningIInv, ScanningTyped
<1>2. ASSUME NEW s \in Scans, NEW w \in Readers, Scanning!Work(s, w) PROVE ScanningIInv'
  BY <1>2, FeedKeeps, SendKeeps, WorkerEndsKeeps DEF Scanning!Work
<1>3. ASSUME NEW s \in Scans, Scanning!Goes(s) PROVE ScanningIInv'
  BY <1>3, CollectKeeps, NextAloneKeeps, ReadAloneKeeps, FeederEndsKeeps, ScanReceiveKeeps,
     ScanningEndKeeps, ScanFlushKeeps DEF Scanning!Goes
<1> QED
  BY <1>1, <1>2, <1>3, ScanStartKeeps, CancelKeeps DEF Scanning!Next

LEMMA IInvComplete == ScanningIInv => Scanning!ScanIsComplete
  BY DEF ScanningIInv, ScanningAccounted, Answered, Scanning!ScanIsComplete

\* ScanIsComplete: a scan is done only with an answer for every file, and only
\* such a scan leaves a file, whatever its workers, its feeder and a cancel do
\* and in whatever order, and wherever its sink, its flush or its close fails
\* (ScanLibraryFolderToNDJSONFile, scanLibraryFolderToSink).
THEOREM ScanIsCompleteHolds == MCSpec => []ScanIsComplete
<1> DEFINE Inv == which = "scanning" => ScanningIInv
<1>1. MCInit => Inv
  BY ScanningIInvInit DEF MCInit
<1>2. Inv /\ [MCNext]_all => Inv'
  BY ServiceStep, ScanningIInvInductive
<1>3. Inv => ScanIsComplete
  BY IInvComplete DEF ScanIsComplete
<1> QED
  BY <1>1, <1>2, <1>3, PTL DEF MCSpec
=============================================================================
