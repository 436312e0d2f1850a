-------------------------- MODULE CisaSourceProofs --------------------------
(***************************************************************************)
(* Proofs about CisaSource for every catalog, every number of editions and *)
(* retries, and every setting and deadline: the saved hash stands for what *)
(* the rows hold, and only the mirror takes rows back.                     *)
(***************************************************************************)
EXTENDS CisaSource, TLAPS

\* The hash that a run has read is still the saved one.
ReadInv == at # "idle" => read = cache

\* A run is at the mirror only after the official endpoint, and selects a catalog
\* from an endpoint that it has asked.
AskedInv ==
    /\ at = "idle" => url = "official"
    /\ at # "idle" /\ url = "mirror" => "official" \in asked
    /\ at = "commit" => url \in asked

\* The official endpoint is never behind a row.
OfficialInv ==
    at = "commit" /\ url = "official" => \A c \in Cves : evidence[c] <= got

IInv == TypeOK /\ ReadInv /\ AskedInv /\ OfficialInv /\ CacheBacked

-----------------------------------------------------------------------------

\* The setting of a process is one that the environment may set.
LEMMA ConfigType ==
  ASSUME TypeOK
  PROVE  /\ config.retries \in Nat \ {0}
         /\ config.timeout \in Nat \ {0} /\ config.connect \in Nat \ {0}
  BY TimeAssumption DEF TypeOK

LEMMA Initially == Init => IInv
  BY EditionsAssumption, TimeAssumption
  DEF Init, IInv, TypeOK, Urls, Health, ReadInv, AskedInv, OfficialInv, CacheBacked

\* Ending a run without a commit.
LEMMA EndKeepsIInv ==
  ASSUME IInv, End, UNCHANGED <<world, disk>>, failures' \in Nat,
         asked' \in SUBSET Urls
  PROVE  IInv'
  BY TimeAssumption DEF IInv, world, TypeOK, End, disk, Urls, ReadInv, AskedInv, OfficialInv, CacheBacked

\* Going on to another attempt or to the mirror.
LEMMA GoingOnKeepsIInv ==
  ASSUME IInv, at = "attempt", UNCHANGED <<world, disk, failures, at, read, got>>,
         asked' = asked \union {url}, url' \in {url, "mirror"},
         attempt' \in 0..config.retries, elapsed' \in 0..(Deadline - 1)
  PROVE  IInv'
  BY DEF IInv, world, TypeOK, disk, Urls, ReadInv, AskedInv, OfficialInv, CacheBacked

LEMMA NextUrlKeepsIInv ==
  ASSUME IInv, NEW h, Ask(h), NextUrl,
         url = "official" => elapsed' \in 0..(Deadline - 1)
  PROVE  IInv'
<1>1. at = "attempt" /\ UNCHANGED <<world, disk, failures>> /\ asked' = asked \union {url}
  BY DEF Ask
<1>2. asked' \in SUBSET Urls /\ failures' \in Nat
  BY <1>1 DEF IInv, TypeOK
<1>3. CASE url = "official"
  <2>1. 0 \in 0..config.retries
    BY ConfigType DEF IInv
  <2> QED
    BY <1>1, <1>3, <2>1, GoingOnKeepsIInv DEF NextUrl
<1>4. CASE url # "official"
  BY <1>1, <1>2, <1>4, EndKeepsIInv DEF NextUrl
<1> QED
  BY <1>3, <1>4

\* The delay before the next attempt.
LEMMA DelayType == attempt \in Nat => Delay \in Nat
<1> DEFINE n == IF attempt < 10 THEN attempt + 1 ELSE 11
<1> SUFFICES ASSUME attempt \in Nat PROVE Delay \in Nat
  OBVIOUS
<1>1. n \in 1..11
  OBVIOUS
<1> HIDE DEF n
<1>2. \A k \in 1..11 :
        <<1, 2, 4, 8, 16, 32, 64, 128, 256, 512, 1024>>[k] \in Nat
  OBVIOUS
<1> QED
  BY <1>1, <1>2 DEF Delay, n

LEMMA RetryKeepsIInv ==
  ASSUME IInv, NEW h, Ask(h), NEW time \in Nat, Retry(time)
  PROVE  IInv'
<1>1. at = "attempt" /\ UNCHANGED <<world, disk, failures>> /\ asked' = asked \union {url}
  BY DEF Ask
<1>2. asked' \in SUBSET Urls /\ failures' \in Nat
  BY <1>1 DEF IInv, TypeOK
<1> DEFINE spent == elapsed + time + (IF attempt < config.retries THEN Delay ELSE 0)
<1>3. spent \in Nat /\ attempt \in 0..config.retries
  BY DelayType, TimeAssumption DEF IInv, TypeOK
<1>4. \/ End
      \/ /\ spent < Deadline /\ attempt < config.retries
         /\ attempt' = attempt + 1 /\ elapsed' = spent
         /\ UNCHANGED <<at, url, read, got>>
      \/ spent < Deadline /\ NextUrl /\ (url = "official" => elapsed' = spent)
  BY DEF Retry
<1> HIDE DEF spent
<1>5. CASE End
  BY <1>1, <1>2, <1>5, EndKeepsIInv
<1>6. CASE /\ spent < Deadline /\ attempt < config.retries
           /\ attempt' = attempt + 1 /\ elapsed' = spent
           /\ UNCHANGED <<at, url, read, got>>
  <2>1. attempt' \in 0..config.retries /\ elapsed' \in 0..(Deadline - 1)
    <3>1. config.retries \in Nat /\ Deadline \in Nat
      BY ConfigType, TimeAssumption DEF IInv
    <3> QED
      BY <1>3, <1>6, <3>1
  <2> QED
    BY <1>1, <1>6, <2>1, GoingOnKeepsIInv
<1>7. CASE spent < Deadline /\ NextUrl /\ (url = "official" => elapsed' = spent)
  <2>1. url = "official" => elapsed' \in 0..(Deadline - 1)
    BY <1>3, <1>7, TimeAssumption
  <2> QED
    BY <1>7, <2>1, NextUrlKeepsIInv
<1> QED
  BY <1>4, <1>5, <1>6, <1>7

LEMMA CommitKeepsIInv ==
  ASSUME IInv, Commit
  PROVE  IInv'
<1> USE DEF IInv
<1>1. got \in 1..edition /\ edition \in 1..MaxEdition /\ read = cache
  BY DEF Commit, TypeOK, ReadInv
<1>2. /\ UNCHANGED <<world, asked, failures>> /\ cache' = got
      /\ evidence' = [c \in Cves |-> IF got # read /\ c \in Listed[got] THEN got ELSE evidence[c]]
      /\ at' = "idle" /\ url' = "official" /\ read' = 0 /\ got' = 0
      /\ attempt' = 0 /\ elapsed' = 0
  BY DEF Commit, End
<1>3. TypeOK'
  <2>1. evidence' \in [Cves -> 0..edition]
    BY <1>1, <1>2 DEF TypeOK, world
  <2> QED
    BY <1>1, <1>2, <2>1, TimeAssumption DEF TypeOK, Urls, world
<1>4. CacheBacked'
  <2>1. Listed[got] \subseteq Cves
    BY <1>1, EditionsAssumption
  <2> QED
    BY <1>1, <1>2, <2>1 DEF CacheBacked
<1> QED
  BY <1>2, <1>3, <1>4 DEF ReadInv, AskedInv, OfficialInv

LEMMA NextKeepsIInv == IInv /\ [Next]_vars => IInv'
<1> SUFFICES ASSUME IInv, [Next]_vars PROVE IInv'
  OBVIOUS
<1>1. CASE Begin
  BY <1>1 DEF Begin, IInv, TypeOK, ReadInv, AskedInv, OfficialInv, CacheBacked, world, disk
<1>2. CASE Answer
  <2>1. Serves(url) \in 1..edition
    BY DEF IInv, TypeOK, Serves
  <2> QED
    BY <1>2, <2>1
    DEF Answer, Ask, Serves, IInv, TypeOK, ReadInv, AskedInv, OfficialInv, CacheBacked,
        world, disk
<1>3. CASE Misanswer
  BY <1>3, NextUrlKeepsIInv DEF Misanswer, IInv, TypeOK
<1>4. CASE Refuse
  BY <1>4, RetryKeepsIInv DEF Refuse
<1>5. CASE Hang
  <2>1. PICK h \in {"unreachable", "hanging"} : Ask(h) /\ Retry(Lasts(h))
    BY <1>5 DEF Hang
  <2>2. Lasts(h) \in Nat
    BY TimeAssumption DEF Lasts, IInv, TypeOK
  <2> QED
    BY <2>1, <2>2, RetryKeepsIInv
<1>6. CASE Commit
  BY <1>6, CommitKeepsIInv
<1>7. CASE Fail
  <2>1. End /\ UNCHANGED <<world, disk, asked>> /\ failures' \in Nat
    BY <1>7 DEF Fail, IInv, TypeOK
  <2> QED
    BY <2>1, EndKeepsIInv DEF IInv, TypeOK
<1>8. CASE Site
  <2>1. /\ UNCHANGED <<disk, run, failures>>
        /\ edition' \in 1..MaxEdition /\ edition <= edition' /\ copy' \in 1..edition'
        /\ health' \in [Urls -> Health] /\ outages' \in Nat /\ config' = config
    BY <1>8, EditionsAssumption DEF Site, Release, Copy, Break, IInv, TypeOK
  <2>2. edition \in 1..MaxEdition
    BY DEF IInv, TypeOK
  <2> QED
    BY <2>1, <2>2
    DEF IInv, TypeOK, ReadInv, AskedInv, OfficialInv, CacheBacked, disk, run
<1>9. CASE UNCHANGED vars
  BY <1>9
  DEF vars, world, disk, run, IInv, TypeOK, ReadInv, AskedInv, OfficialInv, CacheBacked
<1> QED
  BY <1>1, <1>2, <1>3, <1>4, <1>5, <1>6, <1>7, <1>8, <1>9 DEF Next, Run

LEMMA Invariance == Spec => []IInv
  BY Initially, NextKeepsIInv, PTL DEF Spec

-----------------------------------------------------------------------------
(* Theorems *)

\* A run that goes on is within its deadline, whatever the timeouts of its
\* attempts and the delays between them, and every variable is in its range.
THEOREM TypeCorrect == Spec => []TypeOK
<1>1. IInv => TypeOK
  BY DEF IInv
<1> QED
  BY <1>1, Invariance, PTL

\* Doing nothing on an equal hash is right: the saved edition is in every row that
\* it lists, whichever endpoint the editions came from and in whatever order.
THEOREM SavedEditionIsStored == Spec => []CacheBacked
<1>1. IInv => CacheBacked
  BY DEF IInv
<1> QED
  BY <1>1, Invariance, PTL

\* A row goes back to an earlier edition only by a run that found the official
\* endpoint failing and the mirror behind.
THEOREM OnlyTheMirrorTakesBack == Spec => BackOnlyThroughMirror
<1> DEFINE Step ==
      \A c \in Cves : evidence'[c] < evidence[c] => url = "mirror" /\ asked = Urls
<1>1. IInv /\ [Next]_vars => [Step]_vars
  <2> SUFFICES ASSUME IInv, Next, NEW c \in Cves, evidence'[c] < evidence[c]
               PROVE  url = "mirror" /\ asked = Urls
    OBVIOUS
  <2>1. evidence[c] \in Nat
    BY DEF IInv, TypeOK
  <2>2. ~ UNCHANGED evidence
    BY <2>1
  <2>3. Commit
    BY <2>2 DEF Next, Run, Begin, Answer, Misanswer, Refuse, Hang, Ask, Fail, Site, Release,
                Copy, Break, disk
  <2>4. got < evidence[c]
    <3>1. evidence'[c] \in {got, evidence[c]}
      BY <2>3 DEF Commit
    <3> QED
      BY <2>1, <3>1
  <2>5. url # "official"
    BY <2>1, <2>3, <2>4 DEF Commit, IInv, TypeOK, OfficialInv
  <2> QED
    BY <2>3, <2>5 DEF Commit, IInv, TypeOK, AskedInv, Urls
<1> QED
  BY <1>1, Invariance, PTL DEF Spec, BackOnlyThroughMirror
=============================================================================
