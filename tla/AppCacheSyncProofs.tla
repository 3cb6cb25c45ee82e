-------------------------- MODULE AppCacheSyncProofs --------------------------
(***************************************************************************)
(* The replication of the app cache, for any set of collectors and keys,   *)
(* any TTL, any limits and any number of writes, failed calls and          *)
(* restarts.                                                               *)
(***************************************************************************)
EXTENDS AppCacheSync, TLAPS, WellFoundedInduction

(***************************************************************************)
(* The inductive invariant.  What a collector has pushed and not yet       *)
(* marked clean, and what it has pulled and not yet applied, is at central *)
(* or a newer entry is; or it expired there, went with its device, or was  *)
(* refused.                                                                *)
(***************************************************************************)
SentIsPushed ==
    \A c \in Collectors, k \in Keys : pc[c] = "clean" =>
      \/ cen[k] >= sent[c][k] \/ Expired(k, sent[c][k]) \/ k \in gone
      \/ <<c, k>> \in Refused

PageIsHeld ==
    \A c \in Collectors, k \in Keys :
      cen[k] >= page[c][k] \/ Expired(k, page[c][k]) \/ k \in gone

IInv == CacheInvariant /\ SentIsPushed /\ PageIsHeld

(* A set of stamps that is not empty has a greatest one.                   *)
LEMMA GreatestStamp ==
    ASSUME NEW n \in Nat, NEW S \in SUBSET (0 .. n), S # {}
    PROVE  \E m \in S : \A x \in S : x <= m
<1> DEFINE T == {n - x : x \in S}
<1>0. PICK x0 \in S : TRUE
  OBVIOUS
<1>1. T \subseteq Nat /\ n - x0 \in T
  OBVIOUS
<1> HIDE DEF T
<1>2. PICK t \in T : \A y \in T : ~(<<y, t>> \in OpToRel(<, Nat))
  BY <1>1, NatLessThanWellFounded, WFMin
<1>3. \A y \in T : ~(y < t)
  BY <1>1, <1>2 DEF OpToRel
<1>4. PICK m \in S : t = n - m
  BY DEF T
<1>5. \A x \in S : x <= m
  <2> TAKE x \in S
  <2>1. n - x \in T
    BY DEF T
  <2> QED BY <1>3, <1>4, <2>1
<1> QED BY <1>5

(* The cursor moves to a stamp.                                            *)
LEMMA LastOfPageType ==
    ASSUME TypeOK, NEW c \in Collectors
    PROVE  LastOfPage(c) \in Stamps
<1> DEFINE S == {page[c][k] : k \in Keys} \cup {cursor[c]}
<1>1. S \subseteq 0 .. MaxTime /\ S # {} /\ MaxTime \in Nat
  BY AppCacheAssumption DEF TypeOK, Stamps
<1> HIDE DEF S
<1>2. PICK m \in S : \A x \in S : x <= m
  BY <1>1, GreatestStamp
<1>3. Max0(S) \in S \cup {0}
  BY <1>2 DEF Max0
<1>4. LastOfPage(c) = Max0(S)
  BY DEF LastOfPage, S
<1>5. \A x \in S \cup {0} : x \in 0 .. MaxTime
  BY <1>1
<1> QED BY <1>3, <1>4, <1>5 DEF Stamps

(* Time only adds to what has expired, and what is older expired before.   *)
LEMMA ExpiredHolds ==
    ASSUME NEW k, NEW s \in Stamps, NEW t \in Stamps, Expired(k, t), s <= t,
           now \in Stamps, now' \in Stamps, now <= now'
    PROVE  Expired(k, s) /\ Expired(k, s)'
BY AppCacheAssumption DEF Expired, Stamps

LEMMA InitIInv == Init => IInv
<1> SUFFICES ASSUME Init PROVE IInv
  OBVIOUS
<1>1. 0 \in Stamps
  BY AppCacheAssumption DEF Stamps
<1>2. NoEntries \in [Keys -> Stamps] /\ \A k \in Keys : NoEntries[k] = 0
  BY <1>1 DEF NoEntries
<1>3. TypeOK
  <2>1. now \in Stamps
    BY AppCacheAssumption DEF Init, Stamps
  <2>2. writes \in 0 .. MaxWrites /\ faults \in 0 .. MaxFaults
    BY AppCacheAssumption DEF Init
  <2> QED BY <1>1, <1>2, <2>1, <2>2 DEF Init, TypeOK
<1> QED BY <1>2, <1>3
     DEF Init, IInv, CacheInvariant, CleanIsPushed, MissingIsAhead, SentIsPushed, PageIsHeld

(***************************************************************************)
(* A step that takes nothing from central and gives nothing to it.         *)
(***************************************************************************)
LEMMA AppStep ==
    ASSUME IInv, NEW c \in Collectors, NEW k \in Keys,
           AppCacheSet(c, k) \/ AppCacheDelete(c, k) \/ AppCacheGetExpired(c, k)
    PROVE  IInv'
<1>0. TypeOK /\ 0 \in Stamps
  BY AppCacheAssumption DEF IInv, CacheInvariant, Stamps
<1>1. /\ UNCHANGED <<now, cen, gone, cursor, pc, sent, page, more, faults>>
      /\ raced' = raced \ {<<c, k>>}
      /\ \/ /\ val' = [val EXCEPT ![c][k] = now] /\ passed' = passed
            /\ val[c][k] < now /\ dirty' = [dirty EXCEPT ![c] = @ \cup {k}]
         \/ /\ val' = [val EXCEPT ![c][k] = 0]
            /\ dirty' = [dirty EXCEPT ![c] = @ \ {k}]
            /\ passed' = IF cen[k] \in 1 .. cursor[c] THEN passed \cup {<<c, k>>} ELSE passed
      /\ writes' \in 0 .. MaxWrites
  BY <1>0, AppCacheAssumption
     DEF AppCacheSet, AppCacheDelete, AppCacheGetExpired, Remove, Write, TypeOK
<1>2. TypeOK'
  <2>1. val' \in [Collectors -> [Keys -> Stamps]]
    <3>1. ASSUME NEW x \in Stamps
          PROVE  [val EXCEPT ![c][k] = x] \in [Collectors -> [Keys -> Stamps]]
      BY <1>0 DEF TypeOK
    <3>2. now \in Stamps
      BY <1>0 DEF TypeOK
    <3> QED BY <1>0, <1>1, <3>1, <3>2
  <2>3. dirty' \in [Collectors -> SUBSET Keys]
    <3>1. dirty \in [Collectors -> SUBSET Keys]
      BY <1>0 DEF TypeOK
    <3>2. \/ dirty' = [dirty EXCEPT ![c] = @ \cup {k}]
          \/ dirty' = [dirty EXCEPT ![c] = @ \ {k}]
      BY <1>1
    <3> QED BY <3>1, <3>2
  <2>2. raced' \subseteq Collectors \X Keys /\ passed' \subseteq Collectors \X Keys
    BY <1>0, <1>1 DEF TypeOK
  <2> QED BY <1>0, <1>1, <2>1, <2>2, <2>3 DEF TypeOK
<1>3. \A d \in Collectors, l \in Keys : <<d, l>> # <<c, k>> =>
         /\ val'[d][l] = val[d][l] /\ (l \in dirty'[d] <=> l \in dirty[d])
         /\ (<<d, l>> \in raced' <=> <<d, l>> \in raced)
         /\ (<<d, l>> \in passed' <=> <<d, l>> \in passed)
  BY <1>0, <1>1 DEF TypeOK
<1>4. \/ val'[c][k] = now /\ k \in dirty'[c] /\ passed' = passed /\ val[c][k] < now
      \/ val'[c][k] = 0 /\ (cen[k] \in 1 .. cursor[c] => <<c, k>> \in passed')
  BY <1>0, <1>1 DEF TypeOK
<1>5. CleanIsPushed'
  <2> SUFFICES ASSUME NEW d \in Collectors, NEW l \in Keys
               PROVE  \/ val'[d][l] = 0 \/ l \in dirty'[d]
                      \/ cen'[l] >= val'[d][l] \/ Expired(l, val[d][l])' \/ l \in gone'
                      \/ <<d, l>> \in Refused \cup raced'
    BY DEF CleanIsPushed
  <2>1. CASE <<d, l>> = <<c, k>>
    BY <2>1, <1>4
  <2>2. CASE <<d, l>> # <<c, k>>
    <3>1. \/ val[d][l] = 0 \/ l \in dirty[d]
          \/ cen[l] >= val[d][l] \/ Expired(l, val[d][l]) \/ l \in gone
          \/ <<d, l>> \in Refused \cup raced
      BY DEF IInv, CacheInvariant, CleanIsPushed
    <3> QED BY <2>2, <3>1, <1>1, <1>3 DEF Expired
  <2> QED BY <2>1, <2>2
<1>6. MissingIsAhead'
  <2> SUFFICES ASSUME NEW d \in Collectors, NEW l \in Keys
               PROVE  \/ val'[d][l] >= cen'[l] \/ Expired(l, cen[l])'
                      \/ cen'[l] > cursor'[d] \/ <<d, l>> \in passed'
    BY DEF MissingIsAhead
  <2>0. /\ cen[l] \in Nat /\ val[d][l] \in Nat /\ cursor[d] \in Nat /\ now \in Nat
        /\ \/ val[d][l] >= cen[l] \/ Expired(l, cen[l])
           \/ cen[l] > cursor[d] \/ <<d, l>> \in passed
    BY <1>0 DEF IInv, CacheInvariant, MissingIsAhead, TypeOK, Stamps
  <2>1. CASE <<d, l>> = <<c, k>>
    BY <2>0, <2>1, <1>1, <1>4 DEF Expired
  <2>2. CASE <<d, l>> # <<c, k>>
    BY <2>0, <2>2, <1>1, <1>3 DEF Expired
  <2> QED BY <2>1, <2>2
<1>7. SentIsPushed' /\ PageIsHeld'
  BY <1>1 DEF IInv, SentIsPushed, PageIsHeld, Expired
<1> QED BY <1>2, <1>5, <1>6, <1>7 DEF IInv, CacheInvariant

(***************************************************************************)
(* Central's entries grow or expire: what was pushed or is held by a page  *)
(* stays so.                                                               *)
(***************************************************************************)
LEMMA CentralGrows ==
    ASSUME IInv, now' = now \/ now' = now + 1, now' \in Stamps,
           cen' \in [Keys -> Stamps], gone \subseteq gone',
           \A k \in Keys : cen'[k] >= cen[k] \/ Expired(k, cen[k]) \/ k \in gone'
    PROVE  /\ \A k \in Keys, s \in Stamps :
                cen[k] >= s \/ Expired(k, s) \/ k \in gone
                => cen'[k] >= s \/ Expired(k, s)' \/ k \in gone'
           /\ \A k \in Keys, s \in Stamps : Expired(k, s) => Expired(k, s)'
<1>0. now \in Nat /\ Ttl \in Nat /\ Stamps \subseteq Nat /\ cen \in [Keys -> Stamps] /\ now' \in Nat
  BY AppCacheAssumption DEF IInv, CacheInvariant, TypeOK, Stamps
<1>1. \A k \in Keys, s \in Stamps : Expired(k, s) => Expired(k, s)'
  BY <1>0 DEF Expired
<1>2. ASSUME NEW k \in Keys, NEW s \in Stamps, cen[k] >= s
      PROVE  cen'[k] >= s \/ Expired(k, s)' \/ k \in gone'
  <2>1. cen[k] \in Nat /\ cen'[k] \in Nat /\ s \in Nat
    BY <1>0
  <2>2. CASE cen'[k] >= cen[k]
    BY <1>2, <2>1, <2>2
  <2>3. CASE Expired(k, cen[k])
    BY <1>0, <1>2, <2>1, <2>3 DEF Expired
  <2> QED BY <2>2, <2>3
<1> QED BY <1>1, <1>2

LEMMA PushStep ==
    ASSUME IInv, NEW c \in Collectors, PushLands(c)
    PROVE  IInv'
<1>0. TypeOK /\ 0 \in Stamps /\ Stamps \subseteq Nat
  BY AppCacheAssumption DEF IInv, CacheInvariant, Stamps
<1> DEFINE landed == {k \in Keys : Pushed(c)[k] # cen[k]}
<1>2. /\ cen' = Pushed(c) /\ pc' = [pc EXCEPT ![c] = "clean"]
      /\ passed' = (passed \ (Collectors \X landed))
                     \cup {e \in Collectors \X landed :
                              cen'[e[2]] \in val[e[1]][e[2]] + 1 .. cursor[e[1]]}
      /\ UNCHANGED <<now, gone, val, dirty, cursor, sent, page, more, writes, faults, raced>>
  BY DEF PushLands
<1>3. \A k \in Keys : sent[c][k] \in Stamps /\ cen[k] \in Stamps
  BY <1>0 DEF TypeOK
<1>4. \A k \in Keys : k \in landed <=> cen'[k] # cen[k]
  BY <1>2
<1> HIDE DEF landed
<1>5. /\ cen' \in [Keys -> Stamps]
      /\ \A k \in Keys : cen'[k] = cen[k] \/ (cen'[k] = sent[c][k] /\ cen[k] < sent[c][k])
      /\ \A k \in Keys : cen'[k] >= sent[c][k] \/ <<c, k>> \in Refused
  <2>1. \A k \in Keys : cen[k] \in Nat /\ sent[c][k] \in Nat
    BY <1>0, <1>3
  <2>2. cen' \in [Keys -> Stamps]
    BY <1>2, <1>3 DEF Pushed
  <2>3. \A k \in Keys : cen'[k] = IF cen[k] < sent[c][k] /\ <<c, k>> \notin Refused
                                 THEN sent[c][k] ELSE cen[k]
    BY <1>2 DEF Pushed, Accepts
  <2>4. \A k \in Keys : /\ cen'[k] = cen[k] \/ (cen'[k] = sent[c][k] /\ cen[k] < sent[c][k])
                        /\ cen'[k] >= sent[c][k] \/ <<c, k>> \in Refused
    <3> TAKE k \in Keys
    <3>1. cen[k] \in Nat /\ sent[c][k] \in Nat
      BY <2>1
    <3> QED BY <3>1, <2>3
  <2> QED BY <2>2, <2>4
<1>6. \A k \in Keys : cen'[k] \in Nat /\ cen[k] \in Nat /\ cen'[k] >= cen[k]
  <2>1. \A k \in Keys : cen'[k] \in Nat /\ cen[k] \in Nat /\ sent[c][k] \in Nat
    BY <1>0, <1>3, <1>5
  <2> QED BY <2>1, <1>5
<1>7. /\ \A k \in Keys, s \in Stamps :
           cen[k] >= s \/ Expired(k, s) \/ k \in gone
           => cen'[k] >= s \/ Expired(k, s)' \/ k \in gone'
      /\ now' \in Stamps
  BY <1>0, <1>2, <1>5, <1>6, CentralGrows DEF TypeOK
<1>9. TypeOK'
  <2>1. passed' \subseteq Collectors \X Keys
    BY <1>0, <1>2 DEF TypeOK, landed
  <2>2. pc' \in [Collectors -> {"push", "sent", "clean", "pull", "page"}]
    BY <1>0, <1>2 DEF TypeOK
  <2> QED BY <1>0, <1>2, <1>5, <2>1, <2>2 DEF TypeOK
<1>10. CleanIsPushed'
  <2> SUFFICES ASSUME NEW d \in Collectors, NEW l \in Keys
               PROVE  \/ val'[d][l] = 0 \/ l \in dirty'[d]
                      \/ cen'[l] >= val'[d][l] \/ Expired(l, val[d][l])' \/ l \in gone'
                      \/ <<d, l>> \in Refused \cup raced'
    BY DEF CleanIsPushed
  <2>1. \/ val[d][l] = 0 \/ l \in dirty[d]
        \/ cen[l] >= val[d][l] \/ Expired(l, val[d][l]) \/ l \in gone
        \/ <<d, l>> \in Refused \cup raced
    BY DEF IInv, CacheInvariant, CleanIsPushed
  <2>2. val[d][l] \in Stamps /\ val'[d][l] = val[d][l]
    BY <1>0, <1>2 DEF TypeOK
  <2> QED BY <2>1, <2>2, <1>2, <1>7 DEF Expired
<1>11. MissingIsAhead'
  <2> SUFFICES ASSUME NEW d \in Collectors, NEW l \in Keys
               PROVE  \/ val'[d][l] >= cen'[l] \/ Expired(l, cen[l])'
                      \/ cen'[l] > cursor'[d] \/ <<d, l>> \in passed'
    BY DEF MissingIsAhead
  <2>0. cursor[d] \in Nat /\ val[d][l] \in Nat
    <3>1. cursor[d] \in Stamps /\ val[d][l] \in Stamps
      BY <1>0 DEF TypeOK
    <3> QED BY <3>1, <1>0
  <2>1. \/ val[d][l] >= cen[l] \/ Expired(l, cen[l])
        \/ cen[l] > cursor[d] \/ <<d, l>> \in passed
    BY DEF IInv, CacheInvariant, MissingIsAhead
  <2>2. CASE l \notin landed
    <3>1. cen'[l] = cen[l] /\ (<<d, l>> \in passed => <<d, l>> \in passed')
      BY <2>2, <1>2, <1>4
    <3> QED BY <2>1, <3>1, <1>2 DEF Expired
  <2>3. CASE l \in landed
    <3>1. cen'[l] \in val[d][l] + 1 .. cursor[d] => <<d, l>> \in passed'
      BY <2>3, <1>2
    <3>2. cen'[l] \in Nat
      BY <1>6
    <3> QED BY <2>0, <3>1, <3>2, <1>2
  <2> QED BY <2>2, <2>3
<1>12. SentIsPushed'
  <2> SUFFICES ASSUME NEW d \in Collectors, NEW l \in Keys, pc'[d] = "clean"
               PROVE  \/ cen'[l] >= sent'[d][l] \/ Expired(l, sent[d][l])' \/ l \in gone'
                      \/ <<d, l>> \in Refused
    BY DEF SentIsPushed
  <2>1. CASE d = c
    BY <2>1, <1>2, <1>5
  <2>2. CASE d # c
    <3>1. sent[d][l] \in Stamps /\ sent'[d][l] = sent[d][l] /\ pc[d] = "clean"
      BY <2>2, <1>0, <1>2 DEF TypeOK
    <3>2. cen[l] >= sent[d][l] \/ Expired(l, sent[d][l]) \/ l \in gone \/ <<d, l>> \in Refused
      BY <3>1 DEF IInv, SentIsPushed
    <3> QED BY <3>1, <3>2, <1>7 DEF Expired
  <2> QED BY <2>1, <2>2
<1>13. PageIsHeld'
  <2>1. \A d \in Collectors, l \in Keys : page[d][l] \in Stamps
    BY <1>0 DEF TypeOK
  <2> QED BY <2>1, <1>2, <1>7 DEF IInv, PageIsHeld, Expired
<1> QED BY <1>9, <1>10, <1>11, <1>12, <1>13 DEF IInv, CacheInvariant

(***************************************************************************)
(* Steps that write to no collector's rows: central's cleanup, a page that *)
(* is fetched, a push that is taken or given up, a device that is deleted, *)
(* a cycle that fails, a restart.                                          *)
(***************************************************************************)
LEMMA QuietStep ==
    ASSUME IInv, TypeOK', now' = now \/ now' = now + 1,
           \A k \in Keys : cen'[k] = cen[k] \/ (cen'[k] = 0 /\ (Expired(k, cen[k]) \/ k \in gone')),
           gone \subseteq gone', UNCHANGED <<val, dirty, raced>>,
           \A c \in Collectors :
             \/ cursor'[c] = 0
             \/ /\ cursor'[c] = cursor[c]
                /\ \A k \in Keys : <<c, k>> \in passed => <<c, k>> \in passed',
           \A c \in Collectors : pc'[c] = "clean" => pc[c] = "clean" /\ sent'[c] = sent[c],
           \A c \in Collectors, k \in Keys : page'[c][k] \in {page[c][k], cen[k], 0}
    PROVE  IInv'
<1>0. /\ TypeOK /\ Stamps \subseteq Nat /\ now' \in Stamps /\ now \in Nat /\ Ttl \in Nat
      /\ cen' \in [Keys -> Stamps] /\ cen \in [Keys -> Stamps] /\ 0 \in Stamps
  BY AppCacheAssumption DEF IInv, CacheInvariant, TypeOK, Stamps
<1>1. \A k \in Keys : cen[k] \in Nat /\ cen'[k] \in Nat /\ (cen'[k] >= cen[k] \/ Expired(k, cen[k]) \/ k \in gone')
  <2> TAKE k \in Keys
  <2>1. cen[k] \in Nat /\ cen'[k] \in Nat
    BY <1>0
  <2>2. CASE cen'[k] = cen[k]
    BY <2>1, <2>2
  <2>3. CASE Expired(k, cen[k]) \/ k \in gone'
    BY <2>1, <2>3
  <2> QED BY <2>2, <2>3
<1>2. /\ \A k \in Keys, s \in Stamps :
           cen[k] >= s \/ Expired(k, s) \/ k \in gone
           => cen'[k] >= s \/ Expired(k, s)' \/ k \in gone'
      /\ \A k \in Keys, s \in Stamps : Expired(k, s) => Expired(k, s)'
  BY <1>0, <1>1, CentralGrows
<1>3. CleanIsPushed'
  <2> SUFFICES ASSUME NEW d \in Collectors, NEW l \in Keys
               PROVE  \/ val[d][l] = 0 \/ l \in dirty[d]
                      \/ cen'[l] >= val[d][l] \/ Expired(l, val[d][l])' \/ l \in gone'
                      \/ <<d, l>> \in Refused \cup raced
    BY DEF CleanIsPushed, Expired
  <2>1. val[d][l] \in Stamps
    BY <1>0 DEF TypeOK
  <2> QED BY <2>1, <1>2 DEF IInv, CacheInvariant, CleanIsPushed, Expired
<1>4. MissingIsAhead'
  <2> SUFFICES ASSUME NEW d \in Collectors, NEW l \in Keys
               PROVE  \/ val[d][l] >= cen'[l] \/ Expired(l, cen[l])'
                      \/ cen'[l] > cursor'[d] \/ <<d, l>> \in passed'
    BY DEF MissingIsAhead
  <2>1. val[d][l] \in Nat /\ cursor[d] \in Nat /\ cen[l] \in Stamps /\ cen[l] \in Nat
    BY <1>0 DEF TypeOK
  <2>2. \/ val[d][l] >= cen[l] \/ Expired(l, cen[l])
        \/ cen[l] > cursor[d] \/ <<d, l>> \in passed
    BY DEF IInv, CacheInvariant, MissingIsAhead
  <2>3. CASE cen'[l] = 0
    BY <2>1, <2>3
  <2>4. CASE cen'[l] = cen[l] /\ cursor'[d] = 0
    BY <2>1, <2>4
  <2>5. CASE cen'[l] = cen[l] /\ cursor'[d] = cursor[d] /\ (<<d, l>> \in passed => <<d, l>> \in passed')
    <3>1. Expired(l, cen[l]) => Expired(l, cen[l])'
      BY <2>1, <2>5, <1>2 DEF Expired
    <3> QED BY <2>2, <2>5, <3>1
  <2> QED BY <2>3, <2>4, <2>5
<1>5. SentIsPushed'
  <2> SUFFICES ASSUME NEW d \in Collectors, NEW l \in Keys, pc'[d] = "clean"
               PROVE  \/ cen'[l] >= sent'[d][l] \/ Expired(l, sent[d][l])' \/ l \in gone'
                      \/ <<d, l>> \in Refused
    BY DEF SentIsPushed
  <2>1. sent[d][l] \in Stamps /\ pc[d] = "clean" /\ sent'[d] = sent[d]
    BY <1>0 DEF TypeOK
  <2> QED BY <2>1, <1>2 DEF IInv, SentIsPushed, Expired
<1>6. PageIsHeld'
  <2> SUFFICES ASSUME NEW d \in Collectors, NEW l \in Keys
               PROVE  cen'[l] >= page'[d][l] \/ Expired(l, page[d][l])' \/ l \in gone'
    BY DEF PageIsHeld
  <2>1. page[d][l] \in Stamps /\ cen[l] \in Stamps
    BY <1>0 DEF TypeOK
  <2>2. CASE page'[d][l] = page[d][l]
    BY <2>1, <2>2, <1>2 DEF IInv, PageIsHeld, Expired
  <2>3. CASE page'[d][l] = 0
    BY <2>3, <1>1
  <2>4. CASE page'[d][l] = cen[l]
    BY <2>1, <2>4, <1>0, <1>1, <1>2 DEF Expired
  <2> QED BY <2>2, <2>3, <2>4
<1> QED BY <1>3, <1>4, <1>5, <1>6 DEF IInv, CacheInvariant

LEMMA GiveUpStep ==
    ASSUME IInv, NEW c \in Collectors, GiveUpPush(c), faults' \in 0 .. MaxFaults
    PROVE  IInv'
<1>0. TypeOK /\ 0 \in Stamps
  BY AppCacheAssumption DEF IInv, CacheInvariant, Stamps
<1>1. /\ sent' = [sent EXCEPT ![c] = NoEntries] /\ pc' = [pc EXCEPT ![c] = "pull"]
      /\ UNCHANGED <<now, cen, gone, val, dirty, cursor, page, more, writes, raced, passed>>
  BY DEF GiveUpPush
<1>2. NoEntries \in [Keys -> Stamps]
  BY <1>0 DEF NoEntries
<1>3. /\ sent' \in [Collectors -> [Keys -> Stamps]]
      /\ pc' \in [Collectors -> {"push", "sent", "clean", "pull", "page"}]
      /\ \A d \in Collectors : pc'[d] = "clean" => pc[d] = "clean" /\ sent'[d] = sent[d]
  BY <1>0, <1>1, <1>2 DEF TypeOK
<1>4. TypeOK'
  BY <1>0, <1>1, <1>3 DEF TypeOK
<1> QED BY <1>1, <1>3, <1>4, QuietStep

LEMMA MarkCleanStep ==
    ASSUME IInv, NEW c \in Collectors, MarkClean(c)
    PROVE  IInv'
<1> DEFINE ks == {k \in Keys : MarksClean(c, k)}
<1>0. TypeOK /\ 0 \in Stamps /\ Stamps \subseteq Nat
  BY AppCacheAssumption DEF IInv, CacheInvariant, Stamps
<1>1. /\ dirty' = [dirty EXCEPT ![c] = @ \ ks]
      /\ raced' = raced \cup {<<c, k>> : k \in {i \in ks \cap dirty[c] :
                                                val[c][i] # sent[c][i]}}
      /\ sent' = [sent EXCEPT ![c] = NoEntries]
      /\ pc[c] = "clean" /\ pc' = [pc EXCEPT ![c] = "pull"]
      /\ UNCHANGED <<now, cen, gone, val, cursor, page, more, writes, faults, passed>>
  BY DEF MarkClean
<1>2. NoEntries \in [Keys -> Stamps] /\ \A k \in Keys : NoEntries[k] = 0
  BY <1>0 DEF NoEntries
<1>3. TypeOK'
  <2>1. dirty' \in [Collectors -> SUBSET Keys] /\ raced' \subseteq Collectors \X Keys
    BY <1>0, <1>1 DEF TypeOK
  <2>2. sent' \in [Collectors -> [Keys -> Stamps]]
    BY <1>0, <1>1, <1>2 DEF TypeOK
  <2>3. pc' \in [Collectors -> {"push", "sent", "clean", "pull", "page"}]
    BY <1>0, <1>1 DEF TypeOK
  <2> QED BY <1>0, <1>1, <2>1, <2>2, <2>3 DEF TypeOK
<1>4. CleanIsPushed'
  <2> SUFFICES ASSUME NEW d \in Collectors, NEW l \in Keys
               PROVE  \/ val[d][l] = 0 \/ l \in dirty'[d]
                      \/ cen[l] >= val[d][l] \/ Expired(l, val[d][l]) \/ l \in gone
                      \/ <<d, l>> \in Refused \cup raced'
    BY <1>1 DEF CleanIsPushed, Expired
  <2>1. \/ val[d][l] = 0 \/ l \in dirty[d]
        \/ cen[l] >= val[d][l] \/ Expired(l, val[d][l]) \/ l \in gone
        \/ <<d, l>> \in Refused \cup raced
    BY DEF IInv, CacheInvariant, CleanIsPushed
  <2>2. CASE d = c /\ l \in dirty[c] /\ l \in ks /\ val[c][l] # sent[c][l]
    BY <2>2, <1>1
  <2>3. CASE d = c /\ l \in ks /\ val[c][l] = sent[c][l]
    BY <2>3, <1>1 DEF IInv, SentIsPushed
  <2>4. CASE d # c \/ l \notin ks
    <3>1. l \in dirty[d] => l \in dirty'[d]
      BY <2>4, <1>0, <1>1 DEF TypeOK
    <3> QED BY <2>1, <3>1, <1>1
  <2>5. CASE l \notin dirty[d]
    BY <2>1, <2>5, <1>1
  <2> QED BY <2>2, <2>3, <2>4, <2>5
<1>5. MissingIsAhead' /\ PageIsHeld'
  BY <1>1 DEF IInv, CacheInvariant, MissingIsAhead, PageIsHeld, Expired
<1>6. SentIsPushed'
  <2> SUFFICES ASSUME NEW d \in Collectors, NEW l \in Keys, pc'[d] = "clean"
               PROVE  \/ cen[l] >= sent'[d][l] \/ Expired(l, sent[d][l])' \/ l \in gone
                      \/ <<d, l>> \in Refused
    BY <1>1 DEF SentIsPushed
  <2>1. CASE d = c
    <3>1. sent'[d][l] = 0 /\ cen[l] \in Nat
      BY <2>1, <1>0, <1>1, <1>2 DEF TypeOK
    <3> QED BY <3>1
  <2>2. CASE d # c
    <3>1. sent'[d] = sent[d]
      BY <2>2, <1>0, <1>1 DEF TypeOK
    <3> QED BY <3>1, <1>1 DEF IInv, SentIsPushed, Expired
  <2> QED BY <2>1, <2>2
<1> QED BY <1>3, <1>4, <1>5, <1>6 DEF IInv, CacheInvariant

LEMMA ApplyStep ==
    ASSUME IInv, NEW c \in Collectors, ApplyPage(c)
    PROVE  IInv'
<1>0. TypeOK /\ 0 \in Stamps /\ Stamps \subseteq Nat
  BY AppCacheAssumption DEF IInv, CacheInvariant, Stamps
<1>1. /\ val' = [val EXCEPT ![c] = [k \in Keys |->
           IF Replaces(val[c][k], page[c][k]) THEN page[c][k] ELSE val[c][k]]]
      /\ cursor' = [cursor EXCEPT ![c] = LastOfPage(c)]
      /\ page' = [page EXCEPT ![c] = NoEntries]
      /\ more' = [more EXCEPT ![c] = FALSE]
      /\ pc' = [pc EXCEPT ![c] = IF page[c] # NoEntries /\ more[c] THEN "pull" ELSE "push"]
      /\ passed' = passed \cup
           {<<c, k>> : k \in {i \in Keys : /\ page[c][i] # cen[i]
                                          /\ cen[i] \in cursor[c] + 1 .. cursor'[c]}}
      /\ UNCHANGED <<now, cen, gone, dirty, sent, writes, faults, raced>>
  BY DEF ApplyPage
<1>2. NoEntries \in [Keys -> Stamps] /\ \A k \in Keys : NoEntries[k] = 0
  BY <1>0 DEF NoEntries
<1>3. LastOfPage(c) \in Stamps
  BY <1>0, LastOfPageType
<1>4. \A k \in Keys : /\ val'[c][k] = IF val[c][k] < page[c][k] THEN page[c][k] ELSE val[c][k]
                      /\ val[c][k] \in Stamps /\ page[c][k] \in Stamps
                      /\ val[c][k] \in Nat /\ page[c][k] \in Nat /\ cen[k] \in Nat
  <2>1. \A k \in Keys : val[c][k] \in Stamps /\ page[c][k] \in Stamps /\ cen[k] \in Stamps
    BY <1>0 DEF TypeOK
  <2>2. c \in DOMAIN val
    BY <1>0 DEF TypeOK
  <2>3. \A k \in Keys : val'[c][k] = IF val[c][k] < page[c][k] THEN page[c][k] ELSE val[c][k]
    BY <1>1, <2>2 DEF Replaces
  <2> QED BY <1>0, <2>1, <2>3
<1>5. TypeOK'
  <2>1. val' \in [Collectors -> [Keys -> Stamps]]
    BY <1>0, <1>1, <1>4 DEF TypeOK
  <2>2. cursor' \in [Collectors -> Stamps] /\ page' \in [Collectors -> [Keys -> Stamps]]
    BY <1>0, <1>1, <1>2, <1>3 DEF TypeOK
  <2>3. pc' \in [Collectors -> {"push", "sent", "clean", "pull", "page"}]
    BY <1>0, <1>1 DEF TypeOK
  <2>4. more' \in [Collectors -> BOOLEAN]
    BY <1>0, <1>1 DEF TypeOK
  <2>5. passed' \subseteq Collectors \X Keys
    BY <1>0, <1>1 DEF TypeOK
  <2> QED BY <1>0, <1>1, <2>1, <2>2, <2>3, <2>4, <2>5 DEF TypeOK
<1>6. \A d \in Collectors : d # c =>
        val'[d] = val[d] /\ cursor'[d] = cursor[d] /\ page'[d] = page[d]
  BY <1>0, <1>1 DEF TypeOK
<1>7. CleanIsPushed'
  <2> SUFFICES ASSUME NEW d \in Collectors, NEW l \in Keys
               PROVE  \/ val'[d][l] = 0 \/ l \in dirty[d]
                      \/ cen[l] >= val'[d][l] \/ Expired(l, val[d][l])' \/ l \in gone
                      \/ <<d, l>> \in Refused \cup raced
    BY <1>1 DEF CleanIsPushed
  <2>1. \/ val[d][l] = 0 \/ l \in dirty[d]
        \/ cen[l] >= val[d][l] \/ Expired(l, val[d][l]) \/ l \in gone
        \/ <<d, l>> \in Refused \cup raced
    BY DEF IInv, CacheInvariant, CleanIsPushed
  <2>2. CASE d = c /\ val[c][l] < page[c][l]
    <3>1. val'[d][l] = page[c][l]
      BY <2>2, <1>4
    <3>2. cen[l] >= page[c][l] \/ Expired(l, page[c][l]) \/ l \in gone
      BY DEF IInv, PageIsHeld
    <3> QED BY <3>1, <3>2, <1>1 DEF Expired
  <2>3. CASE d # c \/ ~(val[c][l] < page[c][l])
    <3>1. val'[d][l] = val[d][l]
      BY <2>3, <1>4, <1>6
    <3> QED BY <2>1, <3>1, <1>1 DEF Expired
  <2> QED BY <2>2, <2>3
<1>8. MissingIsAhead'
  <2> SUFFICES ASSUME NEW d \in Collectors, NEW l \in Keys
               PROVE  \/ val'[d][l] >= cen[l] \/ Expired(l, cen[l])
                      \/ cen[l] > cursor'[d] \/ <<d, l>> \in passed'
    BY <1>1 DEF MissingIsAhead, Expired
  <2>1. \/ val[d][l] >= cen[l] \/ Expired(l, cen[l])
        \/ cen[l] > cursor[d] \/ <<d, l>> \in passed
    BY DEF IInv, CacheInvariant, MissingIsAhead
  <2>2. CASE d # c
    BY <2>1, <2>2, <1>1, <1>6
  <2>3. CASE d = c
    <3>1. cursor'[c] \in Nat /\ cursor[c] \in Nat /\ cen[l] \in Nat
      BY <1>0, <1>5 DEF TypeOK
    <3>2. val'[c][l] >= val[c][l] /\ val'[c][l] >= page[c][l] /\ val'[c][l] \in Nat
      BY <1>4
    <3>3. CASE cen[l] > cursor[c] /\ cen[l] <= cursor'[c] /\ page[c][l] # cen[l]
      <4>1. cen[l] \in cursor[c] + 1 .. cursor'[c]
        BY <3>1, <3>3
      <4>2. <<c, l>> \in passed'
        BY <3>3, <4>1, <1>1
      <4> QED BY <2>3, <4>2
    <3>4. CASE page[c][l] = cen[l]
      BY <2>3, <3>2, <3>4
    <3>5. CASE val[d][l] >= cen[l] \/ Expired(l, cen[l]) \/ <<d, l>> \in passed
      BY <2>3, <3>1, <3>2, <3>5, <1>1, <1>4
    <3> QED BY <2>1, <2>3, <3>1, <3>3, <3>4, <3>5
  <2> QED BY <2>2, <2>3
<1>9. SentIsPushed'
  BY <1>1 DEF IInv, SentIsPushed, Expired
<1>10. PageIsHeld'
  <2> SUFFICES ASSUME NEW d \in Collectors, NEW l \in Keys
               PROVE  cen[l] >= page'[d][l] \/ Expired(l, page[d][l])' \/ l \in gone
    BY <1>1 DEF PageIsHeld
  <2>1. CASE d = c
    <3>1. page'[d][l] = 0
      BY <2>1, <1>0, <1>1, <1>2 DEF TypeOK
    <3> QED BY <3>1, <1>4
  <2>2. CASE d # c
    BY <2>2, <1>1, <1>6 DEF IInv, PageIsHeld, Expired
  <2> QED BY <2>1, <2>2
<1> QED BY <1>5, <1>7, <1>8, <1>9, <1>10 DEF IInv, CacheInvariant

LEMMA StepIInv == IInv /\ [Next]_vars => IInv'
<1> SUFFICES ASSUME IInv, [Next]_vars PROVE IInv'
  OBVIOUS
<1>0. TypeOK /\ 0 \in Stamps /\ Stamps \subseteq Nat
  BY AppCacheAssumption DEF IInv, CacheInvariant, Stamps
<1>n. NoEntries \in [Keys -> Stamps] /\ \A k \in Keys : NoEntries[k] = 0
  BY <1>0 DEF NoEntries
<1>1. CASE UNCHANGED vars
  <2>1. TypeOK'
    BY <1>0, <1>1 DEF vars, TypeOK
  <2> QED BY <2>1, <1>1, QuietStep DEF vars
<1>2. CASE Tick
  <2>1. now' \in Stamps
    BY <1>0, <1>2, AppCacheAssumption DEF Tick, TypeOK, Stamps
  <2>2. TypeOK'
    BY <1>0, <1>2, <2>1 DEF Tick, TypeOK
  <2> QED BY <2>2, <1>2, QuietStep DEF Tick
<1>3. CASE Cleanup
  <2>1. \A k \in Keys : cen'[k] = IF Expired(k, cen[k]) THEN 0 ELSE cen[k]
    BY <1>3 DEF Cleanup
  <2>2. cen' \in [Keys -> Stamps]
    BY <1>0, <1>3 DEF Cleanup, TypeOK
  <2>3. TypeOK'
    BY <1>0, <1>3, <2>2 DEF Cleanup, TypeOK
  <2> QED BY <2>1, <2>3, <1>3, QuietStep DEF Cleanup
<1>6. ASSUME NEW l \in Keys, DeleteDevice(l) PROVE IInv'
  <2>1. /\ UNCHANGED <<now, val, dirty, cursor, pc, sent, page, more, writes, raced, passed>>
        /\ gone' = gone \cup {l} /\ cen' = [cen EXCEPT ![l] = 0] /\ Fault
    BY <1>6 DEF DeleteDevice
  <2>2. cen' \in [Keys -> Stamps] /\ gone' \subseteq Keys
    BY <1>0, <2>1 DEF TypeOK
  <2>3. faults' \in 0 .. MaxFaults
    BY <1>0, <2>1, AppCacheAssumption DEF Fault, TypeOK
  <2>4. TypeOK'
    BY <1>0, <2>1, <2>2, <2>3 DEF TypeOK
  <2>5. \A k \in Keys : cen'[k] = cen[k] \/ (cen'[k] = 0 /\ k \in gone')
    BY <1>0, <2>1 DEF TypeOK
  <2> QED BY <2>1, <2>4, <2>5, QuietStep
<1>4. ASSUME NEW c \in Collectors, Loop(c) PROVE IInv'
  <2>1. CASE NothingDirty(c)
    <3>1. TypeOK'
      BY <1>0, <2>1 DEF NothingDirty, TypeOK
    <3>2. \A d \in Collectors : pc'[d] = "clean" => pc[d] = "clean"
      BY <1>0, <2>1 DEF NothingDirty, TypeOK
    <3> QED BY <2>1, <3>1, <3>2, QuietStep DEF NothingDirty
  <2>2. CASE PullPage(c)
    <3>1. PICK ks : page' = [page EXCEPT ![c] =
            [k \in Keys |-> IF k \in ks /\ ~Expired(k, cen[k]) THEN cen[k] ELSE 0]]
      BY <2>2 DEF PullPage
    <3>2. page' \in [Collectors -> [Keys -> Stamps]]
      BY <1>0, <3>1 DEF TypeOK
    <3>3. \A d \in Collectors, k \in Keys : page'[d][k] \in {page[d][k], cen[k], 0}
      BY <1>0, <3>1 DEF TypeOK
    <3>4. more' \in [Collectors -> BOOLEAN]
      BY <1>0, <2>2 DEF PullPage, TypeOK
    <3>5. /\ pc' \in [Collectors -> {"push", "sent", "clean", "pull", "page"}]
          /\ UNCHANGED <<now, cen, gone, val, dirty, cursor, sent, writes, faults, raced, passed>>
      BY <1>0, <2>2 DEF PullPage, TypeOK
    <3>6. TypeOK'
      BY <1>0, <3>2, <3>4, <3>5 DEF TypeOK
    <3>7. \A d \in Collectors : pc'[d] = "clean" => pc[d] = "clean"
      BY <1>0, <2>2 DEF PullPage, TypeOK
    <3> QED BY <3>3, <3>5, <3>6, <3>7, QuietStep
  <2>3. CASE TakeDirty(c)
    <3>1. PICK ks : /\ sent' = [sent EXCEPT ![c] =
                         [k \in Keys |-> IF k \in ks THEN val[c][k] ELSE 0]]
                    /\ pc' = [pc EXCEPT ![c] = "sent"]
                    /\ UNCHANGED <<now, cen, gone, val, dirty, cursor, page, more,
                                   writes, faults, raced, passed>>
      BY <2>3 DEF TakeDirty
    <3>2. sent' \in [Collectors -> [Keys -> Stamps]]
      BY <1>0, <3>1 DEF TypeOK
    <3>3. /\ pc' \in [Collectors -> {"push", "sent", "clean", "pull", "page"}]
          /\ \A d \in Collectors :
               pc'[d] = "clean" => pc[d] = "clean" /\ sent'[d] = sent[d]
      BY <1>0, <3>1 DEF TypeOK
    <3>4. TypeOK'
      BY <1>0, <3>1, <3>2, <3>3 DEF TypeOK
    <3> QED BY <3>1, <3>3, <3>4, QuietStep
  <2>4. CASE PushRolledBack(c)
    BY <2>4, <1>0, GiveUpStep DEF PushRolledBack, TypeOK
  <2> QED BY <1>4, <2>1, <2>2, <2>3, <2>4, PushStep, MarkCleanStep, ApplyStep DEF Loop
<1>7. ASSUME NEW c \in Collectors, PushFails(c) PROVE IInv'
  <2>1. GiveUpPush(c) /\ faults' \in 0 .. MaxFaults
    BY <1>7, <1>0, AppCacheAssumption DEF PushFails, Fault, TypeOK
  <2> QED BY <2>1, GiveUpStep
<1>5. ASSUME NEW c \in Collectors, CycleFails(c) \/ Restart(c) PROVE IInv'
  <2>1. /\ pc' = [pc EXCEPT ![c] = "push"] /\ sent' = [sent EXCEPT ![c] = NoEntries]
        /\ page' = [page EXCEPT ![c] = NoEntries] /\ more' = [more EXCEPT ![c] = FALSE]
        /\ UNCHANGED <<now, cen, gone, val, dirty, writes, raced>> /\ Fault
        /\ \/ UNCHANGED <<cursor, passed>>
           \/ cursor' = [cursor EXCEPT ![c] = 0] /\ passed' = passed \ ({c} \X Keys)
    BY <1>5 DEF CycleFails, Restart
  <2>2. /\ sent' \in [Collectors -> [Keys -> Stamps]]
        /\ page' \in [Collectors -> [Keys -> Stamps]]
        /\ \A d \in Collectors, k \in Keys :
             page'[d][k] = page[d][k] \/ page'[d][k] = 0
    BY <1>0, <1>n, <2>1 DEF TypeOK
  <2>3. /\ cursor' \in [Collectors -> Stamps] /\ passed' \subseteq Collectors \X Keys
        /\ \A d \in Collectors :
             \/ cursor'[d] = 0
             \/ /\ cursor'[d] = cursor[d]
                /\ \A k \in Keys : <<d, k>> \in passed => <<d, k>> \in passed'
    BY <1>0, <2>1 DEF TypeOK
  <2>4. /\ faults' \in 0 .. MaxFaults
        /\ pc' \in [Collectors -> {"push", "sent", "clean", "pull", "page"}]
    BY <1>0, <2>1, AppCacheAssumption DEF Fault, TypeOK
  <2>5. more' \in [Collectors -> BOOLEAN]
    BY <1>0, <2>1 DEF TypeOK
  <2>6. TypeOK'
    BY <1>0, <2>1, <2>2, <2>3, <2>4, <2>5 DEF TypeOK
  <2>7. \A d \in Collectors : pc'[d] = "clean" => pc[d] = "clean" /\ sent'[d] = sent[d]
    BY <1>0, <2>1 DEF TypeOK
  <2> QED BY <2>1, <2>2, <2>3, <2>6, <2>7, QuietStep
<1> QED BY <1>1, <1>2, <1>3, <1>4, <1>5, <1>6, <1>7, AppStep DEF Next

LEMMA InvariantIInv == Spec => []IInv
BY InitIInv, StepIInv, PTL DEF Spec

(***************************************************************************)
(* Neither direction of the replication loses a row, whatever the order of *)
(* writes, pushes, pages, deletions, failures and restarts: a clean row is *)
(* at central, and an entry a collector has yet to get lies ahead of its   *)
(* cursor, with the exceptions that the two parts of the invariant name.   *)
(***************************************************************************)
THEOREM NoRowIsLost == Spec => []CacheInvariant
<1>1. IInv => CacheInvariant
  BY DEF IInv
<1> QED BY InvariantIInv, <1>1, PTL

(* An entry gives way to a newer one only, or is deleted.                  *)
LEMMA StepNewest ==
    IInv /\ [Next]_vars =>
      [\A k \in Keys :
         /\ cen'[k] >= cen[k] \/ Expired(k, cen[k]) \/ k \in gone'
         /\ \A c \in Collectors : val'[c][k] >= val[c][k] \/ val'[c][k] = 0]_vars
<1> SUFFICES ASSUME IInv, Next, NEW k \in Keys
             PROVE  /\ cen'[k] >= cen[k] \/ Expired(k, cen[k]) \/ k \in gone'
                    /\ \A c \in Collectors : val'[c][k] >= val[c][k] \/ val'[c][k] = 0
  OBVIOUS
<1>0. /\ TypeOK /\ cen[k] \in Nat /\ now \in Nat
      /\ \A d \in Collectors : val[d][k] \in Nat /\ page[d][k] \in Nat /\ sent[d][k] \in Nat
  <2>1. TypeOK /\ Stamps \subseteq Nat
    BY AppCacheAssumption DEF IInv, CacheInvariant, Stamps
  <2>2. /\ cen[k] \in Stamps /\ now \in Stamps
        /\ \A d \in Collectors :
             val[d][k] \in Stamps /\ page[d][k] \in Stamps /\ sent[d][k] \in Stamps
    BY <2>1 DEF TypeOK
  <2> QED BY <2>1, <2>2
<1>1. CASE cen' = cen /\ val' = val
  BY <1>0, <1>1
<1>2. CASE Cleanup
  BY <1>0, <1>2 DEF Cleanup
<1>3. ASSUME NEW c \in Collectors, PushLands(c)
      PROVE  val' = val /\ cen'[k] >= cen[k]
  <2>1. val' = val /\ cen' = Pushed(c)
    BY <1>3 DEF PushLands
  <2>2. cen'[k] = cen[k] \/ (cen'[k] = sent[c][k] /\ cen[k] < sent[c][k])
    BY <2>1 DEF Pushed, Accepts
  <2> QED BY <2>1, <2>2, <1>0
<1>6. ASSUME NEW l \in Keys, DeleteDevice(l)
      PROVE  val' = val /\ (cen'[k] = cen[k] \/ k \in gone')
  BY <1>6, <1>0 DEF DeleteDevice, TypeOK
<1>4. ASSUME NEW c \in Collectors, ApplyPage(c)
      PROVE  cen' = cen /\ \A d \in Collectors : val'[d][k] >= val[d][k]
  <2>1. /\ cen' = cen
        /\ val' = [val EXCEPT ![c] = [l \in Keys |->
             IF Replaces(val[c][l], page[c][l]) THEN page[c][l] ELSE val[c][l]]]
    BY <1>4 DEF ApplyPage
  <2>2. val'[c][k] = IF val[c][k] < page[c][k] THEN page[c][k] ELSE val[c][k]
    BY <2>1, <1>0 DEF TypeOK, Replaces
  <2>3. \A d \in Collectors : d # c => val'[d] = val[d]
    BY <2>1, <1>0 DEF TypeOK
  <2> QED BY <2>1, <2>2, <2>3, <1>0
<1>5. ASSUME NEW c \in Collectors, NEW l \in Keys,
             AppCacheSet(c, l) \/ AppCacheDelete(c, l) \/ AppCacheGetExpired(c, l)
      PROVE  cen' = cen /\ \A d \in Collectors : val'[d][k] >= val[d][k] \/ val'[d][k] = 0
  <2>1. /\ cen' = cen
        /\ \/ val' = [val EXCEPT ![c][l] = now] /\ val[c][l] < now
           \/ val' = [val EXCEPT ![c][l] = 0]
    BY <1>5 DEF AppCacheSet, AppCacheDelete, AppCacheGetExpired, Remove
  <2>2. \A d \in Collectors :
          \/ val'[d][k] = val[d][k]
          \/ val'[d][k] = 0
          \/ val'[d][k] = now /\ val[d][k] < now
    <3>1. CASE val' = [val EXCEPT ![c][l] = now] /\ val[c][l] < now
      BY <3>1, <1>0 DEF TypeOK
    <3>2. CASE val' = [val EXCEPT ![c][l] = 0]
      BY <3>2, <1>0 DEF TypeOK
    <3> QED BY <2>1, <3>1, <3>2
  <2> QED BY <2>1, <2>2, <1>0
<1> QED
  BY <1>0, <1>1, <1>2, <1>3, <1>4, <1>5, <1>6
     DEF Next, Loop, Tick, TakeDirty, NothingDirty, PushRolledBack, PushFails, GiveUpPush,
         MarkClean, PullPage, CycleFails, Restart, Cleanup

(***************************************************************************)
(* Newest wins: no push, page or late answer replaces an entry by an older *)
(* one, at central or at a collector.                                      *)
(***************************************************************************)
THEOREM NewestAlwaysWins == Spec => NewestWins
BY InvariantIInv, StepNewest, PTL DEF Spec, NewestWins
=============================================================================
