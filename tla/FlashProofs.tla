---------------------------- MODULE FlashProofs ----------------------------
(***************************************************************************)
(* Module Flash is correct for every number of pages and of writes: after  *)
(* any crash, and whatever the PERMs of two terminals do to each other,    *)
(* the settings found are the ones saved last and never older ones, unless *)
(* the search for them ends at a page that an erase cut off has left.      *)
(*                                                                         *)
(* The invariant says where the unbroken run of pages with the magic word  *)
(* ends.  What the properties rest on: behind that page and the one after  *)
(* it the sector is blank, and a page without the magic word holds nothing *)
(* that was ever acknowledged, but for the pages left by such an erase.    *)
(***************************************************************************)
EXTENDS Flash, WellFoundedInduction, TLAPS

\* The pages up to n have the magic word, the one after them has not.
LastPage(n) ==
    /\ n \in -1 .. Pages - 1
    /\ \A q \in Page : q <= n => id[q] = "magic"
    /\ n + 1 \in Page => id[n + 1] # "magic"

\* Only the page that comes next can have been written before and given up.
Clean(q) == id[q] # "magic" /\ data[q] = Blank
CleanBehind(n) == \A q \in Page : q > n + 1 => Clean(q) \/ q \in left

\* Whose data is where.
Numbers ==
    /\ \A q \in Page : data[q] <= writes
    /\ \A w \in saved \cup older : 1 <= w /\ w <= writes
    /\ pc # "out" =>
         /\ 1 <= version /\ version <= writes /\ writes <= version + 1
         /\ \A w \in older : w < version
         /\ writes = version => \A w \in saved : w < version
    /\ pc \in {"erase", "program"} => \A q \in Page : data[q] # version
    /\ pc = "compare" => \A q \in Page : q # dst => data[q] # version

NotAcknowledged ==
    \A q \in Page : id[q] # "magic" => data[q] \notin saved \cup older \/ q \in left

\* Page n is dst, or one that an erase has left behind it.
From(n) == n = dst \/ (n > dst /\ n \in left)

\* Where the call of the main loop is, and what a call in the interrupt may have done.
Under(n) ==
    /\ pc = "erase" => dst = 0
    /\ pc = "program" =>
         /\ n = dst - 1 \/ (From(n) /\ writes # version)
         /\ \A q \in Page : q > dst => Clean(q) \/ q \in left
    /\ pc = "compare" =>
         /\ writes = version => From(n) /\ \A q \in Page : q > dst => Clean(q) \/ q \in left
         /\ (id[dst] = "magic" /\ data[dst] = version) =>
              n >= 0 /\ (n = dst \/ n \in left \/ data[n] \in saved)

\* What a restart finds.
Found(n) ==
    /\ (pc \in {"out", "erase"} \/ (pc = "program" /\ dst # 0)) /\ saved # {} =>
         n >= 0 /\ (data[n] \in saved \/ n \in left)
    /\ n >= 0 => data[n] \notin older \/ n \in left

Sound(n) == LastPage(n) /\ CleanBehind(n) /\ Numbers /\ NotAcknowledged /\ Under(n) /\ Found(n)
-----------------------------------------------------------------------------
(* The sector *)

LEMMA Sizes == Pages \in Nat /\ Pages > 0 /\ MaxWrites \in Nat
BY FlashAssumption

LEMMA LessThan == \A x, y \in Nat : x < y => <<x, y>> \in OpToRel(<, Nat)
BY DEF OpToRel

LEMMA Least ==
    ASSUME NEW T \in SUBSET Nat, T # {}
    PROVE  \E x \in T : \A y \in T : x <= y
<1>1. PICK x \in T : \A y \in T : <<y, x>> \notin OpToRel(<, Nat)
  BY WFMin, NatLessThanWellFounded
<1>2. ASSUME NEW y \in T PROVE x <= y
  <2>1. ~(y < x)
    BY <1>1, LessThan, Zenon
  <2> QED
    BY <2>1
<1> QED
  BY <1>2

\* In every sector the run of pages with the magic word ends somewhere.
LEMMA RunEnds ==
    ASSUME NEW f
    PROVE  \E n \in -1 .. Pages - 1 :
             /\ \A q \in Page : q <= n => f[q] = "magic"
             /\ n + 1 \in Page => f[n + 1] # "magic"
<1> DEFINE T == {k \in 0 .. Pages : k = Pages \/ f[k] # "magic"}
<1>1. T \subseteq Nat /\ T # {}
  <2>1. Pages \in T
    BY Sizes
  <2> QED
    BY <2>1, Sizes
<1>2. PICK x \in T : \A y \in T : x <= y
  BY <1>1, Least
<1>3. x \in 0 .. Pages /\ (x = Pages \/ f[x] # "magic")
  BY <1>2
<1>4. \A q \in Page : q < x => f[q] = "magic"
  BY <1>2, <1>3, Sizes DEF Page
<1> HIDE DEF T
<1>5. x - 1 \in -1 .. Pages - 1
  BY <1>3, Sizes
<1>6. \A q \in Page : q <= x - 1 => f[q] = "magic"
  BY <1>3, <1>4, Sizes DEF Page
<1>7. (x - 1) + 1 \in Page => f[(x - 1) + 1] # "magic"
  <2>1. (x - 1) + 1 = x
    BY <1>3, Sizes
  <2>2. x \in Page => x # Pages
    BY Sizes DEF Page
  <2> QED
    BY <1>3, <2>1, <2>2
<1> QED
  BY <1>5, <1>6, <1>7

\* flash_find_id is the last page of the run.
LEMMA FindId ==
    ASSUME NEW n, LastPage(n)
    PROVE  /\ n \in Int /\ flash_find_id = n
           /\ EraseFirst <=> (n = -1 \/ n + 1 >= Pages)
           /\ EraseFirst => Target = 0
           /\ ~EraseFirst => Target = n + 1
           /\ Target \in Page
<1>1. n \in -1 .. Pages - 1 /\ n \in Int
  BY Sizes DEF LastPage
<1>2. /\ \A q \in Page : q <= n => id[q] = "magic"
      /\ n + 1 \in Page => id[n + 1] # "magic"
  BY DEF LastPage
<1>3. Run = 0 .. n
  <2>1. ASSUME NEW p \in Page, \A q \in 0 .. p : id[q] = "magic"
        PROVE  p <= n
    <3>1. SUFFICES ASSUME p >= n + 1 PROVE FALSE
      BY <1>1, Sizes DEF Page
    <3>2. n + 1 \in Page /\ n + 1 \in 0 .. p
      BY <1>1, <3>1, Sizes DEF Page
    <3> QED
      BY <1>2, <2>1, <3>2
  <2>2. ASSUME NEW p \in Page, p <= n
        PROVE  \A q \in 0 .. p : id[q] = "magic"
    <3>1. \A q \in 0 .. p : q \in Page /\ q <= n
      BY <1>1, <2>2, Sizes DEF Page
    <3> QED
      BY <1>2, <3>1
  <2>3. \A p \in 0 .. n : p \in Page
    BY <1>1, Sizes DEF Page
  <2> QED
    BY <1>1, <2>1, <2>2, <2>3, Sizes DEF Run, Page
<1>4. flash_find_id = n
  <2>1. CASE n = -1
    <3>1. Run = {}
      BY <1>3, <2>1
    <3> QED
      BY <2>1, <3>1 DEF flash_find_id, NoPage
  <2>2. CASE n # -1
    <3>1. Run # {} /\ n \in Run /\ \A y \in Run : n >= y
      BY <1>1, <1>3, <2>2
    <3>2. \A x \in Run : (\A y \in Run : x >= y) => x = n
      BY <1>1, <1>3, <2>2
    <3>3. Max(Run) = n
      BY <3>1, <3>2 DEF Max
    <3> QED
      BY <3>1, <3>3 DEF flash_find_id
  <2> QED
    BY <2>1, <2>2
<1>5. /\ EraseFirst <=> (n = -1 \/ n + 1 >= Pages)
      /\ EraseFirst => Target = 0
      /\ ~EraseFirst => Target = n + 1
  BY <1>4 DEF EraseFirst, Target, NoPage
<1> QED
  BY <1>1, <1>4, <1>5, Sizes DEF Page

LEMMA FlashRead ==
    ASSUME NEW n, LastPage(n)
    PROVE  flash_read = IF n >= 0 THEN data[n] ELSE Unknown
BY FindId DEF flash_read, NoPage, LastPage

\* An erased sector, and one whose page p has been programmed.
LEMMA Erased ==
    /\ AfterErase.id = [p \in Page |-> "blank"]
    /\ AfterErase.data = [p \in Page |-> Blank]
BY DEF AfterErase

LEMMA ProgrammedFacts ==
    ASSUME NEW i \in [Page -> {"blank", "partial", "magic"}],
           NEW d \in [Page -> Version \cup {Blank, Mixed}],
           NEW l \in SUBSET Page,
           NEW p \in Page, NEW v \in Version, Programmed(i, d, l, p, v)
    PROVE  /\ id' \in [Page -> {"blank", "partial", "magic"}]
           /\ data' \in [Page -> Version \cup {Blank, Mixed}]
           /\ left' \subseteq l /\ \A q \in Page : q # p => (q \in left' <=> q \in l)
           /\ id'[p] = "magic" /\ \A q \in Page : q # p => id'[q] = i[q] /\ data'[q] = d[q]
           /\ data'[p] \in {v, Mixed}
           /\ d[p] = Blank => data'[p] = v
           /\ data'[p] # v => (p \in left' <=> p \in l)
<1>1. PICK w \in And(d[p], v) :
        /\ data' = [d EXCEPT ![p] = w]
        /\ left' = IF w = v THEN l \ {p} ELSE l
  BY DEF Programmed
<1>2. id' = [i EXCEPT ![p] = "magic"]
  BY DEF Programmed
<1>3. w \in {v, Mixed} /\ (d[p] = Blank => w = v)
  BY DEF And
<1>4. w \in Version \cup {Blank, Mixed}
  BY <1>3
<1>5. data'[p] = w
  BY <1>1
<1>6. /\ left' \subseteq l /\ \A q \in Page : q # p => (q \in left' <=> q \in l)
      /\ w # v => (p \in left' <=> p \in l)
  BY <1>1
<1> QED
  BY <1>1, <1>2, <1>3, <1>4, <1>5, <1>6
-----------------------------------------------------------------------------
(* Every step *)

SomeSound == \E n \in Int : Sound(n)

LEMMA InitSound == Init => TypeOK /\ SomeSound
<1> SUFFICES ASSUME Init PROVE TypeOK /\ SomeSound
  OBVIOUS
<1>1. TypeOK
  BY Sizes DEF Init, TypeOK, Page, Version
<1>2. Sound(-1)
  BY Sizes DEF Init, Sound, LastPage, CleanBehind, Clean, Numbers, NotAcknowledged, Under, Found,
     Page, Blank
<1> QED
  BY <1>1, <1>2 DEF SomeSound

\* The call of the main loop: it looks for the page, erases, programs and compares.
LEMMA WriteSound ==
    ASSUME TypeOK, NEW n \in Int, Sound(n), FlashWrite
    PROVE  TypeOK' /\ Sound(n)'
<1>1. LastPage(n) /\ n \in -1 .. Pages - 1
  BY DEF Sound, LastPage
<1>2. /\ EraseFirst <=> (n = -1 \/ n + 1 >= Pages)
      /\ EraseFirst => dst' = 0
      /\ ~EraseFirst => dst' = n + 1
      /\ dst' \in Page
  BY <1>1, FindId DEF FlashWrite
<1>3. TypeOK'
  BY <1>2, Sizes DEF FlashWrite, TypeOK, sector, ghost
<1>4. /\ pc = "out" /\ writes' = writes + 1 /\ version' = writes + 1 /\ writes \in Nat
      /\ pc' = IF EraseFirst THEN "erase" ELSE "program"
      /\ UNCHANGED <<id, data, left, saved, older>>
  BY DEF FlashWrite, sector, ghost, TypeOK
<1>5. \A q \in Page : data[q] \in Int
  BY Sizes DEF TypeOK, Version, Blank, Mixed
<1>6. \A w \in saved \cup older : w \in Int
  BY Sizes DEF TypeOK, Version
<1> USE DEF Sound
<1>7. LastPage(n)' /\ CleanBehind(n)' /\ NotAcknowledged'
  BY <1>4 DEF LastPage, CleanBehind, Clean, NotAcknowledged
<1>8. Numbers'
  BY <1>4, <1>5, <1>6 DEF Numbers
<1>9. Under(n)'
  <2>1. pc' = "erase" => dst' = 0
    BY <1>2, <1>4
  <2>2. ASSUME pc' = "program"
        PROVE  n = dst' - 1 /\ \A q \in Page : q > dst' => Clean(q)' \/ q \in left'
    <3>1. ~EraseFirst
      BY <1>4, <2>2
    <3>2. dst' = n + 1 /\ n >= 0
      BY <1>1, <1>2, <3>1, Sizes
    <3>3. \A q \in Page : q > n + 1 => Clean(q) \/ q \in left
      BY DEF CleanBehind
    <3>4. \A q : Clean(q)' <=> Clean(q)
      BY <1>4 DEF Clean
    <3> QED
      BY <1>4, <3>2, <3>3, <3>4
  <2>3. pc' # "compare"
    BY <1>4
  <2> QED
    BY <2>1, <2>2, <2>3, Zenon DEF Under
<1>10. Found(n)'
  BY <1>4 DEF Found
<1> QED
  BY <1>3, <1>7, <1>8, <1>9, <1>10

LEMMA EraseSound ==
    ASSUME TypeOK, NEW n \in Int, Sound(n), FlashErase
    PROVE  TypeOK' /\ Sound(-1)'
<1>1. /\ id' = [p \in Page |-> "blank"] /\ data' = [p \in Page |-> Blank] /\ left' = {}
      /\ pc = "erase" /\ pc' = "program" /\ UNCHANGED <<dst, version, writes, saved, older>>
  BY Erased DEF FlashErase, ghost
<1>2. TypeOK'
  BY <1>1 DEF TypeOK
<1>3. /\ dst = 0 /\ writes \in Nat /\ version \in Nat /\ 1 <= version
      /\ \A w \in saved \cup older : 1 <= w /\ w \in Int
  BY <1>1, Sizes DEF Sound, Under, Numbers, TypeOK, Version
<1>4. LastPage(-1)' /\ CleanBehind(-1)' /\ \A q \in Page : Clean(q)'
  BY <1>1, Sizes DEF LastPage, CleanBehind, Clean, Page
<1>5. Numbers'
  <2>1. version <= writes /\ writes <= version + 1 /\ \A w \in older : w < version
    BY <1>1 DEF Sound, Numbers
  <2>2. /\ writes = version => \A w \in saved : w < version
        /\ \A w \in saved \cup older : w <= writes
    BY <1>1 DEF Sound, Numbers
  <2>3. \A q \in Page : data'[q] = 0
    BY <1>1 DEF Blank
  <2> QED
    BY <1>1, <1>3, <2>1, <2>2, <2>3 DEF Numbers
<1>6. NotAcknowledged'
  BY <1>1, <1>3 DEF NotAcknowledged, Blank
<1>7. Under(-1)'
  <2>1. pc' = "program" /\ dst' = 0 /\ -1 = dst' - 1
    BY <1>1, <1>3
  <2> QED
    BY <1>4, <2>1 DEF Under
<1>8. Found(-1)'
  BY <1>1, <1>3 DEF Found
<1> QED
  BY <1>2, <1>4, <1>5, <1>6, <1>7, <1>8 DEF Sound

\* Programming the page behind the run makes the run longer, by that page and by
\* what an erase has left behind it.
LEMMA RunGrows ==
    ASSUME NEW n, LastPage(n), NEW p \in Page, n = p - 1,
           \A q \in Page : q > p => Clean(q) \/ q \in left,
           id'[p] = "magic", \A q \in Page : q # p => id'[q] = id[q],
           NEW m, LastPage(m)'
    PROVE  m = p \/ (m > p /\ m \in left)
<1>1. p \in Int /\ p >= 0 /\ p < Pages /\ n \in Int /\ m \in -1 .. Pages - 1 /\ m \in Int
  BY Sizes DEF Page, LastPage
<1>2. \A q \in Page : q <= p => id'[q] = "magic"
  BY <1>1 DEF LastPage, Page
<1>3. m >= p
  <2>1. SUFFICES ASSUME m < p PROVE FALSE
    BY <1>1
  <2>2. m + 1 \in Page /\ m + 1 <= p
    BY <1>1, <2>1, Sizes DEF Page
  <2>3. id'[m + 1] # "magic"
    BY <2>2 DEF LastPage
  <2> QED
    BY <1>2, <2>2, <2>3
<1>4. ASSUME m > p PROVE m \in left
  <2>1. m \in Page
    BY <1>1, <1>4 DEF Page
  <2>2. id'[m] = "magic"
    BY <1>1, <2>1 DEF LastPage
  <2>3. id[m] = "magic"
    BY <1>1, <1>4, <2>1, <2>2
  <2> QED
    BY <1>4, <2>1, <2>3 DEF Clean
<1> QED
  BY <1>1, <1>3, <1>4

LEMMA ProgramSound ==
    ASSUME TypeOK, NEW n \in Int, Sound(n), FlashProgram
    PROVE  TypeOK' /\ SomeSound'
<1>1. /\ pc = "program" /\ pc' = "compare" /\ UNCHANGED <<dst, version, writes, saved, older>>
      /\ Programmed(id, data, left, dst, version)
  BY DEF FlashProgram, ghost
<1>2. dst \in Page /\ version \in Version /\ writes \in Nat /\ left \subseteq Page
  BY <1>1, Sizes DEF TypeOK, Version, Sound, Numbers
<1>3. /\ id' \in [Page -> {"blank", "partial", "magic"}]
      /\ data' \in [Page -> Version \cup {Blank, Mixed}]
      /\ left' \subseteq left /\ \A q \in Page : q # dst => (q \in left' <=> q \in left)
      /\ id'[dst] = "magic" /\ \A q \in Page : q # dst => id'[q] = id[q] /\ data'[q] = data[q]
      /\ data'[dst] \in {version, Mixed}
  BY <1>1, <1>2, ProgrammedFacts DEF TypeOK
<1>4. TypeOK'
  BY <1>1, <1>2, <1>3 DEF TypeOK
<1>5. /\ n = dst - 1 \/ (From(n) /\ writes # version)
      /\ \A q \in Page : q > dst => Clean(q) \/ q \in left
      /\ LastPage(n) /\ CleanBehind(n) /\ NotAcknowledged /\ Numbers
      /\ n >= 0 => data[n] \notin older \/ n \in left
  BY <1>1 DEF Sound, Under, Found
<1>6. PICK m \in Int : LastPage(m)' /\ (m = dst \/ (m > dst /\ m \in left))
  <2>1. CASE n = dst - 1
    <3>1. PICK k \in -1 .. Pages - 1 : LastPage(k)'
      BY RunEnds DEF LastPage
    <3>2. k = dst \/ (k > dst /\ k \in left)
      BY <1>2, <1>3, <1>5, <2>1, <3>1, RunGrows, Zenon
    <3>3. k \in Int
      BY <3>1, Sizes
    <3> QED
      BY <3>1, <3>2, <3>3
  <2>2. CASE From(n)
    <3>1. n >= dst /\ (n = dst \/ (n > dst /\ n \in left))
      BY <1>2, <2>2 DEF From, Page
    <3>2. LastPage(n)'
      BY <1>2, <1>3, <1>5, <3>1, Sizes DEF LastPage, Page
    <3> QED
      BY <3>1, <3>2
  <2> QED
    BY <1>5, <2>1, <2>2
<1>7. \A q \in Page : q > dst => Clean(q)' \/ q \in left'
  BY <1>2, <1>3, <1>5 DEF Clean, Page
<1>8. CleanBehind(m)'
  BY <1>2, <1>6, <1>7 DEF CleanBehind, Page
<1>9. /\ 1 <= version /\ version <= writes /\ writes <= version + 1
      /\ \A w \in older : w < version
      /\ \A q \in Page : data[q] # version
      /\ \A q \in Page : data[q] <= writes
      /\ Mixed < 0 /\ version # Mixed
  BY <1>1, <1>2, <1>5 DEF Numbers, Mixed, Version
<1>10. Numbers'
  BY <1>1, <1>2, <1>3, <1>5, <1>9 DEF Numbers, Mixed, Version
<1>11. NotAcknowledged'
  BY <1>1, <1>3, <1>5 DEF NotAcknowledged
<1>12. m = dst \/ (m > dst /\ m \in left')
  BY <1>2, <1>3, <1>6 DEF Page
<1>13. Under(m)'
  <2>1. m >= 0
    BY <1>2, <1>12 DEF Page
  <2>2. From(m)'
    BY <1>1, <1>12 DEF From
  <2>3. m = dst' \/ m \in left'
    BY <1>1, <1>12
  <2> QED
    BY <1>1, <1>7, <2>1, <2>2, <2>3 DEF Under
<1>14. Found(m)'
  <2>1. Mixed \notin older /\ version \notin older
    <3>1. older \subseteq Version
      BY DEF TypeOK
    <3> QED
      BY <1>2, <1>9, <3>1 DEF Version, Mixed
  <2>2. m = dst => data'[m] \notin older
    BY <1>3, <2>1
  <2> QED
    BY <1>1, <1>12, <2>2 DEF Found
<1>15. Sound(m)'
  BY <1>6, <1>8, <1>10, <1>11, <1>13, <1>14 DEF Sound
<1> QED
  BY <1>4, <1>15 DEF SomeSound

LEMMA CompareSound ==
    ASSUME TypeOK, NEW n \in Int, Sound(n), Compare
    PROVE  TypeOK' /\ Sound(n)'
<1> DEFINE ok == id[dst] = "magic" /\ data[dst] = version
           beside == writes > version
<1>1. /\ pc = "compare" /\ pc' = "out" /\ UNCHANGED <<id, data, left, dst, version, writes>>
      /\ saved' = CASE ~ok -> {} [] ok /\ beside -> saved \cup {version} [] OTHER -> {version}
      /\ older' = IF ok /\ ~beside THEN older \cup saved ELSE older
  BY DEF Compare, Return, sector
<1>2. /\ 1 <= version /\ version <= writes /\ writes <= version + 1 /\ dst \in Page
      /\ \A w \in older : w < version
      /\ writes = version => \A w \in saved : w < version
      /\ \A q \in Page : q # dst => data[q] # version
      /\ writes \in Nat /\ version \in Version /\ writes <= MaxWrites
      /\ saved \subseteq Version /\ older \subseteq Version
      /\ \A q \in Page : data[q] \in Int
  BY <1>1, Sizes DEF Sound, Numbers, TypeOK, Version, Blank, Mixed
<1>3. /\ writes = version => n = dst \/ n \in left
      /\ ok => n >= 0 /\ (n = dst \/ n \in left \/ data[n] \in saved)
      /\ n >= 0 => data[n] \notin older \/ n \in left
      /\ LastPage(n) /\ CleanBehind(n) /\ NotAcknowledged
  BY <1>1 DEF Sound, Under, Found, From
<1>4. saved' \subseteq Version /\ older' \subseteq Version
  BY <1>1, <1>2
<1>5. TypeOK'
  BY <1>1, <1>4 DEF TypeOK
<1>6. LastPage(n)' /\ CleanBehind(n)'
  BY <1>1, <1>3 DEF LastPage, CleanBehind, Clean
<1>7. Numbers'
  BY <1>1, <1>2, <1>4 DEF Sound, Numbers, Version
<1>8. NotAcknowledged'
  <2>1. saved' \cup older' \subseteq saved \cup older \cup {version}
    BY <1>1
  <2>2. ok \/ saved' \cup older' \subseteq saved \cup older
    BY <1>1
  <2> QED
    BY <1>1, <1>2, <1>3, <2>1, <2>2 DEF NotAcknowledged
<1>9. Found(n)'
  <2>1. CASE ok /\ beside
    <3>1. saved' = saved \cup {version} /\ older' = older
      BY <1>1, <2>1
    <3>2. n >= 0 /\ (data[n] \in saved' \/ n \in left)
      BY <1>3, <2>1, <3>1
    <3> QED
      BY <1>1, <1>3, <3>1, <3>2 DEF Found
  <2>2. CASE ok /\ ~beside
    <3>1. saved' = {version} /\ older' = older \cup saved
      BY <1>1, <2>2
    <3>2. writes = version /\ n >= 0 /\ (n \in left \/ (n = dst /\ data[n] = version))
      BY <1>2, <1>3, <2>2
    <3>3. version \notin older \cup saved
      BY <1>2, <3>2 DEF Version
    <3> QED
      BY <1>1, <3>1, <3>2, <3>3 DEF Found
  <2>3. CASE ~ok
    <3>1. saved' = {} /\ older' = older
      BY <1>1, <2>3
    <3> QED
      BY <1>1, <1>3, <3>1 DEF Found
  <2> QED
    BY <2>1, <2>2, <2>3
<1>10. Under(n)'
  BY <1>1 DEF Under
<1> QED
  BY <1>5, <1>6, <1>7, <1>8, <1>9, <1>10 DEF Sound

\* A call in the interrupt, from its look at the sector to its return.
LEMMA UsbSound ==
    ASSUME TypeOK, NEW n \in Int, Sound(n), UsbFlashWrite
    PROVE  TypeOK' /\ SomeSound'
<1> DEFINE v == writes + 1
           t == Target
           i == IF EraseFirst THEN [p \in Page |-> "blank"] ELSE id
           d == IF EraseFirst THEN [p \in Page |-> Blank] ELSE data
           l == IF EraseFirst THEN {} ELSE left
           ok == data'[t] = v
<1>1. LastPage(n) /\ n \in -1 .. Pages - 1
  BY DEF Sound, LastPage
<1>2. /\ EraseFirst <=> (n = -1 \/ n + 1 >= Pages)
      /\ EraseFirst => t = 0
      /\ ~EraseFirst => t = n + 1
      /\ t \in Page
  BY <1>1, FindId
<1>3. /\ writes < MaxWrites /\ (pc # "out" => writes = version)
      /\ writes' = v /\ UNCHANGED <<pc, dst, version>>
      /\ Programmed(i, d, l, t, v)
      /\ saved' = IF ok THEN {v} ELSE {}
      /\ older' = IF ok THEN older \cup saved ELSE older
  <2>1. IF EraseFirst THEN Programmed(AfterErase.id, AfterErase.data, {}, 0, v)
                      ELSE Programmed(id, data, left, Target, v)
    BY DEF UsbFlashWrite
  <2>2. Programmed(i, d, l, t, v)
    BY <1>2, <2>1, Erased
  <2> QED
    BY <2>2 DEF UsbFlashWrite, Return
<1>4. /\ v \in Version /\ writes \in Nat /\ saved \subseteq Version /\ older \subseteq Version
      /\ \A q \in Page : data[q] \in Int /\ data[q] <= writes
      /\ \A w \in saved \cup older : 1 <= w /\ w <= writes
  BY <1>3, Sizes DEF Sound, Numbers, TypeOK, Version, Blank, Mixed
<1>5. /\ i \in [Page -> {"blank", "partial", "magic"}]
      /\ d \in [Page -> Version \cup {Blank, Mixed}]
      /\ l \in SUBSET Page
  BY DEF TypeOK
<1>6. \A q \in Page : /\ d[q] \in {data[q], Blank}
                      /\ d[q] = data[q] \/ (i[q] = "blank" /\ d[q] = Blank)
                      /\ i[q] # "magic" /\ d[q] = data[q] /\ d[q] # Blank => id[q] # "magic"
                      /\ i[q] # "magic" /\ q \in left /\ d[q] # Blank => q \in l
  BY DEF i, d, l
<1>7. \A q \in Page : q > t => (i[q] # "magic" /\ d[q] = Blank) \/ q \in l
  <2>1. CASE EraseFirst
    BY <2>1 DEF i, d
  <2>2. CASE ~EraseFirst
    BY <1>2, <2>2 DEF Sound, CleanBehind, Clean, i, d, l
  <2> QED
    BY <2>1, <2>2
<1>8. \A q \in Page : q < t => i[q] = "magic"
  <2>1. CASE EraseFirst
    BY <1>2, <2>1, Sizes DEF Page
  <2>2. CASE ~EraseFirst
    BY <1>1, <1>2, <2>2, Sizes DEF LastPage, Page, i
  <2> QED
    BY <2>1, <2>2
<1>9. ~EraseFirst => d[t] = data[t] /\ (t \in l <=> t \in left)
  OBVIOUS
<1>10. EraseFirst => d[t] = Blank
  BY <1>2
<1> HIDE DEF i, d, l, t
<1>11. /\ id' \in [Page -> {"blank", "partial", "magic"}]
       /\ data' \in [Page -> Version \cup {Blank, Mixed}]
       /\ left' \subseteq l /\ \A q \in Page : q # t => (q \in left' <=> q \in l)
       /\ id'[t] = "magic" /\ \A q \in Page : q # t => id'[q] = i[q] /\ data'[q] = d[q]
       /\ data'[t] \in {v, Mixed}
       /\ d[t] = Blank => data'[t] = v
       /\ data'[t] # v => (t \in left' <=> t \in l)
  BY <1>2, <1>3, <1>4, <1>5, ProgrammedFacts
<1>12. saved' \subseteq Version /\ older' \subseteq Version
  BY <1>3, <1>4
<1>13. TypeOK'
  BY <1>3, <1>4, <1>5, <1>11, <1>12, Sizes DEF TypeOK, Version
<1>14. t \in Int /\ dst \in Page /\ dst \in Int
  BY <1>2 DEF TypeOK, Page
<1>15. PICK m \in Int : LastPage(m)' /\ (m = t \/ (m > t /\ m \in left'))
  <2>1. PICK m \in -1 .. Pages - 1 : LastPage(m)'
    BY RunEnds DEF LastPage
  <2>2. m \in Int
    BY <2>1, Sizes
  <2>3. m >= t
    <3>1. SUFFICES ASSUME m < t PROVE FALSE
      BY <1>14, <2>2
    <3>2. m + 1 \in Page /\ m + 1 <= t
      BY <1>2, <2>1, <3>1, Sizes DEF Page
    <3>3. id'[m + 1] # "magic"
      BY <2>1, <3>2 DEF LastPage
    <3>4. id'[m + 1] = "magic"
      BY <1>8, <1>11, <1>14, <2>2, <3>2
    <3> QED
      BY <3>3, <3>4
  <2>4. ASSUME m > t PROVE m \in left'
    <3>1. m \in Page
      BY <1>2, <2>1, <2>4, Sizes DEF Page
    <3>2. id'[m] = "magic"
      BY <2>1, <2>2, <3>1 DEF LastPage
    <3>3. m # t
      BY <1>14, <2>2, <2>4
    <3>4. i[m] = "magic"
      BY <1>11, <3>1, <3>2, <3>3
    <3>5. m \in l
      BY <1>7, <2>4, <3>1, <3>4
    <3> QED
      BY <1>11, <3>1, <3>3, <3>5
  <2> QED
    BY <1>14, <2>1, <2>2, <2>3, <2>4
<1>16. \A q \in Page : q > t => Clean(q)' \/ q \in left'
  BY <1>7, <1>11, <1>14 DEF Clean, Page
<1>17. CleanBehind(m)'
  BY <1>14, <1>15, <1>16 DEF CleanBehind, Page
<1>18. /\ \A q \in Page : data'[q] <= v
       /\ \A q \in Page : data'[q] = data[q] \/ data'[q] \in {v, Mixed, Blank}
       /\ \A q \in Page : q # t => data'[q] \in {data[q], Blank}
  BY <1>2, <1>4, <1>6, <1>11 DEF Blank, Mixed
<1>19. Numbers'
  <2>1. \A w \in saved' \cup older' : 1 <= w /\ w <= writes'
    BY <1>3, <1>4
  <2>2. pc # "out" => /\ 1 <= version /\ version = writes
                      /\ \A w \in older : w < version
                      /\ \A w \in saved : w < version
    BY <1>3 DEF Sound, Numbers
  <2>3. pc # "out" => \A w \in older' : w < version
    BY <1>3, <2>2
  <2>4. pc # "out" => version # v /\ version # Mixed /\ version # Blank /\ writes' # version
    BY <1>3, <1>4, <2>2 DEF Mixed, Blank
  <2>5. pc \in {"erase", "program"} => \A q \in Page : data'[q] # version
    BY <1>18, <2>4 DEF Sound, Numbers
  <2>6. pc = "compare" => \A q \in Page : q # dst => data'[q] # version
    BY <1>18, <2>4 DEF Sound, Numbers
  <2> QED
    BY <1>3, <1>4, <1>18, <2>1, <2>2, <2>3, <2>4, <2>5, <2>6 DEF Numbers
<1>20. NotAcknowledged'
  <2>1. ASSUME NEW q \in Page, id'[q] # "magic", q \notin left'
        PROVE  data'[q] \notin saved' \cup older'
    <3>1. q # t /\ id'[q] = i[q] /\ data'[q] = d[q] /\ q \notin l
      BY <1>2, <1>11, <2>1
    <3>2. saved' \cup older' \subseteq saved \cup older \cup {v}
      BY <1>3
    <3>3. d[q] # v
      BY <1>4, <1>6 DEF Blank
    <3>4. d[q] = Blank => d[q] \notin saved \cup older
      BY <1>4 DEF Blank
    <3>5. d[q] # Blank => d[q] \notin saved \cup older
      BY <1>6, <2>1, <3>1 DEF Sound, NotAcknowledged
    <3> QED
      BY <3>1, <3>2, <3>3, <3>4, <3>5
  <2> QED
    BY <2>1 DEF NotAcknowledged
\* The page found is its own, whole, or one that an erase has left.
<1>21. ASSUME d[t] = Blank \/ t \in l
       PROVE  data'[m] \in saved' \/ m \in left'
  <2>1. CASE m # t
    BY <1>15, <2>1
  <2>2. CASE m = t /\ ok
    BY <1>3, <2>2
  <2>3. CASE m = t /\ ~ok
    BY <1>11, <1>21, <2>3
  <2> QED
    BY <2>1, <2>2, <2>3
<1>22. Under(m)'
  <2>1. CASE pc = "erase"
    BY <1>3, <2>1 DEF Sound, Under
  <2>2. CASE pc = "program"
    <3>1. writes = version /\ n = dst - 1
      BY <1>3, <2>2 DEF Sound, Under
    <3>2. t = dst
      BY <1>1, <1>2, <1>14, <3>1, Sizes DEF Page
    <3>3. writes' # version'
      BY <1>3, <1>4, <3>1
    <3>4. From(m)'
      BY <1>3, <1>15, <3>2 DEF From
    <3> QED
      BY <1>3, <1>16, <2>2, <3>2, <3>3, <3>4 DEF Under
  <2>3. CASE pc = "compare"
    <3>1. /\ writes = version /\ From(n)
          /\ \A q \in Page : q > dst => Clean(q) \/ q \in left
      BY <1>3, <2>3 DEF Sound, Under
    <3>2. writes' # version'
      BY <1>3, <1>4, <3>1
    <3>3. d[t] = Blank \/ t \in l
      <4>1. CASE ~EraseFirst
        <5>1. n >= dst
          BY <1>14, <3>1 DEF From
        <5>2. t > dst
          BY <1>2, <1>14, <4>1, <5>1
        <5>3. Clean(t) \/ t \in left
          BY <1>2, <3>1, <5>2
        <5> QED
          BY <1>9, <4>1, <5>3 DEF Clean
      <4> QED
        BY <1>10, <4>1
    <3>4. data'[m] \in saved' \/ m \in left'
      BY <1>21, <3>3
    <3>5. m >= 0
      BY <1>2, <1>14, <1>15 DEF Page
    <3> QED
      BY <1>3, <2>3, <3>2, <3>4, <3>5 DEF Under
  <2>4. CASE pc = "out"
    BY <1>3, <2>4 DEF Under
  <2> QED
    BY <2>1, <2>2, <2>3, <2>4 DEF TypeOK
<1>23. Found(m)'
  <2>1. m >= 0
    BY <1>2, <1>14, <1>15 DEF Page
  <2>2. saved' # {} => data'[m] \in saved' \/ m \in left'
    BY <1>3, <1>15
  <2>3. data'[m] \notin older' \/ m \in left'
    <3>1. v \notin older' /\ Mixed \notin older'
      BY <1>3, <1>4 DEF Mixed
    <3> QED
      BY <1>11, <1>15, <3>1
  <2> QED
    BY <2>1, <2>2, <2>3 DEF Found
<1>24. Sound(m)'
  BY <1>15, <1>17, <1>19, <1>20, <1>22, <1>23 DEF Sound
<1> QED
  BY <1>13, <1>24 DEF SomeSound

\* Power fails between two steps, ...
LEMMA CrashSound ==
    ASSUME TypeOK, NEW n \in Int, Sound(n), Crash
    PROVE  TypeOK' /\ Sound(n)'
<1>1. /\ pc # "out" /\ pc' = "out"
      /\ saved' = IF pc = "compare" \/ (pc = "program" /\ dst = 0) THEN {} ELSE saved
      /\ UNCHANGED <<id, data, left, dst, version, writes, older>>
  BY DEF Crash, sector
<1>2. TypeOK'
  BY <1>1 DEF TypeOK
<1>3. LastPage(n)' /\ CleanBehind(n)' /\ Under(n)'
  BY <1>1 DEF Sound, LastPage, CleanBehind, Clean, Under
<1>4. Numbers' /\ NotAcknowledged'
  BY <1>1 DEF Sound, Numbers, NotAcknowledged
<1>5. Found(n)'
  <2>1. n >= 0 => data'[n] \notin older \/ n \in left
    BY <1>1 DEF Sound, Found
  <2>2. saved' # {} => n >= 0 /\ (data'[n] \in saved' \/ n \in left)
    BY <1>1 DEF Sound, Found, TypeOK
  <2> QED
    BY <1>1, <2>1, <2>2 DEF Found
<1> QED
  BY <1>2, <1>3, <1>4, <1>5 DEF Sound

\* ... while a page is being programmed, ...
LEMMA CrashProgrammingSound ==
    ASSUME TypeOK, NEW n \in Int, Sound(n), CrashProgramming
    PROVE  TypeOK' /\ SomeSound'
<1>1. PICK i \in {id[dst], "partial", "magic"}, d \in {data[dst], Mixed} \cup And(data[dst], version) :
        /\ id[dst] = "magic" => i = "magic"
        /\ id' = [id EXCEPT ![dst] = i]
        /\ data' = [data EXCEPT ![dst] = d]
  BY DEF CrashProgramming
<1>2. /\ pc = "program" /\ pc' = "out" /\ saved' = {}
      /\ UNCHANGED <<dst, version, writes, older, left>>
  BY DEF CrashProgramming
<1>3. /\ 1 <= version /\ version <= writes /\ dst \in Page /\ writes \in Nat /\ version \in Version
      /\ \A w \in older : w < version /\ 1 <= w
      /\ older \subseteq Version
      /\ \A q \in Page : data[q] \in Int /\ data[q] <= writes /\ data[q] # version
  BY <1>2, Sizes DEF Sound, Numbers, TypeOK, Version, Blank, Mixed
<1>4. d \in {data[dst], Mixed, version}
  BY <1>1 DEF And
<1>5. d \in Version \cup {Blank, Mixed} /\ i \in {"blank", "partial", "magic"}
  BY <1>1, <1>3, <1>4 DEF TypeOK
<1>6. /\ id'[dst] = i /\ data'[dst] = d
      /\ \A q \in Page : q # dst => id'[q] = id[q] /\ data'[q] = data[q]
  BY <1>1, <1>3 DEF TypeOK
<1>7. TypeOK'
  BY <1>1, <1>2, <1>3, <1>5 DEF TypeOK
<1>8. /\ n = dst - 1 \/ n = dst \/ (n > dst /\ n \in left)
      /\ \A q \in Page : q > dst => Clean(q) \/ q \in left
      /\ LastPage(n) /\ CleanBehind(n) /\ NotAcknowledged
      /\ n >= 0 => data[n] \notin older \/ n \in left
  BY <1>2 DEF Sound, Under, Found, From
<1>9. n \in Int /\ dst \in Int /\ dst >= 0
  BY <1>3 DEF Page
<1>10. PICK m \in Int : LastPage(m)' /\ (m = dst \/ (m > dst /\ m \in left) \/ (m = n /\ m = dst - 1))
  <2>1. CASE n = dst - 1 /\ i = "magic"
    <3>1. PICK k \in -1 .. Pages - 1 : LastPage(k)'
      BY RunEnds DEF LastPage
    <3>2. id'[dst] = "magic" /\ \A q \in Page : q # dst => id'[q] = id[q]
      BY <1>6, <2>1
    <3>3. k = dst \/ (k > dst /\ k \in left)
      BY <1>3, <1>8, <2>1, <3>1, <3>2, RunGrows, Zenon
    <3>4. k \in Int
      BY <3>1, Sizes
    <3> QED
      BY <3>1, <3>3, <3>4
  <2>2. CASE n = dst - 1 /\ i # "magic"
    <3>1. LastPage(n)'
      BY <1>3, <1>6, <1>8, <1>9, <2>2 DEF LastPage, Page
    <3> QED
      BY <2>2, <3>1
  <2>3. CASE n # dst - 1
    <3>1. n >= dst
      BY <1>8, <1>9, <2>3
    <3>2. id[dst] = "magic"
      BY <1>3, <1>8, <3>1 DEF LastPage
    <3>3. \A q \in Page : id'[q] = id[q]
      BY <1>1, <1>6, <3>2
    <3>4. LastPage(n)'
      BY <1>8, <3>3 DEF LastPage
    <3> QED
      BY <1>8, <2>3, <3>4
  <2> QED
    BY <2>1, <2>2, <2>3
<1>11. CleanBehind(m)'
  <2>1. \A q \in Page : q > dst => Clean(q)' \/ q \in left'
    BY <1>2, <1>6, <1>8, <1>9 DEF Clean, Page
  <2> QED
    BY <1>9, <1>10, <2>1 DEF CleanBehind, Page
<1>12. d <= writes
  BY <1>3, <1>4 DEF Mixed
<1>13. Numbers'
  <2>1. \A w \in older : w <= writes
    BY <1>2 DEF Sound, Numbers
  <2> QED
    BY <1>2, <1>3, <1>6, <1>12, <2>1 DEF Numbers
<1>14. d # data[dst] => d \notin older
  <2>1. Mixed \notin older /\ version \notin older
    BY <1>3 DEF Version, Mixed
  <2> QED
    BY <1>4, <2>1
<1>15. id[dst] # "magic" => d \notin older \/ dst \in left
  BY <1>3, <1>8, <1>14 DEF NotAcknowledged
<1>16. NotAcknowledged'
  <2>1. ASSUME NEW q \in Page, id'[q] # "magic", q \notin left
        PROVE  data'[q] \notin older
    <3>1. CASE q = dst
      BY <1>1, <1>6, <1>15, <2>1, <3>1
    <3>2. CASE q # dst
      BY <1>6, <1>8, <2>1, <3>2 DEF NotAcknowledged
    <3> QED
      BY <3>1, <3>2
  <2> QED
    BY <1>2, <2>1 DEF NotAcknowledged
<1>17. Under(m)'
  BY <1>2 DEF Under
<1>18. Found(m)'
  <2>1. ASSUME m >= 0 PROVE data'[m] \notin older \/ m \in left
    <3>1. CASE m = dst
      <4>1. CASE id[dst] # "magic"
        BY <1>6, <1>15, <3>1, <4>1
      <4>2. CASE id[dst] = "magic"
        <5>1. n >= dst
          <6>1. SUFFICES ASSUME n = dst - 1 PROVE FALSE
            BY <1>8, <1>9
          <6>2. n + 1 = dst
            BY <1>9, <6>1
          <6> QED
            BY <1>3, <1>8, <4>2, <6>2 DEF LastPage
        <5>2. LastPage(n)'
          <6>1. \A q \in Page : id'[q] = id[q]
            BY <1>1, <1>6, <4>2
          <6> QED
            BY <1>8, <6>1 DEF LastPage
        <5>3. m = n
          <6>1. n + 1 \in Page => m < n + 1
            BY <1>9, <1>10, <5>2 DEF LastPage
          <6>2. m + 1 \in Page => n < m + 1
            BY <1>9, <1>10, <5>2 DEF LastPage
          <6>3. n \in -1 .. Pages - 1 /\ m \in -1 .. Pages - 1
            BY <1>10, <5>2 DEF LastPage
          <6> QED
            BY <1>9, <6>1, <6>2, <6>3, Sizes DEF Page
        <5> QED
          BY <1>6, <1>8, <1>14, <2>1, <3>1, <5>3
      <4> QED
        BY <4>1, <4>2
    <3>2. CASE m = n /\ m = dst - 1
      <4>1. m \in Page /\ m # dst
        BY <1>3, <1>9, <2>1, <3>2, Sizes DEF Page
      <4> QED
        BY <1>6, <1>8, <2>1, <3>2, <4>1
    <3> QED
      BY <1>10, <3>1, <3>2
  <2> QED
    BY <1>2, <2>1 DEF Found
<1>19. Sound(m)'
  BY <1>10, <1>11, <1>13, <1>16, <1>17, <1>18 DEF Sound
<1> QED
  BY <1>7, <1>19 DEF SomeSound

\* ... or while the sector is being erased.
LEMMA CrashErasingSound ==
    ASSUME TypeOK, NEW n \in Int, Sound(n), CrashErasing
    PROVE  TypeOK' /\ SomeSound'
<1>1. /\ id' \in [Page -> {"blank", "partial", "magic"}]
      /\ data' \in [Page -> Range(data) \cup {Blank, Mixed}]
      /\ \A p \in Page : data'[p] \in {data[p], Mixed, Blank}
      /\ left' = {p \in Page : id'[p] # "blank" \/ data'[p] # Blank}
      /\ pc = "erase" /\ pc' = "out" /\ saved' = {}
      /\ UNCHANGED <<dst, version, writes, older>>
  BY DEF CrashErasing
<1>2. writes \in Nat /\ \A w \in older : 1 <= w /\ w <= writes
  BY <1>1 DEF Sound, Numbers, TypeOK
<1>3. \A p \in Page : data'[p] \in Version \cup {Blank, Mixed} /\ data'[p] <= writes
  BY <1>1, <1>2 DEF Sound, Numbers, TypeOK, Blank, Mixed
<1>4. TypeOK'
  <2>1. data' \in [Page -> Version \cup {Blank, Mixed}]
    BY <1>1, <1>3
  <2> QED
    BY <1>1, <2>1 DEF TypeOK
<1>5. PICK m \in -1 .. Pages - 1 : LastPage(m)'
  BY RunEnds DEF LastPage
<1>6. m \in Int
  BY <1>5, Sizes
<1>7. CleanBehind(m)'
  BY <1>1 DEF CleanBehind, Clean
<1>8. Numbers'
  BY <1>1, <1>2, <1>3 DEF Numbers
<1>9. NotAcknowledged'
  BY <1>1, <1>2 DEF NotAcknowledged, Blank
<1>10. Under(m)' /\ Found(m)'
  <2>1. m >= 0 => m \in left'
    <3>1. m >= 0 => m \in Page /\ id'[m] = "magic"
      BY <1>5, <1>6, Sizes DEF LastPage, Page
    <3> QED
      BY <1>1, <3>1
  <2> QED
    BY <1>1, <2>1 DEF Under, Found
<1>11. Sound(m)'
  BY <1>5, <1>7, <1>8, <1>9, <1>10 DEF Sound
<1> QED
  BY <1>4, <1>6, <1>11 DEF SomeSound

LEMMA SoundAlways == Spec => [](TypeOK /\ SomeSound)
<1>1. Init => TypeOK /\ SomeSound
  BY InitSound
<1>2. TypeOK /\ SomeSound /\ [Next]_vars => (TypeOK /\ SomeSound)'
  <2> SUFFICES ASSUME TypeOK, SomeSound, [Next]_vars
               PROVE  TypeOK' /\ SomeSound'
    OBVIOUS
  <2>1. PICK n \in Int : Sound(n)
    BY DEF SomeSound
  <2>2. -1 \in Int
    OBVIOUS
  <2>3. CASE FlashWrite
    BY <2>1, <2>3, WriteSound, Zenon DEF SomeSound
  <2>4. CASE FlashErase
    BY <2>1, <2>2, <2>4, EraseSound, Zenon DEF SomeSound
  <2>5. CASE FlashProgram
    BY <2>1, <2>5, ProgramSound, Zenon
  <2>6. CASE Compare
    BY <2>1, <2>6, CompareSound, Zenon DEF SomeSound
  <2>7. CASE UsbFlashWrite
    BY <2>1, <2>7, UsbSound, Zenon
  <2>8. CASE Crash
    BY <2>1, <2>8, CrashSound, Zenon DEF SomeSound
  <2>9. CASE CrashProgramming
    BY <2>1, <2>9, CrashProgrammingSound, Zenon
  <2>10. CASE CrashErasing
    BY <2>1, <2>10, CrashErasingSound, Zenon
  <2>11. CASE UNCHANGED vars
    BY <2>1, <2>11 DEF vars, sector, ghost, TypeOK, SomeSound, Sound, LastPage, CleanBehind,
       Clean, Numbers, NotAcknowledged, Under, From, Found
  <2> QED
    BY <2>3, <2>4, <2>5, <2>6, <2>7, <2>8, <2>9, <2>10, <2>11 DEF Next
<1> QED
  BY <1>1, <1>2, PTL DEF Spec
-----------------------------------------------------------------------------
(* What a restart finds *)

\* Type correctness of the sector and of the calls on it.
THEOREM TypeCorrect == Spec => []TypeOK
<1> QED
  BY SoundAlways, PTL

\* What a PERM that reported success has written is what a restart reads, whatever
\* writes were cut off before and however the PERMs of two terminals overlapped, for
\* every size of the sector; but for a search that ends at a page that an erase cut
\* off has not left blank.
THEOREM ReadsWhatWasSaved == Spec => []ReadBack
<1>1. TypeOK /\ SomeSound => ReadBack
  <2> SUFFICES ASSUME SomeSound, pc = "out", saved # {}
               PROVE  flash_read \in saved \/ flash_find_id \in left
    BY DEF ReadBack
  <2>1. PICK n \in Int : Sound(n)
    BY DEF SomeSound
  <2> QED
    BY <2>1, FindId, FlashRead DEF Sound, Found
<1> QED
  BY <1>1, SoundAlways, PTL

\* Settings that an acknowledged PERM has replaced come back, at any moment and after
\* any crash, from one place only: a page that an erase cut off has left there.
THEOREM ReadsNothingOlder == Spec => []NothingOlder
<1>1. TypeOK /\ SomeSound => NothingOlder
  <2> SUFFICES ASSUME TypeOK, SomeSound, flash_read \in older
               PROVE  flash_find_id \in left
    BY DEF NothingOlder
  <2>1. PICK n \in Int : Sound(n)
    BY DEF SomeSound
  <2>2. Unknown \notin older
    BY DEF Unknown, TypeOK, Version
  <2> QED
    BY <2>1, <2>2, FindId, FlashRead DEF Sound, Found
<1> QED
  BY <1>1, SoundAlways, PTL
=============================================================================
