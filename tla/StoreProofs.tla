---------------------------- MODULE StoreProofs ----------------------------
(***************************************************************************)
(* What the stores promise of their files, for every set of records, rules *)
(* and events, wherever a write is cut off and however often the process   *)
(* dies.                                                                   *)
(*                                                                         *)
(* Hash chains: a file that loads has every entry that was acknowledged,   *)
(* for the entry of an append is one longer than what the file held, and   *)
(* the number of an entry is the length of the chain up to it.             *)
(*                                                                         *)
(* Failure memory: a rule that nobody wrote is mild, or critical and not   *)
(* in force before somebody put it there; this holds of what is in memory  *)
(* and of what the file gives back.                                        *)
(*                                                                         *)
(* Session: a turn counts as answered once both its lines are written, the *)
(* file is the end of all lines there ever were, and only the first append *)
(* in the chain has read what it will put back.                            *)
(*                                                                         *)
(* Environment file: a save that opened its own temporary file has it to   *)
(* itself until the rename, and one that overlaps no other finds the file  *)
(* in a backup.  Everything saved was rendered from a checked              *)
(* configuration, whose tokens are those of setup or of a gateway that ran *)
(* with them; it differs from a default setup only in what its provider    *)
(* wants, which it has.                                                    *)
(***************************************************************************)
EXTENDS MCStores, SubsequenceTheorems, WellFoundedInduction, TLAPS

-----------------------------------------------------------------------------

(* Every set of natural numbers with an element has a least one. *)
LEMMA LeastNumber ==
  ASSUME NEW T \in SUBSET Nat, T # {}
  PROVE  \E m \in T : \A k \in T : m <= k
<1>1. PICK m \in T : \A k \in T : ~(<<k, m>> \in OpToRel(<, Nat))
  BY NatLessThanWellFounded, WFMin
<1>2. ASSUME NEW k \in T PROVE m <= k
  <2>1. ~(k < m)
    BY <1>1, <1>2 DEF OpToRel
  <2> QED BY <2>1
<1> QED BY <1>2

(* Appending, and taking away what was appended. *)
LEMMA FrontLastOfAppend ==
  ASSUME NEW S, NEW s \in Seq(S), NEW e \in S
  PROVE  /\ Append(s, e) \in Seq(S) /\ Len(Append(s, e)) = Len(s) + 1
         /\ Append(s, e)[Len(s) + 1] = e /\ \A i \in 1 .. Len(s) : Append(s, e)[i] = s[i]
         /\ DOMAIN Append(s, e) = 1 .. Len(s) + 1
         /\ Front(Append(s, e)) = s /\ Last(Append(s, e)) = e
<1>1. /\ Append(s, e) \in Seq(S) /\ Len(Append(s, e)) = Len(s) + 1
      /\ Append(s, e)[Len(s) + 1] = e /\ \A i \in 1 .. Len(s) : Append(s, e)[i] = s[i]
  BY AppendProperties
<1>2. Front(Append(s, e)) = s
  BY <1>1 DEF Front
<1> QED BY <1>1, <1>2 DEF Last


-----------------------------------------------------------------------------
(* An entry closes at least its own record. *)
Entries == Seq(Record) \ {<< >>}
Lines == [text: {Torn} \cup Entries, ended: BOOLEAN]
LastOf(s) == IF s = << >> THEN << >> ELSE Last(s)

(* No entry is further down its history than max_entries. *)
Short(ls) == \A i \in DOMAIN ls : ls[i].text # Torn => Len(ls[i].text) <= MaxEntries

ChainInv ==
  /\ store \in Store /\ up \in BOOLEAN /\ mem \in Seq(Entries) /\ file \in Seq(Lines)
  /\ acked \subseteq Entries
  /\ \A i \in DOMAIN file : i < Len(file) => file[i].ended
  /\ ~up => mem = << >>
  /\ up => Verifies(mem) /\ acked \subseteq ToSet(mem)
  /\ Loads(file) => acked \subseteq ToSet(Contents(file))
  /\ store # "audit" => (up => Len(mem) <= MaxEntries) /\ Short(file)

(* All but the last. *)
LEMMA FrontFacts ==
  ASSUME NEW S, NEW s \in Seq(S), s # << >>
  PROVE  /\ Front(s) \in Seq(S) /\ Len(Front(s)) = Len(s) - 1
         /\ \A i \in 1 .. Len(s) - 1 : Front(s)[i] = s[i]
<1>1. Len(s) \in Nat \ {0} /\ \A i \in 1 .. Len(s) - 1 : s[i] \in S
  OBVIOUS
<1>0. PICK m \in Nat \ {0} : m = Len(s)
  BY <1>1
<1>2. PICK n \in Nat : n = Len(s) - 1
  <2>1. m - 1 \in Nat
    OBVIOUS
  <2> QED BY <1>0, <2>1
<1>3. /\ SubSeq(s, 1, n) \in Seq(S) /\ Len(SubSeq(s, 1, n)) = IF 1 <= n THEN n - 1 + 1 ELSE 0
      /\ \A i \in 1 .. n - 1 + 1 : SubSeq(s, 1, n)[i] = s[1 + i - 1]
  BY <1>1, <1>2, SubSeqProperties
<1>4. n - 1 + 1 = n /\ \A i \in 1 .. n : 1 + i - 1 = i
  OBVIOUS
<1> QED BY <1>2, <1>3, <1>4 DEF Front

(* A chain with one more entry. *)
LEMMA OneMore ==
  ASSUME NEW s \in Seq(Entries), NEW e \in Entries
  PROVE  /\ Verifies(Append(s, e)) <=> Verifies(s) /\ Front(e) = LastOf(s)
         /\ ToSet(Append(s, e)) = ToSet(s) \cup {e}
<1>1. /\ Append(s, e) \in Seq(Entries) /\ Len(s) \in Nat /\ DOMAIN s = 1 .. Len(s)
      /\ Append(s, e)[Len(s) + 1] = e /\ \A i \in 1 .. Len(s) : Append(s, e)[i] = s[i]
      /\ DOMAIN Append(s, e) = 1 .. Len(s) + 1
  BY FrontLastOfAppend
<1>2. s = << >> <=> Len(s) = 0
  OBVIOUS
<1>3. ToSet(Append(s, e)) = ToSet(s) \cup {e}
  BY <1>1 DEF ToSet
<1>4. PICK t : t = Append(s, e)
  OBVIOUS
<1>5. ASSUME Verifies(t) PROVE Verifies(s) /\ Front(e) = LastOf(s)
  <2>1. ASSUME NEW i \in DOMAIN s PROVE Front(s[i]) = IF i = 1 THEN << >> ELSE s[i - 1]
    <3>1. /\ i \in DOMAIN t /\ t[i] = s[i] /\ (i # 1 => t[i - 1] = s[i - 1])
      BY <1>1, <1>4
    <3>2. Front(t[i]) = IF i = 1 THEN << >> ELSE t[i - 1]
      BY <1>5, <3>1 DEF Verifies
    <3> QED BY <3>1, <3>2
  <2>2. Len(s) + 1 \in DOMAIN t /\ t[Len(s) + 1] = e
    BY <1>1, <1>4
  <2>3. Front(e) = IF Len(s) + 1 = 1 THEN << >> ELSE t[Len(s) + 1 - 1]
    BY <1>5, <2>2 DEF Verifies
  <2>4. Len(s) + 1 - 1 = Len(s) /\ (Len(s) # 0 => t[Len(s)] = s[Len(s)])
    <3>1. PICK n \in Nat : n = Len(s)
      BY <1>1
    <3>2. n + 1 - 1 = n /\ (n # 0 => n \in 1 .. n)
      OBVIOUS
    <3>3. \A i \in 1 .. n : t[i] = s[i]
      BY <1>1, <1>4, <3>1
    <3> QED BY <3>1, <3>2, <3>3
  <2> QED BY <1>1, <1>2, <2>1, <2>3, <2>4 DEF Verifies, LastOf, Last
<1>6. Verifies(s) /\ Front(e) = LastOf(s) => Verifies(t)
  BY <1>1, <1>2, <1>4 DEF Verifies, LastOf, Last
<1> QED BY <1>3, <1>4, <1>5, <1>6

(* In a chain that verifies an entry's index is its length. *)
LEMMA IndexIsLength ==
  ASSUME NEW s \in Seq(Entries), Verifies(s)
  PROVE  \A i \in DOMAIN s : Len(s[i]) = i
<1> DEFINE Off == {i \in DOMAIN s : Len(s[i]) # i}
<1>1. SUFFICES ASSUME Off # {} PROVE FALSE
  OBVIOUS
<1>2. Off \in SUBSET Nat
  OBVIOUS
<1>3. PICK m \in Off : \A k \in Off : m <= k
  BY <1>1, <1>2, LeastNumber
<1>4. m \in DOMAIN s /\ m \in Nat /\ s[m] \in Seq(Record) /\ s[m] # << >>
  BY <1>3 DEF Entries
<1>5. Len(Front(s[m])) = Len(s[m]) - 1 /\ Len(s[m]) \in Nat /\ Len(s[m]) # 0
  <2>1. PICK e \in Seq(Record) : e = s[m] /\ e # << >>
    BY <1>4
  <2>2. Len(e) \in Nat /\ (e = << >> <=> Len(e) = 0)
    OBVIOUS
  <2>3. Front(e) \in Seq(Record) /\ Len(Front(e)) = Len(e) - 1
    BY <2>1, FrontFacts
  <2> QED BY <2>1, <2>2, <2>3
<1>6. CASE m = 1
  <2>1. Front(s[m]) = << >>
    BY <1>4, <1>6 DEF Verifies
  <2> QED BY <1>3, <1>5, <1>6, <2>1
<1>7. CASE m # 1
  <2>1. Front(s[m]) = s[m - 1] /\ m - 1 \in DOMAIN s
    BY <1>4, <1>7 DEF Verifies
  <2>2. Len(s[m - 1]) = m - 1
    BY <1>3, <1>4, <2>1
  <2> QED BY <1>3, <1>4, <1>5, <2>1, <2>2
<1> QED BY <1>6, <1>7

(* A file that parses is a sequence of entries. *)
LEMMA ContentsFacts ==
  ASSUME NEW ls \in Seq(Lines), Parses(ls)
  PROVE  Contents(ls) \in Seq(Entries) /\ Len(Contents(ls)) = Len(ls)
<1>1. Len(ls) \in Nat /\ DOMAIN ls = 1 .. Len(ls) /\ \A i \in 1 .. Len(ls) : ls[i] \in Lines
  OBVIOUS
<1>2. \A x \in Lines : x.text = Torn \/ x.text \in Entries
  BY DEF Lines
<1>3. \A i \in 1 .. Len(ls) : ls[i].text \in Entries
  BY <1>1, <1>2 DEF Parses
<1> QED BY <1>1, <1>3 DEF Contents

(* What a write leaves loads only if what was there loads and the line is the
   next one. *)
LEMMA LandFacts ==
  ASSUME NEW ls \in Seq(Lines), NEW l \in Lines,
         \A i \in DOMAIN ls : i < Len(ls) => ls[i].ended
  PROVE  /\ Land(ls, l) \in Seq(Lines)
         /\ \A i \in DOMAIN Land(ls, l) : i < Len(Land(ls, l)) => Land(ls, l)[i].ended
         /\ Short(ls) /\ (l.text # Torn => Len(l.text) <= MaxEntries) => Short(Land(ls, l))
         /\ Loads(Land(ls, l)) =>
              /\ Loads(ls) /\ l.text \in Entries /\ l.text # Torn
              /\ Front(l.text) = LastOf(Contents(ls))
              /\ ToSet(Contents(Land(ls, l))) = ToSet(Contents(ls)) \cup {l.text}
<1>0. Len(ls) \in Nat /\ DOMAIN ls = 1 .. Len(ls) /\ (ls = << >> <=> Len(ls) = 0)
  OBVIOUS
<1>1. CASE ls # << >> /\ ~Last(ls).ended
  <2>1. Row(Torn, l.ended) \in Lines /\ Row(Torn, l.ended).text = Torn
    BY DEF Row, Lines
  <2>2. PICK f, t : f = Front(ls) /\ t = Row(Torn, l.ended)
    OBVIOUS
  <2>3. Land(ls, l) = Append(f, t)
    BY <1>1, <2>2 DEF Land
  <2>4. f \in Seq(Lines) /\ Len(f) = Len(ls) - 1 /\ \A i \in 1 .. Len(f) : f[i] = ls[i]
    BY <1>0, <1>1, <2>2 DEF Front
  <2>5. /\ Append(f, t) \in Seq(Lines) /\ Len(Append(f, t)) = Len(f) + 1
        /\ Append(f, t)[Len(f) + 1] = t /\ \A i \in 1 .. Len(f) : Append(f, t)[i] = f[i]
        /\ DOMAIN Append(f, t) = 1 .. Len(f) + 1
    BY <2>1, <2>2, <2>4, FrontLastOfAppend
  <2>6. ~Parses(Append(f, t))
    BY <2>1, <2>2, <2>4, <2>5 DEF Parses
  <2>7. PICK u : u = Append(f, t)
    OBVIOUS
  <2>b. PICK n \in Nat : n = Len(f) /\ n + 1 = Len(ls)
    <3>1. PICK k \in Nat : k = Len(ls)
      BY <1>0
    <3>2. k # 0 /\ k - 1 \in Nat /\ (k - 1) + 1 = k
      BY <1>0, <1>1, <3>1
    <3> QED BY <2>4, <3>1, <3>2
  <2>8. u \in Seq(Lines) /\ Len(u) = n + 1 /\ DOMAIN u = 1 .. n + 1 /\ ~Loads(u)
    BY <2>5, <2>6, <2>7, <2>b DEF Loads
  <2>9. \A i \in 1 .. n : i \in DOMAIN ls /\ i < Len(ls) /\ u[i] = ls[i]
    <3>1. \A i \in 1 .. n : i \in 1 .. n + 1 /\ i < n + 1
      OBVIOUS
    <3>2. \A i \in 1 .. n : u[i] = ls[i]
      BY <2>4, <2>5, <2>7, <2>b
    <3> QED BY <1>0, <2>b, <3>1, <3>2
  <2>10. \A i \in 1 .. n + 1 : i \in 1 .. n \/ (i = n + 1 /\ ~(i < n + 1))
    OBVIOUS
  <2>11. \A i \in 1 .. n + 1 : i < n + 1 => u[i].ended
    BY <2>9, <2>10
  <2>c. Short(ls) => Short(u)
    <3>1. u[n + 1].text = Torn
      BY <2>1, <2>2, <2>5, <2>7, <2>b
    <3> QED BY <2>8, <2>9, <2>10, <3>1 DEF Short
  <2> QED BY <2>3, <2>7, <2>8, <2>11, <2>c
<1>2. CASE ~(ls # << >> /\ ~Last(ls).ended)
  <2>1. Land(ls, l) = Append(ls, l)
    BY <1>2 DEF Land
  <2>2. /\ Append(ls, l) \in Seq(Lines) /\ Len(Append(ls, l)) = Len(ls) + 1
        /\ Append(ls, l)[Len(ls) + 1] = l /\ \A i \in 1 .. Len(ls) : Append(ls, l)[i] = ls[i]
        /\ DOMAIN Append(ls, l) = 1 .. Len(ls) + 1
    BY FrontLastOfAppend
  <2>3. \A i \in DOMAIN Append(ls, l) : i < Len(Append(ls, l)) => Append(ls, l)[i].ended
    BY <1>0, <1>2, <2>2 DEF Last
  <2>4. ASSUME Loads(Append(ls, l))
        PROVE  /\ Loads(ls) /\ l.text \in Entries /\ l.text # Torn
               /\ Front(l.text) = LastOf(Contents(ls))
               /\ ToSet(Contents(Append(ls, l))) = ToSet(Contents(ls)) \cup {l.text}
    <3>1. Parses(ls) /\ l.text # Torn
      BY <1>0, <2>2, <2>4 DEF Loads, Parses
    <3>2. l.text \in Entries
      BY <3>1 DEF Lines
    <3>3. Contents(ls) \in Seq(Entries) /\ Len(Contents(ls)) = Len(ls)
      BY <3>1, ContentsFacts
    <3>4. Contents(Append(ls, l)) = Append(Contents(ls), l.text)
      <4>1. PICK c : c = Contents(ls)
        OBVIOUS
      <4>2. c \in Seq(Entries) /\ Len(c) = Len(ls) /\ \A i \in 1 .. Len(ls) : c[i] = ls[i].text
        BY <1>0, <3>3, <4>1 DEF Contents
      <4>3. /\ Append(c, l.text) \in Seq(Entries) /\ Len(Append(c, l.text)) = Len(ls) + 1
            /\ Append(c, l.text)[Len(ls) + 1] = l.text
            /\ \A i \in 1 .. Len(ls) : Append(c, l.text)[i] = c[i]
        BY <3>2, <4>2, FrontLastOfAppend
      <4>4. PICK d : d = Contents(Append(ls, l))
        OBVIOUS
      <4>5. d = [i \in 1 .. Len(ls) + 1 |-> Append(ls, l)[i].text]
        BY <2>2, <4>4 DEF Contents
      <4>6. d \in Seq(Entries) /\ Len(d) = Len(ls) + 1
        BY <2>2, <2>4, <4>4, ContentsFacts DEF Loads
      <4>7. \A i \in 1 .. Len(ls) + 1 : d[i] = Append(c, l.text)[i]
        BY <1>0, <2>2, <4>2, <4>3, <4>5
      <4>8. d = Append(c, l.text)
        BY <1>0, <4>3, <4>6, <4>7, SeqEqual
      <4> QED BY <4>1, <4>4, <4>8
    <3>5. Verifies(Append(Contents(ls), l.text))
      BY <2>4, <3>4 DEF Loads
    <3>6. /\ Verifies(Contents(ls)) /\ Front(l.text) = LastOf(Contents(ls))
          /\ ToSet(Append(Contents(ls), l.text)) = ToSet(Contents(ls)) \cup {l.text}
      BY <3>2, <3>3, <3>5, OneMore
    <3> QED BY <3>1, <3>2, <3>4, <3>6 DEF Loads
  <2>5. Short(ls) /\ (l.text # Torn => Len(l.text) <= MaxEntries) => Short(Append(ls, l))
    BY <1>0, <2>2 DEF Short
  <2> QED BY <2>1, <2>2, <2>3, <2>4, <2>5
<1> QED BY <1>1, <1>2

(* The last entry of a chain is as long as the chain. *)
LEMMA LastIsLongest ==
  ASSUME NEW s \in Seq(Entries), Verifies(s)
  PROVE  Len(LastOf(s)) = Len(s) /\ (s # << >> => Last(s) \in Entries /\ Len(Last(s)) = Len(s))
<1>1. Len(s) \in Nat /\ (s = << >> <=> Len(s) = 0) /\ Len(<< >>) = 0
  OBVIOUS
<1>2. CASE s # << >>
  <2>1. Len(s) \in DOMAIN s /\ s[Len(s)] \in Entries
    BY <1>1, <1>2
  <2>2. Len(s[Len(s)]) = Len(s)
    BY <2>1, IndexIsLength
  <2> QED BY <1>2, <2>1, <2>2 DEF LastOf, Last
<1> QED BY <1>1, <1>2 DEF LastOf

(* What comes next closes what there is. *)
LEMMA EntryFacts ==
  ASSUME ChainInv, up, NEW record \in Record
  PROVE  /\ Entry(record) \in Entries /\ Front(Entry(record)) = LastOf(mem)
         /\ Len(Entry(record)) = Len(mem) + 1
<1>1. LastOf(mem) \in Seq(Record) /\ Len(LastOf(mem)) = Len(mem)
  BY LastIsLongest DEF ChainInv, LastOf, Last, Entries
<1>2. PICK l \in Seq(Record) : l = LastOf(mem)
  BY <1>1
<1>3. /\ Append(l, record) \in Seq(Record) /\ Append(l, record) # << >>
      /\ Front(Append(l, record)) = l /\ Len(Append(l, record)) = Len(l) + 1
  BY FrontLastOfAppend, AppendProperties
<1>4. Entry(record) = Append(l, record)
  BY <1>2 DEF Entry, LastOf
<1> QED BY <1>1, <1>2, <1>3, <1>4 DEF Entries

(* What a write leaves, whether it succeeds, throws or is cut off: what was
   there, a file that does not load, or the entry in its place. *)
LEMMA WriteFacts ==
  ASSUME ChainInv, up, HasRoom, NEW record \in Record, file' \in Landings(Entry(record))
  PROVE  /\ file' \in Seq(Lines) /\ \A i \in DOMAIN file' : i < Len(file') => file'[i].ended
         /\ store # "audit" => Short(file')
         /\ Loads(file') => /\ Loads(file)
                            /\ \/ file' = file
                               \/ ToSet(Contents(file'))
                                    = ToSet(Contents(file)) \cup {Entry(record)}
         /\ file' = Written(Entry(record)) /\ Loads(file') => Entry(record) \in ToSet(Contents(file'))
<1>0. PICK e : e = Entry(record)
  OBVIOUS
<1>1. e \in Entries /\ (store # "audit" => Len(e) <= MaxEntries)
  <2>1. Len(mem) \in Nat /\ (store # "audit" => Len(mem) + 1 <= MaxEntries)
    BY ChainAssumption DEF ChainInv, HasRoom
  <2> QED BY <1>0, <2>1, EntryFacts
<1>2. /\ file \in Seq(Lines) /\ (\A i \in DOMAIN file : i < Len(file) => file[i].ended)
      /\ store # "audit" => Short(file)
  BY DEF ChainInv
<1>3. ASSUME NEW l \in Lines, l.text \in {e, Torn}, file' = Land(file, l)
      PROVE  /\ file' \in Seq(Lines) /\ \A i \in DOMAIN file' : i < Len(file') => file'[i].ended
             /\ store # "audit" => Short(file')
             /\ Loads(file') => /\ Loads(file)
                                /\ ToSet(Contents(file')) = ToSet(Contents(file)) \cup {e}
  <2>1. /\ Land(file, l) \in Seq(Lines)
        /\ \A i \in DOMAIN Land(file, l) : i < Len(Land(file, l)) => Land(file, l)[i].ended
        /\ Short(file) /\ (l.text # Torn => Len(l.text) <= MaxEntries) => Short(Land(file, l))
        /\ Loads(Land(file, l)) =>
              /\ Loads(file) /\ l.text # Torn
              /\ ToSet(Contents(Land(file, l))) = ToSet(Contents(file)) \cup {l.text}
    BY <1>2, LandFacts
  <2> QED BY <1>1, <1>2, <1>3, <2>1
<1>4. Row(e, TRUE) \in Lines /\ Row(e, FALSE) \in Lines /\ Row(Torn, FALSE) \in Lines
  BY <1>1 DEF Row, Lines
<1>5. Row(e, TRUE).text = e /\ Row(e, FALSE).text = e /\ Row(Torn, FALSE).text = Torn
  BY DEF Row
<1>6. file' = file \/ \E l \in Lines : l.text \in {e, Torn} /\ file' = Land(file, l)
  BY <1>0, <1>4, <1>5 DEF Landings, Written
<1>7. file' = Written(e) => \E l \in Lines : l.text \in {e, Torn} /\ file' = Land(file, l)
  BY <1>4, <1>5 DEF Written
<1>8. CASE \E l \in Lines : l.text \in {e, Torn} /\ file' = Land(file, l)
  BY <1>0, <1>3, <1>8
<1>9. CASE file' = file /\ file' # Written(e)
  BY <1>0, <1>2, <1>9
<1> QED BY <1>6, <1>7, <1>8, <1>9

(* A store that appends, or fails to. *)
LEMMA AppendingKeeps ==
  ASSUME ChainInv, NEW record \in Record, AppendEntry(record) \/ FailEntry(record)
  PROVE  ChainInv'
<1>0. PICK e : e = Entry(record)
  OBVIOUS
<1>1. /\ up /\ HasRoom /\ file' \in Landings(e) /\ UNCHANGED <<store, up>>
      /\ \/ mem' = Append(mem, e)
         \/ mem' = mem /\ acked' = acked
      /\ \/ acked' = acked
         \/ acked' = acked \cup {e} /\ file' = Written(e)
  BY <1>0 DEF AppendEntry, FailEntry, Landings
<1>2. e \in Entries /\ Front(e) = LastOf(mem)
  BY <1>0, <1>1, EntryFacts
<1>3. /\ Append(mem, e) \in Seq(Entries) /\ Verifies(Append(mem, e))
      /\ ToSet(Append(mem, e)) = ToSet(mem) \cup {e}
      /\ Len(Append(mem, e)) = Len(mem) + 1
  BY <1>1, <1>2, OneMore, FrontLastOfAppend DEF ChainInv
<1>4. /\ mem' \in Seq(Entries) /\ Verifies(mem') /\ acked' \subseteq ToSet(mem')
      /\ acked' \subseteq Entries /\ (store # "audit" => Len(mem') <= MaxEntries)
  <2>1. CASE mem' = Append(mem, e)
    BY <1>1, <1>2, <1>3, <2>1, ChainAssumption DEF ChainInv, HasRoom
  <2>2. CASE mem' = mem /\ acked' = acked
    BY <1>1, <2>2 DEF ChainInv
  <2> QED BY <1>1, <2>1, <2>2
<1>5. /\ file' \in Seq(Lines) /\ \A i \in DOMAIN file' : i < Len(file') => file'[i].ended
      /\ store # "audit" => Short(file')
      /\ Loads(file') => /\ Loads(file)
                         /\ \/ file' = file
                            \/ ToSet(Contents(file')) = ToSet(Contents(file)) \cup {e}
      /\ file' = Written(e) /\ Loads(file') => e \in ToSet(Contents(file'))
  BY <1>0, <1>1, WriteFacts
<1>6. Loads(file') => acked' \subseteq ToSet(Contents(file'))
  BY <1>1, <1>5 DEF ChainInv
<1> QED BY <1>1, <1>4, <1>5, <1>6 DEF ChainInv

(* A process that dies, perhaps in a write, and one that starts. *)
LEMMA RestartingKeeps ==
  ASSUME ChainInv, CrashStore \/ BootStore
  PROVE  ChainInv'
<1>1. CASE CrashStore
  <2>1. /\ up /\ up' = FALSE /\ mem' = << >> /\ UNCHANGED <<store, acked>>
        /\ \/ file' = file
           \/ HasRoom /\ \E record \in Record : file' \in Landings(Entry(record))
    BY <1>1 DEF CrashStore
  <2>2. /\ file' \in Seq(Lines) /\ \A i \in DOMAIN file' : i < Len(file') => file'[i].ended
        /\ store # "audit" => Short(file')
        /\ Loads(file') => acked \subseteq ToSet(Contents(file'))
    <3>1. CASE file' = file
      BY <3>1 DEF ChainInv
    <3>2. CASE HasRoom /\ \E record \in Record : file' \in Landings(Entry(record))
      BY <2>1, <3>2, WriteFacts DEF ChainInv
    <3> QED BY <2>1, <3>1, <3>2
  <2>3. mem' \in Seq(Entries)
    BY <2>1
  <2> QED BY <2>1, <2>2, <2>3 DEF ChainInv
<1>2. CASE BootStore
  <2>1. /\ ~up /\ Loads(file) /\ up' = TRUE /\ mem' = Contents(file)
        /\ UNCHANGED <<store, file, acked>>
    BY <1>2 DEF BootStore
  <2>2. mem' \in Seq(Entries) /\ Len(mem') = Len(file) /\ Verifies(mem')
    BY <2>1, ContentsFacts DEF ChainInv, Loads
  <2>3. store # "audit" => Len(mem') <= MaxEntries
    <3>1. SUFFICES ASSUME store # "audit", mem' # << >> PROVE Len(mem') <= MaxEntries
      BY ChainAssumption
    <3>2. Len(Last(mem')) = Len(mem') /\ Len(file) \in DOMAIN file
      BY <2>2, <3>1, LastIsLongest DEF ChainInv
    <3>3. Last(mem') = file[Len(file)].text /\ file[Len(file)].text # Torn
      BY <2>1, <2>2, <3>2 DEF Last, Contents, Loads, Parses
    <3> QED BY <3>1, <3>2, <3>3 DEF ChainInv, Short
  <2> QED BY <2>1, <2>2, <2>3 DEF ChainInv
<1> QED BY <1>1, <1>2

(* An operator who cuts off what does not load. *)
LEMMA RepairKeeps ==
  ASSUME ChainInv, NEW n \in 0 .. Len(file) - 1, Repair(n)
  PROVE  ChainInv'
<1>1. /\ ~up /\ file' = [i \in 1 .. n |-> Row(file[i].text, TRUE)]
      /\ acked' = acked \cap ToSet(Contents(file')) /\ UNCHANGED <<store, up, mem>>
  BY DEF Repair
<1>2. n \in Nat /\ \A i \in 1 .. n : i \in DOMAIN file /\ file[i] \in Lines
  BY DEF ChainInv
<1>3. \A x \in Lines : /\ Row(x.text, TRUE) \in Lines /\ Row(x.text, TRUE).text = x.text
                       /\ Row(x.text, TRUE).ended
  BY DEF Lines, Row
<1>4. /\ file' \in Seq(Lines) /\ DOMAIN file' = 1 .. n
      /\ \A i \in 1 .. n : file'[i].ended /\ file'[i].text = file[i].text
  <2>1. \A i \in 1 .. n : /\ Row(file[i].text, TRUE) \in Lines /\ Row(file[i].text, TRUE).ended
                          /\ Row(file[i].text, TRUE).text = file[i].text
    BY <1>2, <1>3
  <2>2. DOMAIN file' = 1 .. n /\ \A i \in 1 .. n : file'[i] = Row(file[i].text, TRUE)
    BY <1>1
  <2>3. file' \in [1 .. n -> Lines]
    BY <1>1, <2>1
  <2>4. file' \in Seq(Lines)
    BY <1>2, <2>3
  <2> QED BY <2>1, <2>2, <2>4
<1>5. store # "audit" => Short(file')
  BY <1>2, <1>4 DEF ChainInv, Short
<1> QED BY <1>1, <1>4, <1>5 DEF ChainInv

(* A new file holds nothing. *)
LEMMA ChainInvInit == ChainInit => ChainInv
<1> SUFFICES ASSUME ChainInit PROVE ChainInv
  OBVIOUS
<1>1. /\ store \in Store /\ up = TRUE /\ mem = << >> /\ file = << >> /\ acked = {}
      /\ mem \in Seq(Entries) /\ file \in Seq(Lines) /\ DOMAIN mem = {} /\ DOMAIN file = {}
      /\ Len(mem) = 0
  BY DEF ChainInit
<1> QED BY <1>1, ChainAssumption DEF ChainInv, Verifies, Short

(* Every step keeps the invariant. *)
LEMMA ChainInvStep == ChainInv /\ [ChainNext]_chainVars => ChainInv'
<1> SUFFICES ASSUME ChainInv, [ChainNext]_chainVars PROVE ChainInv'
  OBVIOUS
<1>1. CASE UNCHANGED chainVars
  BY <1>1 DEF ChainInv, chainVars, Verifies, Short, Loads, Parses
<1> QED BY <1>1, AppendingKeeps, RestartingKeeps, RepairKeeps DEF ChainNext

(* The invariant holds in every reachable state. *)
THEOREM ChainIsConsistent == ChainSpec => []ChainInv
BY ChainInvInit, ChainInvStep, PTL DEF ChainSpec

(* Memory and file hold entries, or lines that do not parse (audit.ts,
   complete-history/store.ts, long-term-memory/store.ts). *)
THEOREM ChainTypes == ChainSpec => []ChainTypeOK
<1>1. ChainInv => ChainTypeOK
  <2> SUFFICES ASSUME ChainInv PROVE ChainTypeOK
    OBVIOUS
  <2>1. Seq(Entries) \subseteq Seq(Seq(Record))
    BY SeqMonotonic DEF Entries
  <2>2. Lines \subseteq [text: {Torn} \cup Seq(Record), ended: BOOLEAN]
    BY DEF Lines, Entries
  <2>3. Seq(Lines) \subseteq Seq([text: {Torn} \cup Seq(Record), ended: BOOLEAN])
    BY <2>2, SeqMonotonic
  <2> QED BY <2>1, <2>3 DEF ChainInv, ChainTypeOK, Entries
<1> QED BY <1>1, ChainIsConsistent, PTL

(* A running store holds one history in order, with every entry it ever
   acknowledged unless an operator cut it, whatever writes threw or were torn
   and wherever the process was killed (append, capture, loadFromFile,
   verify). *)
THEOREM ChainKeepsWord == ChainSpec => []ChainKeepsItsWord
<1>1. ChainInv => ChainKeepsItsWord
  BY DEF ChainInv, ChainKeepsItsWord, LiveChainVerifies, AcknowledgedSurvive
<1> QED BY <1>1, ChainIsConsistent, PTL

(* No crash and no failed write takes what the memory or the complete history
   holds of its file beyond max_entries; the file itself may be longer by the
   lines whose writes failed (capture, append, loadFromFile). *)
THEOREM MaxEntriesHolds == ChainSpec => []WithinMaxEntries
<1>1. ChainInv => WithinMaxEntries
  BY DEF ChainInv, WithinMaxEntries
<1> QED BY <1>1, ChainIsConsistent, PTL

(* A broken file stays broken until the process is down and an operator sees
   to it: no append makes it load again (appendFileSync, verify). *)
THEOREM BreaksStay == ChainSpec => BreakStays
<1>1. ASSUME ChainInv, [ChainNext]_chainVars, ~Loads(file) PROVE ~Loads(file') \/ ~up
  <2> SUFFICES ASSUME up PROVE ~Loads(file')
    OBVIOUS
  <2>1. CASE file' = file
    BY <1>1, <2>1 DEF Loads, Parses, Verifies, Contents
  <2>2. CASE HasRoom /\ \E record \in Record : file' \in Landings(Entry(record))
    BY <1>1, <2>2, WriteFacts
  <2>3. \A record \in Record :
          AppendEntry(record) \/ FailEntry(record) => HasRoom /\ file' \in Landings(Entry(record))
    BY DEF AppendEntry, FailEntry, Landings
  <2>4. CASE CrashStore
    BY <2>1, <2>2, <2>4 DEF CrashStore
  <2>5. ~BootStore /\ \A n : ~Repair(n)
    BY DEF BootStore, Repair
  <2>6. CASE UNCHANGED chainVars
    BY <2>1, <2>6 DEF chainVars
  <2> QED BY <1>1, <2>2, <2>3, <2>4, <2>5, <2>6 DEF ChainNext
<1>2. ChainInv /\ [ChainNext]_chainVars => [~Loads(file) => ~Loads(file') \/ ~up]_chainVars
  BY <1>1
<1> QED BY <1>2, ChainIsConsistent, PTL DEF ChainSpec, BreakStays

-----------------------------------------------------------------------------
(* The failure memory. *)

Mild == {"warn", "downrank"}

(* A rule nobody wrote stops nothing unless it is critical, and not before it
   was put into force. *)
Earned(r, ruled) ==
  r.from # "caller" => /\ r.policy \in Mild \/ r.severity = "critical"
                       /\ Enforceable(r.state) => r.policy \in Mild \/ ruled

Stored(s, ruled) ==
  /\ DOMAIN s \subseteq Rule
  /\ \A id \in DOMAIN s : s[id] \in Signatures /\ Earned(s[id], id \in ruled)

FailureInv ==
  /\ aged \subseteq Rule /\ returned \subseteq Rule /\ loaded \in BOOLEAN /\ emptied \in BOOLEAN
  /\ Stored(rules, ruledOn)
  /\ snapshot # CutWrite => Stored(snapshot, ruledOn)
  /\ IF loaded THEN returned \subseteq DOMAIN rules ELSE DOMAIN rules = {}
  /\ emptied => DOMAIN snapshot = {}
  /\ snapshot # CutWrite => emptied \/ returned \subseteq DOMAIN snapshot

(* The policy of a failure the store has seen is mild or that of a critical
   one, and words alone are always mild. *)
LEMMA ExtractedFacts ==
  ASSUME NEW event \in DOMAIN Extracted
  PROVE  LET f == Extracted[event]
         IN /\ f.severity \in Severity /\ f.confidence \in 0 .. 100 /\ f.level \in Alike
            /\ DefaultSuppressionPolicy(f) \in Mild \cup {"require_approval"}
            /\ DefaultSuppressionPolicy(f) \in Mild \/ f.severity = "critical"
<1>1. CASE event = "boundary_error"
  BY <1>1 DEF Extracted, Failure, DefaultSuppressionPolicy, Mild, Severity, Alike
<1>2. CASE event = "permission_error"
  BY <1>2 DEF Extracted, Failure, DefaultSuppressionPolicy, Mild, Severity, Alike
<1>3. CASE event = "environment_error"
  BY <1>3 DEF Extracted, Failure, DefaultSuppressionPolicy, Mild, Severity, Alike
<1>4. CASE event = "bad_command"
  BY <1>4 DEF Extracted, Failure, DefaultSuppressionPolicy, Mild, Severity, Alike
<1>5. CASE event = "boundary_decision"
  BY <1>5 DEF Extracted, Failure, DefaultSuppressionPolicy, Mild, Severity, Alike
<1>6. CASE event = "failed_decision"
  BY <1>6 DEF Extracted, Failure, DefaultSuppressionPolicy, Mild, Severity, Alike
<1>7. CASE event = "denied_approval"
  BY <1>7 DEF Extracted, Failure, DefaultSuppressionPolicy, Mild, Severity, Alike
<1>8. CASE event = "held_output"
  BY <1>8 DEF Extracted, Failure, DefaultSuppressionPolicy, Mild, Severity, Alike
<1> QED BY <1>1, <1>2, <1>3, <1>4, <1>5, <1>6, <1>7, <1>8 DEF Extracted

(* What is proposed only warns. *)
LEMMA ProposalFacts ==
  ASSUME NEW key \in Key, NEW severity \in Severity, NEW c \in 0 .. 100, NEW policy
  PROVE  LET r == Proposal(key, severity, c, policy)
         IN r \in Signatures /\ r.from # "caller" /\ r.policy \in Mild /\ r.state = "draft"
BY DEF Proposal, Signature, Failure, DefaultSuppressionPolicy, DefaultProbePolicy, Signatures,
       Mild, Severity, Alike, RuleState, Policy, Probe

(* What a failure teaches is in the shadow. *)
LEMMA LearnedFacts ==
  ASSUME NEW key \in Key, NEW event \in DOMAIN Extracted
  PROVE  LET f == Extracted[event]
             r == Signature(key, "failure", f, "shadow", DefaultSuppressionPolicy(f))
         IN /\ r \in Signatures /\ r.state = "shadow"
            /\ r.policy \in Mild \/ r.severity = "critical"
<1>1. PICK f : f = Extracted[event]
  OBVIOUS
<1>2. PICK policy \in Mild \cup {"require_approval"} : policy = DefaultSuppressionPolicy(f)
  BY <1>1, ExtractedFacts
<1>3. DefaultProbePolicy(f, policy) \in Probe
  BY DEF DefaultProbePolicy, Probe
<1> QED BY <1>1, <1>2, <1>3, ExtractedFacts
        DEF Signature, Signatures, RuleState, Policy, Mild


(* Whatever becomes of the write of a change that is allowed. *)
LEMMA PersistKeeps ==
  ASSUME FailureInv, loaded, NEW changed, NEW id \in DOMAIN changed, Persist(id, changed),
         Stored(changed, ruledOn'), DOMAIN rules \subseteq DOMAIN changed,
         ruledOn \subseteq ruledOn', aged' \subseteq Rule
  PROVE  FailureInv'
<1>1. /\ rules' = changed /\ loaded' = loaded
      /\ returned' \subseteq returned \cup {id}
      /\ \/ snapshot' = changed /\ emptied' = FALSE
         \/ /\ snapshot' \in {snapshot, << >>, CutWrite, changed} /\ returned' = returned
            /\ emptied' = IF snapshot' = << >> THEN snapshot # << >> \/ emptied ELSE FALSE
  BY DEF Persist
<1>2. DOMAIN << >> = {} /\ id \in Rule /\ returned' \subseteq DOMAIN changed
  BY <1>1 DEF FailureInv, Stored
<1>3. \A s : Stored(s, ruledOn) => Stored(s, ruledOn')
  BY DEF Stored, Earned
<1>4. snapshot' # CutWrite => Stored(snapshot', ruledOn')
  <2>1. Stored(<< >>, ruledOn')
    BY <1>2 DEF Stored
  <2> QED BY <1>1, <1>3, <2>1 DEF FailureInv
<1>5. emptied' \in BOOLEAN /\ (emptied' => DOMAIN snapshot' = {})
  BY <1>1, <1>2 DEF FailureInv
<1>6. snapshot' # CutWrite => emptied' \/ returned' \subseteq DOMAIN snapshot'
  <2>1. CASE snapshot' = changed
    BY <1>2, <2>1
  <2>2. CASE snapshot' = << >> /\ returned' = returned /\ emptied' = (snapshot # << >> \/ emptied)
    BY <2>2 DEF FailureInv
  <2>3. CASE snapshot' = snapshot /\ snapshot # << >> /\ returned' = returned
    BY <1>2, <2>3 DEF FailureInv
  <2> QED BY <1>1, <2>1, <2>2, <2>3
<1> QED BY <1>1, <1>2, <1>4, <1>5, <1>6 DEF FailureInv, Stored

(* One rule that is new, or takes the place of its former self. *)
LEMMA PutKeeps ==
  ASSUME FailureInv, loaded, NEW id \in Rule, NEW r \in Signatures, Persist(id, PutRule(id, r)),
         Earned(r, id \in ruledOn'), ruledOn \subseteq ruledOn', aged' \subseteq Rule
  PROVE  FailureInv'
<1>1. PICK changed : changed = PutRule(id, r)
  OBVIOUS
<1>2. /\ DOMAIN changed = DOMAIN rules \cup {id} /\ changed[id] = r
      /\ \A i \in DOMAIN rules \ {id} : changed[i] = rules[i]
  BY <1>1 DEF PutRule
<1>3. Stored(changed, ruledOn')
  BY <1>2 DEF FailureInv, Stored, Earned
<1> QED BY <1>1, <1>2, <1>3, PersistKeeps

(* Rules that are added: by callers, by an LLM, by failures. *)
LEMMA AddingKeeps ==
  ASSUME FailureInv, NEW r \in Signatures, AddSignature(r),
         \/ r.from = "caller"
         \/ ~Enforceable(r.state) /\ (r.policy \in Mild \/ r.severity = "critical")
  PROVE  FailureInv'
<1>1. PICK id \in Rule \ DOMAIN rules :
        loaded /\ Persist(id, PutRule(id, r)) /\ UNCHANGED <<aged, ruledOn>>
  BY DEF AddSignature
<1>2. Earned(r, id \in ruledOn')
  BY DEF Earned
<1>3. ruledOn \subseteq ruledOn' /\ aged' \subseteq Rule
  BY <1>1 DEF FailureInv
<1> QED BY <1>1, <1>2, <1>3, PutKeeps

(* What a failure that happens again makes of its rule. *)
LEMMA SeenAgainFacts ==
  ASSUME NEW r \in Signatures, NEW event \in DOMAIN Extracted
  PROVE  LET s == SeenAgain(r, Extracted[event])
         IN /\ s \in Signatures /\ s.from = r.from /\ s.state = r.state /\ s.policy = r.policy
            /\ s.level = r.level /\ s.confidence >= r.confidence
            /\ s.severity = r.severity \/ Weight[s.severity] > Weight[r.severity]
<1>1. PICK f : f = Extracted[event]
  OBVIOUS
<1>2. f.severity \in Severity /\ f.confidence \in 0 .. 100
  BY <1>1, ExtractedFacts
<1>3. PICK m : m = Max({r.confidence, f.confidence})
  OBVIOUS
<1>4. r.confidence \in 0 .. 100 /\ r.severity \in Severity
  BY DEF Signatures
<1>5. m \in 0 .. 100 /\ m >= r.confidence
  <2>1. \E x \in {r.confidence, f.confidence} : \A y \in {r.confidence, f.confidence} : x >= y
    BY <1>2, <1>4
  <2> QED BY <1>2, <1>3, <1>4, <2>1 DEF Max
<1>6. PICK w : w = Stronger(r.severity, f.severity)
  OBVIOUS
<1>7. w \in Severity /\ (w = r.severity \/ Weight[w] > Weight[r.severity])
  BY <1>2, <1>4, <1>6 DEF Stronger
<1>8. SeenAgain(r, f) = [r EXCEPT !.confidence = m, !.severity = w]
  BY <1>3, <1>6 DEF SeenAgain
<1> QED BY <1>1, <1>5, <1>7, <1>8 DEF Signatures

(* What an LLM proposes. *)
LEMMA ProposingKeeps ==
  ASSUME FailureInv, NEW key \in Key, AddLLMProposal(key)
  PROVE  FailureInv'
<1>1. PICK severity \in {"medium", "critical"}, c \in {45, 100}, policy \in Policy :
        AddSignature(Proposal(key, severity, c, policy))
  BY DEF AddLLMProposal
<1>2. severity \in Severity /\ c \in 0 .. 100
  BY DEF Severity
<1>3. PICK r : r = Proposal(key, severity, c, policy)
  OBVIOUS
<1>4. r \in Signatures /\ r.policy \in Mild /\ r.state = "draft" /\ AddSignature(r)
  BY <1>1, <1>2, <1>3, ProposalFacts
<1> QED BY <1>4, AddingKeeps DEF Enforceable

(* A failure makes a rule or confirms one. *)
LEMMA UpsertKeeps ==
  ASSUME FailureInv, NEW key \in Key, NEW event \in Event, UpsertSignature(key, event)
  PROVE  FailureInv'
<1>0. event \in DOMAIN Extracted
  BY FailureAssumption
<1>1. PICK f : f = Extracted[event]
  OBVIOUS
<1>2. PICK new : new = Signature(key, "failure", f, "shadow", DefaultSuppressionPolicy(f))
  OBVIOUS
<1>3. \/ AddSignature(new)
      \/ \E id \in DOMAIN rules : /\ loaded /\ Persist(id, PutRule(id, SeenAgain(rules[id], f)))
                                  /\ aged' = aged \ {id} /\ UNCHANGED ruledOn
  BY <1>1, <1>2 DEF UpsertSignature
<1>4. CASE AddSignature(new)
  <2>1. /\ new \in Signatures /\ new.state = "shadow"
        /\ new.policy \in Mild \/ new.severity = "critical"
    BY <1>0, <1>1, <1>2, LearnedFacts
  <2> QED BY <1>4, <2>1, AddingKeeps DEF Enforceable
<1>5. ASSUME NEW id \in DOMAIN rules, loaded, Persist(id, PutRule(id, SeenAgain(rules[id], f))),
             aged' = aged \ {id}, UNCHANGED ruledOn
      PROVE  FailureInv'
  <2>1. id \in Rule /\ rules[id] \in Signatures /\ Earned(rules[id], id \in ruledOn)
    BY DEF FailureInv, Stored
  <2>2. PICK s : s = SeenAgain(rules[id], f)
    OBVIOUS
  <2>3. /\ s \in Signatures /\ s.from = rules[id].from /\ s.state = rules[id].state
        /\ s.policy = rules[id].policy
        /\ s.severity = rules[id].severity \/ Weight[s.severity] > Weight[rules[id].severity]
    BY <1>0, <1>1, <2>1, <2>2, SeenAgainFacts
  <2>4. rules[id].severity = "critical" => s.severity = "critical"
    BY <2>1, <2>3 DEF Signatures, Severity, Weight
  <2>5. Earned(s, id \in ruledOn')
    BY <1>5, <2>1, <2>3, <2>4 DEF Earned
  <2>6. ruledOn \subseteq ruledOn' /\ aged' \subseteq Rule
    BY <1>5 DEF FailureInv
  <2> QED BY <1>5, <2>1, <2>2, <2>3, <2>5, <2>6, PutKeeps
<1> QED BY <1>3, <1>4, <1>5

(* Somebody says what state a rule is in. *)
LEMMA MarkKeeps ==
  ASSUME FailureInv, NEW id \in DOMAIN rules, NEW state \in RuleState, MarkState(id, state)
  PROVE  FailureInv'
<1>1. id \in Rule /\ rules[id] \in Signatures /\ Earned(rules[id], id \in ruledOn)
  BY DEF FailureInv, Stored
<1>2. PICK s : s = [rules[id] EXCEPT !.state = state]
  OBVIOUS
<1>3. s \in Signatures /\ s.from = rules[id].from /\ s.policy = rules[id].policy
      /\ s.severity = rules[id].severity /\ s.state = state
  BY <1>1, <1>2 DEF Signatures
<1>4. Earned(s, id \in ruledOn')
  BY <1>1, <1>3 DEF Earned, MarkState
<1>5. /\ loaded /\ Persist(id, PutRule(id, s)) /\ ruledOn \subseteq ruledOn' /\ aged' \subseteq Rule
  BY <1>2 DEF MarkState, FailureInv
<1> QED BY <1>1, <1>3, <1>4, <1>5, PutKeeps

(* A rule that is hit is young again. *)
LEMMA HitKeeps ==
  ASSUME FailureInv, NEW id \in DOMAIN rules, UpdateHitCount(id)
  PROVE  FailureInv'
<1>1. loaded /\ Persist(id, rules) /\ ruledOn' = ruledOn /\ aged' \subseteq Rule
  BY DEF UpdateHitCount, FailureInv
<1>2. Stored(rules, ruledOn')
  BY <1>1 DEF FailureInv
<1> QED BY <1>1, <1>2, PersistKeeps

(* A cap caps. *)
LEMMA CappedFacts == \A c \in Int : Capped(c) \in 0 .. 100
BY DEF Capped

(* Only rules that are not critical decay, and those are mild. *)
LEMMA DecayKeeps ==
  ASSUME FailureInv, NEW id \in DOMAIN rules, DecayOldRules(id)
  PROVE  FailureInv'
<1>1. id \in Rule /\ rules[id] \in Signatures /\ Earned(rules[id], id \in ruledOn)
  BY DEF FailureInv, Stored
<1>2. PICK c : c = Capped(rules[id].confidence - DecayRate[rules[id].severity])
  OBVIOUS
<1>3. c \in 0 .. 100
  <2>1. rules[id].confidence - DecayRate[rules[id].severity] \in Int
    BY <1>1 DEF Signatures, Severity, DecayRate
  <2> QED BY <1>2, <2>1, CappedFacts
<1>4. PICK state : state = IF c < 30 THEN "probation" ELSE rules[id].state
  OBVIOUS
<1>5. PICK s : s = [rules[id] EXCEPT !.confidence = c, !.state = state]
  OBVIOUS
<1>6. s \in Signatures /\ s.from = rules[id].from /\ s.policy = rules[id].policy
      /\ s.severity = rules[id].severity /\ s.state = state
  BY <1>1, <1>3, <1>4, <1>5 DEF Signatures, RuleState
<1>7. /\ loaded /\ Persist(id, PutRule(id, s)) /\ rules[id].severity # "critical"
      /\ aged' = aged /\ ruledOn' = ruledOn
  BY <1>2, <1>4, <1>5 DEF DecayOldRules, Decays
<1>8. Earned(s, id \in ruledOn')
  BY <1>1, <1>6, <1>7 DEF Earned
<1>9. aged' \subseteq Rule /\ ruledOn \subseteq ruledOn'
  BY <1>7 DEF FailureInv
<1> QED BY <1>1, <1>6, <1>7, <1>8, <1>9, PutKeeps

(* What becomes of a rule that is looked at again. *)
LEMMA RevalidationKeeps ==
  ASSUME FailureInv, NEW id \in DOMAIN rules, NEW outcome \in Outcome,
         ApplyRevalidation(id, outcome)
  PROVE  FailureInv'
<1> DEFINE r == rules[id]
<1>1. id \in Rule /\ r \in Signatures /\ Earned(r, id \in ruledOn)
  BY DEF FailureInv, Stored
<1>2. loaded /\ aged' \subseteq Rule /\ ruledOn \subseteq ruledOn'
  BY DEF ApplyRevalidation, FailureInv
<1>3. PICK more, less : more = Capped(r.confidence + 5) /\ less = Capped(r.confidence - 30)
  OBVIOUS
<1>4. more \in 0 .. 100 /\ less \in 0 .. 100
  <2>1. r.confidence + 5 \in Int /\ r.confidence - 30 \in Int
    BY <1>1 DEF Signatures
  <2> QED BY <1>3, <2>1, CappedFacts
<1>5. ASSUME NEW s \in Signatures, s.from = r.from, s.severity = r.severity,
             s.policy = r.policy \/ s.policy = "warn",
             s.state = r.state \/ s.policy = "warn" \/ s.state = "retired" \/ id \in ruledOn',
             Persist(id, PutRule(id, s))
      PROVE  FailureInv'
  <2>1. Earned(s, id \in ruledOn')
    BY <1>1, <1>2, <1>5 DEF Earned, Enforceable, Mild
  <2> QED BY <1>1, <1>2, <1>5, <2>1, PutKeeps
<1>6. CASE outcome = "still_valid"
  <2>1. PICK s : s = [r EXCEPT !.confidence = more]
    OBVIOUS
  <2>2. Persist(id, PutRule(id, s))
    BY <1>3, <1>6, <2>1 DEF ApplyRevalidation
  <2>3. s \in Signatures /\ s.from = r.from /\ s.severity = r.severity /\ s.policy = r.policy
        /\ s.state = r.state
    BY <1>1, <1>4, <2>1 DEF Signatures
  <2> QED BY <1>5, <2>2, <2>3
<1>7. CASE outcome = "false_positive"
  <2>1. PICK s : s = [r EXCEPT !.state = "probation", !.policy = "warn", !.confidence = less]
    OBVIOUS
  <2>2. Persist(id, PutRule(id, s))
    BY <1>3, <1>7, <2>1 DEF ApplyRevalidation
  <2>3. s \in Signatures /\ s.from = r.from /\ s.severity = r.severity /\ s.policy = "warn"
    BY <1>1, <1>4, <2>1 DEF Signatures, RuleState, Policy
  <2> QED BY <1>5, <2>2, <2>3
<1>8. CASE outcome = "no_longer_reproducible"
  <2>1. PICK s : s = [r EXCEPT !.state = "retired", !.policy = "warn", !.confidence = less]
    OBVIOUS
  <2>2. Persist(id, PutRule(id, s))
    BY <1>3, <1>8, <2>1 DEF ApplyRevalidation
  <2>3. s \in Signatures /\ s.from = r.from /\ s.severity = r.severity /\ s.policy = "warn"
    BY <1>1, <1>4, <2>1 DEF Signatures, RuleState, Policy
  <2> QED BY <1>5, <2>2, <2>3
<1>9. CASE outcome = "superseded"
  <2>1. PICK s : s = [r EXCEPT !.state = "retired"]
    OBVIOUS
  <2>2. Persist(id, PutRule(id, s))
    BY <1>9, <2>1 DEF ApplyRevalidation
  <2>3. s \in Signatures /\ s.from = r.from /\ s.severity = r.severity /\ s.policy = r.policy
        /\ s.state = "retired"
    BY <1>1, <2>1 DEF Signatures, RuleState
  <2> QED BY <1>5, <2>2, <2>3
<1>10. CASE outcome = "manual_review_required"
  <2>1. PICK s : s = [r EXCEPT !.state = "probation"]
    OBVIOUS
  <2>2. Persist(id, PutRule(id, s)) /\ id \in ruledOn'
    BY <1>10, <2>1 DEF ApplyRevalidation
  <2>3. s \in Signatures /\ s.from = r.from /\ s.severity = r.severity /\ s.policy = r.policy
    BY <1>1, <2>1 DEF Signatures, RuleState
  <2> QED BY <1>5, <2>2, <2>3
<1> QED BY <1>6, <1>7, <1>8, <1>9, <1>10 DEF Outcome

(* The process dies, and what is loaded is what the file holds. *)
LEMMA LifeKeeps ==
  ASSUME FailureInv, GrowOld \/ KillMemory \/ LoadFromFile
  PROVE  FailureInv'
<1>1. CASE GrowOld
  BY <1>1 DEF GrowOld, FailureInv, Stored, Earned
<1>2. CASE KillMemory
  <2>1. DOMAIN << >> = {}
    OBVIOUS
  <2> QED BY <1>2, <2>1 DEF KillMemory, FailureInv, Stored
<1>3. CASE LoadFromFile
  <2>1. /\ snapshot # CutWrite /\ rules' = snapshot /\ loaded' = TRUE
        /\ aged' \subseteq aged /\ ruledOn' = ruledOn \cap DOMAIN snapshot
        /\ returned' = IF emptied THEN {} ELSE returned
        /\ snapshot' = snapshot /\ emptied' = emptied
    BY <1>3 DEF LoadFromFile, Loadable
  <2>2. Stored(snapshot, ruledOn')
    BY <2>1 DEF FailureInv, Stored
  <2> QED BY <2>1, <2>2 DEF FailureInv
<1> QED BY <1>1, <1>2, <1>3

(* Memory and file are empty at first. *)
LEMMA FailureInvInit == FailureInit => FailureInv
<1>1. DOMAIN << >> = {}
  OBVIOUS
<1> QED BY <1>1 DEF FailureInit, FailureInv, Stored

(* Whatever is done. *)
LEMMA FailureInvStep == FailureInv /\ [FailureNext]_failureVars => FailureInv'
<1> SUFFICES ASSUME FailureInv, [FailureNext]_failureVars PROVE FailureInv'
  OBVIOUS
<1>1. ASSUME NEW r \in CallerRule, AddSignature(r) PROVE FailureInv'
  <2>1. r \in Signatures /\ r.from = "caller"
    BY FailureAssumption
  <2> QED BY <1>1, <2>1, AddingKeeps
<1>2. ASSUME NEW id \in DOMAIN rules, UpdateHitCount(id) \/ DecayOldRules(id) PROVE FailureInv'
  BY <1>2, HitKeeps, DecayKeeps
<1>3. CASE UNCHANGED failureVars
  BY <1>3 DEF failureVars, FailureInv, Stored, Earned
<1> QED BY <1>1, <1>2, <1>3, ProposingKeeps, UpsertKeeps, MarkKeeps, RevalidationKeeps, LifeKeeps
        DEF FailureNext

(* What memory and file hold is well-formed, was earned, and knows the calls
   that returned. *)
THEOREM FailureMemoryIsConsistent == FailureSpec => []FailureInv
BY FailureInvInit, FailureInvStep, PTL DEF FailureSpec

(* FailureTypeOK: every rule is a signature. *)
THEOREM FailureTypes == FailureSpec => []FailureTypeOK
<1>1. FailureInv => FailureTypeOK
  BY DEF FailureInv, FailureTypeOK, Stored
<1> QED BY <1>1, FailureMemoryIsConsistent, PTL

(* ReturnedRulesSurvive. *)
THEOREM ReturnedRulesStay == FailureSpec => []ReturnedRulesSurvive
<1>1. FailureInv => ReturnedRulesSurvive
  BY DEF FailureInv, ReturnedRulesSurvive
<1> QED BY <1>1, FailureMemoryIsConsistent, PTL

(* Of the rules that are alike to a command, those that only match in words
   and those that nobody wrote or put into force are mild with it. *)
LEMMA MildFacts ==
  ASSUME NEW r \in Signatures, NEW like \in Alike, NEW ruled \in BOOLEAN, Earned(r, ruled),
         ~(like <= Min({r.level, 2}) /\ (r.from = "caller" \/ ruled))
  PROVE  Says(r, like) \in Mild \cup {"allow"}
<1>1. r.level \in Alike /\ r.policy \in Policy
  BY DEF Signatures
<1>2. CASE ~(like <= r.level /\ Enforceable(r.state))
  BY <1>2 DEF Says
<1>3. CASE like = 3
  BY <1>3 DEF Says, EffectivePolicyForState, PolicyAllowedForMatch, Mild
<1>4. CASE like <= r.level /\ Enforceable(r.state) /\ like # 3
  <2>1. PICK m : m = Min({r.level, 2})
    OBVIOUS
  <2>2. like <= m
    <3>1. \E x \in {r.level, 2} : \A y \in {r.level, 2} : x <= y
      BY <1>1 DEF Alike
    <3>2. m \in {r.level, 2}
      BY <2>1, <3>1 DEF Min
    <3> QED BY <1>4, <3>2 DEF Alike
  <2>3. r.policy \in Mild
    BY <1>4, <2>1, <2>2 DEF Earned
  <2> QED BY <1>4, <2>3 DEF Says, EffectivePolicyForState, PolicyAllowedForMatch, Mild, Alike
<1> QED BY <1>2, <1>3, <1>4

(* OnlyRuledOnRulesStop: the strongest of policies that are all mild is mild. *)
LEMMA OnlyEarnedStops == FailureInv => OnlyRuledOnRulesStop
<1> SUFFICES ASSUME FailureInv, NEW likeness \in [DOMAIN rules -> Alike],
                    ~ \E id \in DOMAIN rules :
                        /\ likeness[id] <= Min({rules[id].level, 2})
                        /\ rules[id].from = "caller" \/ id \in ruledOn
             PROVE  EvaluateGate(likeness) \notin {"require_approval", "block"}
  BY DEF OnlyRuledOnRulesStop
<1>1. \A id \in DOMAIN rules : Says(rules[id], likeness[id]) \in Mild \cup {"allow"}
  <2> TAKE id \in DOMAIN rules
  <2>1. PICK ruled \in BOOLEAN : ruled <=> id \in ruledOn
    <3>1. CASE id \in ruledOn
      BY <3>1
    <3>2. CASE id \notin ruledOn
      BY <3>2
    <3> QED BY <3>1, <3>2
  <2>2. rules[id] \in Signatures /\ Earned(rules[id], ruled) /\ likeness[id] \in Alike
    BY <2>1 DEF FailureInv, Stored, Earned
  <2> QED BY <2>1, <2>2, MildFacts
<1>2. PICK said : said = {Says(rules[id], likeness[id]) : id \in DOMAIN likeness}
  OBVIOUS
<1>3. said \subseteq Mild \cup {"allow"}
  BY <1>1, <1>2
<1>4. PICK heard : heard = said \cup {"allow"}
  OBVIOUS
<1>5. heard \subseteq {"allow", "warn", "downrank"} /\ "allow" \in heard /\ said \subseteq heard
  BY <1>3, <1>4 DEF Mild
<1>6. \E d \in heard : \A e \in said : Strength[e] <= Strength[d]
  <2>1. CASE "downrank" \in heard
    BY <1>5, <2>1 DEF Strength
  <2>2. CASE "downrank" \notin heard /\ "warn" \in heard
    BY <1>5, <2>2 DEF Strength
  <2>3. CASE "downrank" \notin heard /\ "warn" \notin heard
    BY <1>5, <2>3 DEF Strength
  <2> QED BY <2>1, <2>2, <2>3
<1>7. PICK d : d = CHOOSE x \in heard : \A e \in said : Strength[e] <= Strength[x]
  OBVIOUS
<1>8. d \in heard
  BY <1>6, <1>7
<1>9. EvaluateGate(likeness) = d
  BY <1>2, <1>4, <1>7 DEF EvaluateGate
<1> QED BY <1>5, <1>8, <1>9

(* OnlyRuledOnRulesStop, always. *)
THEOREM OnlyEarnedRulesStop == FailureSpec => []OnlyRuledOnRulesStop
BY OnlyEarnedStops, FailureMemoryIsConsistent, PTL

(* What a step may make of a rule that stays. *)
AsHard(r, s) ==
  s.level = r.level /\ (s.severity = r.severity \/ Weight[s.severity] > Weight[r.severity])

(* A rule that is as hard, and of which one is as confident, is as strong. *)
LEMMA HarderSaysMore ==
  ASSUME NEW r \in Signatures, NEW s \in Signatures, NEW like \in Alike, AsHard(r, s),
         r.state = s.state, r.state # "probation", r.policy = s.policy, r.confidence <= s.confidence
  PROVE  Strength[Says(r, like)] <= Strength[Says(s, like)]
<1>1. s.severity \in Severity /\ r.severity \in Severity /\ r.policy \in Policy
      /\ r.confidence \in Int /\ s.confidence \in Int
  BY DEF Signatures
<1>2. r.severity \in {"high", "critical"} => s.severity \in {"high", "critical"}
  BY <1>1 DEF AsHard, Severity, Weight
<1>3. PolicyAllowedForMatch(r, like) => PolicyAllowedForMatch(s, like)
  BY <1>1, <1>2 DEF PolicyAllowedForMatch
<1>4. CASE ~(like <= r.level /\ Enforceable(r.state))
  BY <1>4 DEF Says, AsHard, Strength
<1>5. CASE like <= r.level /\ Enforceable(r.state)
  <2>1. /\ Says(r, like) = EffectivePolicyForState(r, like)
        /\ Says(s, like) = EffectivePolicyForState(s, like)
    BY <1>5 DEF Says, AsHard
  <2>2. CASE PolicyAllowedForMatch(r, like)
    BY <1>1, <1>3, <2>1, <2>2 DEF EffectivePolicyForState, Strength, Policy
  <2>3. CASE ~PolicyAllowedForMatch(r, like)
    BY <1>1, <2>1, <2>3 DEF EffectivePolicyForState, PolicyAllowedForMatch, Strength, Policy
  <2> QED BY <2>2, <2>3
<1> QED BY <1>4, <1>5

(* Whoever puts a rule leaves the others alone. *)
LEMMA PutIsAsHard ==
  ASSUME FailureInv, NEW id, NEW s, Persist(id, PutRule(id, s)),
         id \in DOMAIN rules => AsHard(rules[id], s)
  PROVE  \A i \in DOMAIN rules \cap DOMAIN rules' : AsHard(rules[i], rules'[i])
<1>1. PICK changed : changed = PutRule(id, s)
  OBVIOUS
<1>2. /\ DOMAIN changed = DOMAIN rules \cup {id} /\ changed[id] = s
      /\ \A i \in DOMAIN rules \ {id} : changed[i] = rules[i]
  BY <1>1 DEF PutRule
<1>3. rules' = changed
  BY <1>1 DEF Persist
<1> QED BY <1>2, <1>3 DEF AsHard

(* No step makes a rule that stays less severe or alike to less. *)
LEMMA StepsAreAsHard ==
  ASSUME FailureInv, [FailureNext]_failureVars
  PROVE  \A i \in DOMAIN rules \cap DOMAIN rules' : AsHard(rules[i], rules'[i])
<1> DEFINE Goal == \A i \in DOMAIN rules \cap DOMAIN rules' : AsHard(rules[i], rules'[i])
<1>1. ASSUME NEW r, AddSignature(r) PROVE Goal
  <2>1. PICK id \in Rule \ DOMAIN rules : Persist(id, PutRule(id, r))
    BY <1>1 DEF AddSignature
  <2> QED BY <2>1, PutIsAsHard
<1>2. ASSUME NEW key \in Key, AddLLMProposal(key) PROVE Goal
  BY <1>1, <1>2 DEF AddLLMProposal
<1>3. ASSUME NEW key \in Key, NEW event \in Event, UpsertSignature(key, event) PROVE Goal
  <2>1. PICK f : f = Extracted[event]
    OBVIOUS
  <2>2. CASE \E r : AddSignature(r)
    BY <1>1, <2>2
  <2>3. CASE \E id \in DOMAIN rules : Persist(id, PutRule(id, SeenAgain(rules[id], f)))
    <3>1. PICK id \in DOMAIN rules : Persist(id, PutRule(id, SeenAgain(rules[id], f)))
      BY <2>3
    <3>2. PICK s : s = SeenAgain(rules[id], f)
      OBVIOUS
    <3>3. rules[id] \in Signatures /\ event \in DOMAIN Extracted
      BY FailureAssumption DEF FailureInv, Stored
    <3>4. AsHard(rules[id], s)
      BY <2>1, <3>2, <3>3, SeenAgainFacts DEF AsHard
    <3> QED BY <3>1, <3>2, <3>4, PutIsAsHard
  <2> QED BY <1>3, <2>1, <2>2, <2>3 DEF UpsertSignature
<1>4. ASSUME NEW id \in DOMAIN rules, NEW s, Persist(id, PutRule(id, s)),
             s.level = rules[id].level, s.severity = rules[id].severity
      PROVE  Goal
  <2>1. AsHard(rules[id], s)
    BY <1>4 DEF AsHard
  <2> QED BY <1>4, <2>1, PutIsAsHard
<1>5. \A id \in DOMAIN rules : rules[id] \in Signatures
  BY DEF FailureInv, Stored
<1>6. ASSUME NEW id \in DOMAIN rules, NEW state \in RuleState, MarkState(id, state) PROVE Goal
  <2>1. PICK s : s = [rules[id] EXCEPT !.state = state]
    OBVIOUS
  <2>2. s.level = rules[id].level /\ s.severity = rules[id].severity /\ Persist(id, PutRule(id, s))
    BY <1>5, <1>6, <2>1 DEF MarkState, Signatures
  <2> QED BY <1>4, <2>2
<1>7. ASSUME NEW id \in DOMAIN rules, DecayOldRules(id) PROVE Goal
  <2>1. PICK c, state : /\ c = Capped(rules[id].confidence - DecayRate[rules[id].severity])
                        /\ state = IF c < 30 THEN "probation" ELSE rules[id].state
    OBVIOUS
  <2>2. PICK s : s = [rules[id] EXCEPT !.confidence = c, !.state = state]
    OBVIOUS
  <2>3. s.level = rules[id].level /\ s.severity = rules[id].severity
    BY <1>5, <2>2 DEF Signatures
  <2>4. Persist(id, PutRule(id, s))
    BY <1>7, <2>1, <2>2 DEF DecayOldRules
  <2> QED BY <1>4, <2>3, <2>4
<1>8. ASSUME NEW id \in DOMAIN rules, NEW outcome \in Outcome, ApplyRevalidation(id, outcome)
      PROVE  Goal
  <2> DEFINE r == rules[id]
  <2>1. PICK more, less : more = Capped(r.confidence + 5) /\ less = Capped(r.confidence - 30)
    OBVIOUS
  <2>2. PICK s : /\ Persist(id, PutRule(id, s))
                 /\ \/ s = [r EXCEPT !.confidence = more]
                    \/ s = [r EXCEPT !.state = "probation", !.policy = "warn", !.confidence = less]
                    \/ s = [r EXCEPT !.state = "retired", !.policy = "warn", !.confidence = less]
                    \/ s = [r EXCEPT !.state = "retired"]
                    \/ s = [r EXCEPT !.state = "probation"]
    BY <1>8, <2>1 DEF ApplyRevalidation, Outcome
  <2>3. s.level = r.level /\ s.severity = r.severity
    BY <1>5, <2>2 DEF Signatures
  <2> QED BY <1>4, <2>2, <2>3
<1>9. ASSUME rules' = rules PROVE Goal
  BY <1>9 DEF AsHard
<1>10. ASSUME NEW id \in DOMAIN rules, UpdateHitCount(id) PROVE Goal
  BY <1>9, <1>10 DEF UpdateHitCount, Persist
<1>11. CASE KillMemory
  <2>1. DOMAIN << >> = {}
    OBVIOUS
  <2> QED BY <1>11, <2>1 DEF KillMemory
<1>12. CASE LoadFromFile
  BY <1>12 DEF LoadFromFile, FailureInv
<1>13. CASE GrowOld \/ UNCHANGED failureVars
  BY <1>9, <1>13 DEF GrowOld, failureVars
<1> QED BY <1>1, <1>2, <1>3, <1>6, <1>7, <1>8, <1>10, <1>11, <1>12, <1>13 DEF FailureNext

(* FailuresDoNotLoosen: a failure that happens again leaves a rule that is not
   on probation as strong as it was, unless its state or its policy changes or
   its confidence falls (upsertSignature). *)
THEOREM FailuresNeverLoosen == FailureSpec => FailuresDoNotLoosen
<1>1. ASSUME FailureInv, [FailureNext]_failureVars
      PROVE  \A id \in DOMAIN rules \cap DOMAIN rules', like \in Alike :
               LET r == rules[id]  s == rules'[id]
               IN r.state = s.state /\ r.state # "probation" /\ r.policy = s.policy
                    /\ r.confidence <= s.confidence
                  => Strength[Says(r, like)] <= Strength[Says(s, like)]
  <2> TAKE id \in DOMAIN rules \cap DOMAIN rules', like \in Alike
  <2>1. PICK r, s : r = rules[id] /\ s = rules'[id]
    OBVIOUS
  <2>2. FailureInv'
    BY <1>1, FailureInvStep
  <2>3. r \in Signatures /\ s \in Signatures
    BY <1>1, <2>1, <2>2 DEF FailureInv, Stored
  <2>4. AsHard(r, s)
    BY <1>1, <2>1, StepsAreAsHard
  <2> QED BY <2>1, <2>3, <2>4, HarderSaysMore
<1> QED BY <1>1, FailureMemoryIsConsistent, PTL DEF FailureSpec, FailuresDoNotLoosen

-----------------------------------------------------------------------------
(* What a file of a session may hold. *)
FileLine == [text: Message \cup {TornLine}, size: Nat, ended: BOOLEAN]
Op == [message: Message, stage: {"append", "read", "swap"}, kept: Seq(FileLine)]

SessionTypes ==
  /\ phase \in [Turn -> Phase] /\ earlier \in [Turn -> SUBSET Turn]
  /\ seen \in [Turn -> Seq(Message)] /\ \A t \in Turn : Len(seen[t]) <= Cap
  /\ ops \in Seq(Op) /\ lines \in Seq(FileLine) /\ all \in Seq(FileLine)

(* Each append is that of a turn which waits for it, a turn waits for one,
   and only the first has come further than its turn in the queue: what it
   read nobody has changed since. *)
QueueInv ==
  /\ \A i \in 1..Len(ops) : phase[ops[i].message.turn] = "appending"
  /\ \A i, j \in 1..Len(ops) : ops[i].message.turn = ops[j].message.turn => i = j
  /\ \A i \in 1..Len(ops) : i > 1 => ops[i].stage = "append"
  /\ \A i \in 1..Len(ops) : ops[i].stage = "swap" => ops[i].kept = LastN(lines, Cap)

(* The file is the end of all lines, and never too short an end. *)
WindowInv ==
  /\ Len(lines) <= Len(all)
  /\ \A i \in 1..Len(lines) : lines[i] = all[Len(all) - Len(lines) + i]
  /\ Len(lines) >= Cap \/ Len(lines) = Len(all)

(* A turn counts as earlier only when it is through. *)
MemoryInv ==
  /\ \A t \in Turn : \A u \in earlier[t] : phase[u] = "success"
  /\ AnswersAreRemembered

(* Before its first append a turn has no line anywhere. *)
Unwritten == {"idle", "reading", "calling", "timed_out"}

UnwrittenInv ==
  \A t \in Turn : phase[t] \in Unwritten =>
    \A i \in 1..Len(all) : all[i].text \notin {Question(t), Answer(t)}

SessionInv == SessionTypes /\ QueueInv /\ WindowInv /\ MemoryInv /\ UnwrittenInv

(* The last n of a sequence. *)
LEMMA LastNFacts ==
  ASSUME NEW S, NEW s \in Seq(S), NEW n \in Nat
  PROVE  /\ LastN(s, n) \in Seq(S) /\ Len(LastN(s, n)) = IF Len(s) <= n THEN Len(s) ELSE n
         /\ \A i \in 1..Len(LastN(s, n)) : LastN(s, n)[i] = s[Len(s) - Len(LastN(s, n)) + i]
<1>0. PICK m \in Nat : m = Len(s)
  OBVIOUS
<1>1. CASE m <= n
  <2>1. LastN(s, n) = s
    BY <1>0, <1>1 DEF LastN
  <2>2. \A i \in 1..m : m - m + i = i
    OBVIOUS
  <2>3. QED
    BY <1>0, <1>1, <2>1, <2>2
<1>2. CASE ~(m <= n)
  <2>1. LastN(s, n) = SubSeq(s, m - n + 1, m)
    BY <1>0, <1>2 DEF LastN
  <2>2. m - n + 1 \in Int /\ m - n + 1 \in 1..(m + 1) /\ m - (m - n + 1) + 1 = n
        /\ (n = 0 <=> ~(m - n + 1 <= m))
        /\ \A i \in 1..n : (m - n + 1) + i - 1 = m - n + i
    BY <1>2
  <2>3. \A i \in (m - n + 1)..m : s[i] \in S
    BY <1>0, <2>2
  <2>4. PICK k \in Int : k = m - n + 1
    BY <2>2
  <2>5. /\ SubSeq(s, k, m) \in Seq(S)
        /\ Len(SubSeq(s, k, m)) = IF k <= m THEN m - k + 1 ELSE 0
        /\ \A i \in 1 .. m - k + 1 : SubSeq(s, k, m)[i] = s[k + i - 1]
    BY <2>3, <2>4, SubSeqProperties
  <2>6. Len(LastN(s, n)) = n /\ LastN(s, n) \in Seq(S)
    BY <2>1, <2>2, <2>4, <2>5
  <2>7. \A i \in 1..n : LastN(s, n)[i] = s[m - n + i]
    BY <2>1, <2>2, <2>4, <2>5
  <2>8. QED
    BY <1>0, <1>2, <2>6, <2>7
<1>3. QED
  BY <1>0, <1>1, <1>2

(* Putting a line at the end: it is one more, or it spoils the last. *)
LEMMA PutFacts ==
  ASSUME NEW ls \in Seq(FileLine), NEW line \in FileLine
  PROVE  /\ Put(ls, line) \in Seq(FileLine)
         /\ \/ /\ ls # << >> /\ ~Last(ls).ended /\ Len(Put(ls, line)) = Len(ls)
               /\ Put(ls, line)[Len(ls)] = Line(TornLine, Last(ls).size + line.size, line.ended)
               /\ \A i \in 1..(Len(ls) - 1) : Put(ls, line)[i] = ls[i]
            \/ /\ ~(ls # << >> /\ ~Last(ls).ended)
               /\ Put(ls, line) = Append(ls, line)
<1>1. CASE ls # << >> /\ ~Last(ls).ended
  <2> DEFINE l == Line(TornLine, Last(ls).size + line.size, line.ended)
  <2>1. Put(ls, line) = Append(Front(ls), l)
    BY <1>1 DEF Put
  <2>2. Len(ls) \in Nat \ {0} /\ Last(ls) \in FileLine
    BY <1>1 DEF Last
  <2>3. l \in FileLine
    BY <2>2 DEF FileLine, Line
  <2>4. Front(ls) \in Seq(FileLine) /\ Len(Front(ls)) = Len(ls) - 1
        /\ \A i \in 1 .. Len(ls) - 1 : Front(ls)[i] = ls[i]
    BY <1>1, FrontFacts
  <2> HIDE DEF l
  <2>5. /\ Append(Front(ls), l) \in Seq(FileLine) /\ Len(Append(Front(ls), l)) = Len(Front(ls)) + 1
        /\ Append(Front(ls), l)[Len(Front(ls)) + 1] = l
        /\ \A i \in 1 .. Len(Front(ls)) : Append(Front(ls), l)[i] = Front(ls)[i]
    BY <2>3, <2>4, AppendProperties
  <2>6. Len(Front(ls)) + 1 = Len(ls) /\ Len(Front(ls)) \in Nat
    BY <2>2, <2>4
  <2>7. Put(ls, line)[Len(ls)] = l
    BY <2>1, <2>5, <2>6
  <2>8. QED
    BY <1>1, <2>1, <2>4, <2>5, <2>6, <2>7 DEF l
<1>2. CASE ~(ls # << >> /\ ~Last(ls).ended)
  <2>1. Put(ls, line) = Append(ls, line)
    BY <1>2 DEF Put
  <2>2. QED
    BY <1>2, <2>1, AppendProperties
<1>3. QED
  BY <1>1, <1>2

(* The file goes on being the end of all lines, and no line is new but one
   of this text or a spoilt one. *)
LEMMA GrowKeeps ==
  ASSUME lines \in Seq(FileLine), all \in Seq(FileLine), WindowInv, NEW line \in FileLine, Grow(line)
  PROVE  /\ lines' \in Seq(FileLine) /\ all' \in Seq(FileLine) /\ WindowInv'
         /\ Len(all) <= Len(all')
         /\ \A i \in 1..Len(all') :
              \/ all'[i].text \in {TornLine, line.text}
              \/ i \in 1..Len(all) /\ all'[i].text = all[i].text
<1>1. lines' = Put(lines, line) /\ all' = Put(all, line)
  BY DEF Grow
<1>2. lines' \in Seq(FileLine) /\ all' \in Seq(FileLine)
  BY <1>1, PutFacts
<1>3. PICK m \in Nat, n \in Nat : m = Len(lines) /\ n = Len(all)
  OBVIOUS
<1>4. m <= n /\ (m >= Cap \/ m = n) /\ Cap \in Nat \ {0} /\ (n # 0 => m # 0)
      /\ \A i \in 1..m : lines[i] = all[n - m + i]
  BY <1>3, SessionAssumption DEF WindowInv
<1>5. (lines = << >> <=> m = 0) /\ (all = << >> <=> n = 0)
  BY <1>3
<1>6. m # 0 => Last(lines) = Last(all)
  <2> SUFFICES ASSUME m # 0 PROVE Last(lines) = Last(all)
    OBVIOUS
  <2>1. m \in 1..m /\ n - m + m = n
    OBVIOUS
  <2>2. lines[m] = all[n]
    BY <1>4, <2>1
  <2>3. QED
    BY <1>3, <2>2 DEF Last
<1>7. CASE all # << >> /\ ~Last(all).ended
  <2>1. lines # << >> /\ ~Last(lines).ended /\ m # 0 /\ n # 0
    BY <1>4, <1>5, <1>6, <1>7
  <2> DEFINE l == Line(TornLine, Last(all).size + line.size, line.ended)
  <2>2. /\ Len(lines') = m /\ lines'[m] = l
        /\ \A i \in 1..(m - 1) : lines'[i] = lines[i]
    BY <1>1, <1>3, <1>6, <2>1, PutFacts
  <2>3. /\ Len(all') = n /\ all'[n] = l
        /\ \A i \in 1..(n - 1) : all'[i] = all[i]
    BY <1>1, <1>3, <1>7, PutFacts
  <2>4. l.text = TornLine
    BY DEF Line
  <2> HIDE DEF l
  <2>5. \A i \in 1..m : lines'[i] = all'[n - m + i]
    <3> SUFFICES ASSUME NEW i \in 1..m PROVE lines'[i] = all'[n - m + i]
      OBVIOUS
    <3>1. CASE i = m
      BY <2>2, <2>3, <3>1
    <3>2. CASE i # m
      <4>1. i \in 1..(m - 1) /\ n - m + i \in 1..(n - 1)
        BY <1>4, <3>2
      <4>2. QED
        BY <1>4, <2>2, <2>3, <4>1
    <3>3. QED
      BY <3>1, <3>2
  <2>6. WindowInv'
    BY <1>4, <2>2, <2>3, <2>5 DEF WindowInv
  <2>7. \A i \in 1..n : i = n \/ i \in 1..(n - 1)
    OBVIOUS
  <2>8. \A i \in 1..n : all'[i].text = TornLine \/ all'[i].text = all[i].text
    BY <2>3, <2>4, <2>7
  <2>9. QED
    BY <1>2, <1>3, <2>3, <2>6, <2>8
<1>8. CASE ~(all # << >> /\ ~Last(all).ended)
  <2>1. ~(lines # << >> /\ ~Last(lines).ended)
    BY <1>4, <1>5, <1>6, <1>8
  <2>2. lines' = Append(lines, line) /\ all' = Append(all, line)
    BY <1>1, <1>8, <2>1, PutFacts
  <2>3. /\ Len(lines') = m + 1 /\ lines'[m + 1] = line
        /\ \A i \in 1..m : lines'[i] = lines[i]
    BY <1>3, <2>2, AppendProperties
  <2>4. /\ Len(all') = n + 1 /\ all'[n + 1] = line
        /\ \A i \in 1..n : all'[i] = all[i]
    BY <1>3, <2>2, AppendProperties
  <2>5. \A i \in 1..(m + 1) : lines'[i] = all'[(n + 1) - (m + 1) + i]
    <3> SUFFICES ASSUME NEW i \in 1..(m + 1) PROVE lines'[i] = all'[(n + 1) - (m + 1) + i]
      OBVIOUS
    <3>1. CASE i = m + 1
      <4>1. (n + 1) - (m + 1) + i = n + 1
        BY <3>1
      <4>2. QED
        BY <2>3, <2>4, <3>1, <4>1
    <3>2. CASE i # m + 1
      <4>1. i \in 1..m /\ (n + 1) - (m + 1) + i = n - m + i /\ n - m + i \in 1..n
        BY <1>4, <3>2
      <4>2. QED
        BY <1>4, <2>3, <2>4, <4>1
    <3>3. QED
      BY <3>1, <3>2
  <2>6. WindowInv'
    BY <1>4, <2>3, <2>4, <2>5 DEF WindowInv
  <2>7. \A i \in 1..(n + 1) : i = n + 1 \/ i \in 1..n
    OBVIOUS
  <2>8. \A i \in 1..(n + 1) : all'[i].text = line.text \/ (i \in 1..n /\ all'[i].text = all[i].text)
    BY <2>4, <2>7
  <2>9. QED
    BY <1>2, <1>3, <2>4, <2>6, <2>8
<1>9. QED
  BY <1>7, <1>8

-----------------------------------------------------------------------------
(* The steps of the appends.                                                *)

(* One of the turns that wait for their appends goes on waiting, or ends. *)
WaitingGoesOn ==
  \/ phase' = phase
  \/ \E u \in Turn : /\ phase[u] = "appending"
                     /\ \E p \in {"success", "failed"} : phase' = [phase EXCEPT ![u] = p]

(* What the queue promises, but for what the first has read. *)
QueueOrdered ==
  /\ ops \in Seq(Op)
  /\ \A i \in 1..Len(ops) : phase[ops[i].message.turn] = "appending"
  /\ \A i, j \in 1..Len(ops) : ops[i].message.turn = ops[j].message.turn => i = j

AllAppend == \A i \in 1..Len(ops) : ops[i].stage = "append"

LEMMA RemoveFirstFacts ==
  ASSUME NEW S, NEW s \in Seq(S), s # << >>
  PROVE  /\ RemoveAt(s, 1) \in Seq(S) /\ Len(RemoveAt(s, 1)) = Len(s) - 1
         /\ \A i \in 1..(Len(s) - 1) : RemoveAt(s, 1)[i] = s[i + 1]
<1>1. Tail(s) \in Seq(S) /\ Len(Tail(s)) = Len(s) - 1
      /\ \A i \in 1..Len(Tail(s)) : Tail(s)[i] = s[i + 1]
  BY HeadTailProperties
<1>2. RemoveAt(s, 1) = Tail(s)
  <2>1. SubSeq(s, 1, 1 - 1) = << >>
    BY SubSeqEmpty
  <2>2. SubSeq(s, 1 + 1, Len(s)) = Tail(s)
    BY TailIsSubSeq
  <2>3. << >> \o Tail(s) = Tail(s)
    BY <1>1, ConcatEmptySeq
  <2>4. QED
    BY <2>1, <2>2, <2>3 DEF RemoveAt
<1>3. QED
  BY <1>1, <1>2

LEMMA FirstFacts ==
  ASSUME SessionTypes, QueueInv, ops # << >>
  PROVE  /\ Len(ops) \in Nat \ {0} /\ ops[1] \in Op
         /\ ops[1].message \in Message /\ ops[1].message.turn \in Turn
         /\ phase[ops[1].message.turn] = "appending"
         /\ \A i \in 2..Len(ops) : /\ ops[i] \in Op /\ ops[i].stage = "append"
                                   /\ ops[i].message.turn # ops[1].message.turn
<1>1. Len(ops) \in Nat \ {0} /\ \A i \in 1..Len(ops) : ops[i] \in Op
  BY DEF SessionTypes
<1>2. 1 \in 1..Len(ops) /\ \A i \in 2..Len(ops) : i \in 1..Len(ops) /\ i # 1 /\ i > 1
  BY <1>1
<1>3. ops[1].message \in Message /\ ops[1].message.turn \in Turn
  BY <1>1, <1>2 DEF Op, Message
<1>4. QED
  BY <1>1, <1>2, <1>3 DEF QueueInv

(* The queue without its first. *)
LEMMA WithoutFirst ==
  ASSUME SessionTypes, QueueInv, ops # << >>, NEW q, q = RemoveAt(ops, 1)
  PROVE  /\ q \in Seq(Op) /\ Len(q) \in Nat
         /\ \A i \in 1..Len(q) : /\ q[i].stage = "append" /\ q[i].message.turn \in Turn
                                 /\ phase[q[i].message.turn] = "appending"
                                 /\ q[i].message.turn # ops[1].message.turn
         /\ \A i, j \in 1..Len(q) : q[i].message.turn = q[j].message.turn => i = j
<1>1. PICK m \in Nat \ {0} : m = Len(ops)
  BY FirstFacts
<1>2. q \in Seq(Op) /\ Len(q) = m - 1 /\ m - 1 \in Nat /\ \A i \in 1..(m - 1) : q[i] = ops[i + 1]
  BY <1>1, RemoveFirstFacts DEF SessionTypes
<1>3. \A i \in 1..(m - 1) : i + 1 \in 2..m /\ i + 1 \in 1..m
  BY <1>1
<1>4. \A i, j \in 1..(m - 1) : i + 1 = j + 1 => i = j
  OBVIOUS
<1>5. \A i \in 1..(m - 1) : /\ q[i].stage = "append" /\ q[i].message.turn # ops[1].message.turn
                            /\ q[i] \in Op /\ phase[q[i].message.turn] = "appending"
  BY <1>1, <1>2, <1>3, FirstFacts DEF QueueInv
<1>6. \A i \in 1..(m - 1) : q[i].message.turn \in Turn
  BY <1>5 DEF Op, Message
<1>7. \A i, j \in 1..(m - 1) : q[i].message.turn = q[j].message.turn => i = j
  BY <1>1, <1>2, <1>3, <1>4 DEF QueueInv
<1>8. QED
  BY <1>2, <1>5, <1>6, <1>7

(* A turn that has been answered, or refused, is not in the queue any more,
   or is in it with its next append. *)
LEMMA ResolveSteps ==
  ASSUME SessionTypes, QueueInv, ops # << >>, Resolve(1)
  PROVE  phase' \in [Turn -> Phase] /\ QueueOrdered' /\ AllAppend' /\ WaitingGoesOn
<1> DEFINE u == ops[1].message.turn
           rest == RemoveAt(ops, 1)
<1>1. ops[1].message \in Message /\ u \in Turn /\ phase[u] = "appending"
  BY FirstFacts
<1>2. /\ rest \in Seq(Op) /\ Len(rest) \in Nat
      /\ \A i \in 1..Len(rest) : /\ rest[i].stage = "append" /\ rest[i].message.turn \in Turn
                                 /\ phase[rest[i].message.turn] = "appending"
                                 /\ rest[i].message.turn # u
      /\ \A i, j \in 1..Len(rest) : rest[i].message.turn = rest[j].message.turn => i = j
  BY WithoutFirst
<1>3. CASE ops[1].message.role = "user"
  <2> DEFINE new == Queued(Answer(u))
  <2>1. ops' = Append(rest, new) /\ phase' = phase
    BY <1>3 DEF Resolve
  <2>2. new \in Op /\ new.stage = "append" /\ new.message.turn = u
    BY <1>1 DEF Queued, Answer, Op, Message
  <2> HIDE DEF new, u, rest
  <2>3. /\ ops' \in Seq(Op) /\ Len(ops') = Len(rest) + 1 /\ ops'[Len(rest) + 1] = new
        /\ \A i \in 1..Len(rest) : ops'[i] = rest[i]
    BY <1>2, <2>1, <2>2, AppendProperties
  <2>4. \A i \in 1..Len(ops') : i \in 1..Len(rest) \/ i = Len(rest) + 1
    BY <1>2, <2>3
  <2>5. \A i \in 1..Len(ops') : ops'[i].stage = "append" /\ phase[ops'[i].message.turn] = "appending"
    BY <1>1, <1>2, <2>2, <2>3, <2>4
  <2>6. \A i, j \in 1..Len(ops') : ops'[i].message.turn = ops'[j].message.turn => i = j
    BY <1>2, <2>2, <2>3, <2>4
  <2>7. QED
    BY <2>1, <2>3, <2>5, <2>6 DEF SessionTypes, QueueOrdered, AllAppend, WaitingGoesOn
<1>4. CASE ops[1].message.role # "user"
  <2>1. ops' = rest /\ phase' = [phase EXCEPT ![u] = "success"]
    BY <1>4 DEF Resolve
  <2> HIDE DEF u, rest
  <2>2. phase' \in [Turn -> Phase] /\ \A t \in Turn : t # u => phase'[t] = phase[t]
    BY <1>1, <2>1 DEF SessionTypes, Phase
  <2>3. QED
    BY <1>1, <1>2, <2>1, <2>2 DEF QueueOrdered, AllAppend, WaitingGoesOn
<1>5. QED
  BY <1>3, <1>4

LEMMA RejectSteps ==
  ASSUME SessionTypes, QueueInv, ops # << >>, Reject(1)
  PROVE  phase' \in [Turn -> Phase] /\ QueueOrdered' /\ AllAppend' /\ WaitingGoesOn
<1> DEFINE u == ops[1].message.turn
           rest == RemoveAt(ops, 1)
<1>1. u \in Turn /\ phase[u] = "appending"
  BY FirstFacts
<1>2. /\ rest \in Seq(Op)
      /\ \A i \in 1..Len(rest) : /\ rest[i].stage = "append" /\ rest[i].message.turn \in Turn
                                 /\ phase[rest[i].message.turn] = "appending"
                                 /\ rest[i].message.turn # u
      /\ \A i, j \in 1..Len(rest) : rest[i].message.turn = rest[j].message.turn => i = j
  BY WithoutFirst
<1>3. ops' = rest /\ phase' = [phase EXCEPT ![u] = "failed"]
  BY DEF Reject
<1> HIDE DEF u, rest
<1>4. phase' \in [Turn -> Phase] /\ \A t \in Turn : t # u => phase'[t] = phase[t]
  BY <1>1, <1>3 DEF SessionTypes, Phase
<1>5. QED
  BY <1>1, <1>2, <1>3, <1>4 DEF QueueOrdered, AllAppend, WaitingGoesOn

(* The first goes on to its next stage. *)
LEMMA StageSteps ==
  ASSUME SessionTypes, QueueInv, ops # << >>, phase' = phase,
         NEW op \in Op, op.message = ops[1].message, ops' = [ops EXCEPT ![1] = op]
  PROVE  /\ phase' \in [Turn -> Phase] /\ QueueOrdered' /\ WaitingGoesOn
         /\ Len(ops') = Len(ops) /\ ops'[1] = op
         /\ \A i \in 1..Len(ops') : i > 1 => ops'[i].stage = "append"
<1>1. Len(ops) \in Nat \ {0} /\ 1 \in 1..Len(ops)
  BY FirstFacts
<1>2. ops' \in Seq(Op) /\ Len(ops') = Len(ops)
      /\ \A i \in 1..Len(ops) : ops'[i] = IF i = 1 THEN op ELSE ops[i]
  BY <1>1, ExceptSeq DEF SessionTypes
<1>3. \A i \in 1..Len(ops) : ops'[i].message = ops[i].message
  BY <1>2
<1>4. \A i \in 1..Len(ops) : i > 1 => ops'[i].stage = "append"
  BY <1>2 DEF QueueInv
<1>5. QED
  BY <1>1, <1>2, <1>3, <1>4 DEF QueueInv, QueueOrdered, SessionTypes, WaitingGoesOn

-----------------------------------------------------------------------------
(* What is remembered, and what is nowhere, as turns go on and lines are
   added. *)
Onward ==
  \A t \in Turn : /\ phase[t] = "success" => phase'[t] = "success"
                  /\ phase'[t] = "calling" => phase[t] = "calling"
                  /\ phase'[t] \in Unwritten => phase[t] \in Unwritten

(* A line that is new is spoilt, or that of a turn that waits. *)
NewLinesAreWaitedFor ==
  /\ Len(all) <= Len(all')
  /\ \A i \in 1..Len(all') :
       \/ all'[i].text = TornLine
       \/ all'[i].text \in Message /\ phase[all'[i].text.turn] = "appending"
       \/ i \in 1..Len(all) /\ all'[i].text = all[i].text

LEMMA WaitingIsOnward ==
  ASSUME SessionTypes, WaitingGoesOn
  PROVE  Onward
<1>1. CASE phase' = phase
  BY <1>1 DEF Onward
<1>2. ASSUME NEW u \in Turn, phase[u] = "appending", NEW p \in {"success", "failed"},
             phase' = [phase EXCEPT ![u] = p]
      PROVE  Onward
  <2>1. \A t \in Turn : phase'[t] = IF t = u THEN p ELSE phase[t]
    BY <1>2 DEF SessionTypes
  <2>2. QED
    BY <1>2, <2>1 DEF Onward, Unwritten
<1>3. QED
  BY <1>1, <1>2 DEF WaitingGoesOn

LEMMA MessagesAreNotTorn ==
  ASSUME NEW t \in Turn
  PROVE  /\ Question(t) \in Message /\ Question(t) # TornLine /\ Question(t).turn = t
         /\ Answer(t) \in Message /\ Answer(t) # TornLine /\ Answer(t).turn = t
  BY SessionAssumption DEF Question, Answer, Message

LEMMA NothingIsForgotten ==
  ASSUME SessionTypes, MemoryInv, earlier' = earlier, seen' = seen, all' \in Seq(FileLine),
         Onward, NewLinesAreWaitedFor
  PROVE  MemoryInv'
<1>1. PICK n \in Nat, k \in Nat : n = Len(all) /\ k = Len(all') /\ n <= k
  BY DEF SessionTypes, NewLinesAreWaitedFor
<1>2. DOMAIN all = 1..n /\ DOMAIN all' = 1..k
  BY <1>1 DEF SessionTypes
<1>3. \A t \in Turn : \A u \in earlier'[t] : u \in Turn /\ phase[u] = "success" /\ phase'[u] = "success"
  BY DEF MemoryInv, SessionTypes, Onward
<1>4. ASSUME NEW t \in Turn, phase'[t] = "calling", NEW u \in earlier[t], Answer(u) \notin ToSet(seen[t]),
             NEW i \in 1..k, all'[i].text = Answer(u)
      PROVE  i <= k - Cap
  <2>1. phase[t] = "calling"
    BY <1>4 DEF Onward
  <2>2. u \in Turn /\ phase[u] = "success"
    BY <1>3
  <2>3. i \in 1..n /\ all[i].text = Answer(u)
    BY <1>1, <1>4, <2>2, MessagesAreNotTorn DEF NewLinesAreWaitedFor
  <2>4. i <= n - Cap
    BY <1>1, <1>2, <1>4, <2>1, <2>3 DEF MemoryInv, AnswersAreRemembered
  <2>5. QED
    BY <1>1, <2>3, <2>4, SessionAssumption
<1>5. AnswersAreRemembered'
  BY <1>1, <1>2, <1>4 DEF AnswersAreRemembered
<1>6. QED
  BY <1>3, <1>5 DEF MemoryInv

LEMMA NothingIsWrittenEarly ==
  ASSUME SessionTypes, UnwrittenInv, Onward, NewLinesAreWaitedFor
  PROVE  UnwrittenInv'
<1> SUFFICES ASSUME NEW t \in Turn, phase'[t] \in Unwritten, NEW i \in 1..Len(all')
             PROVE  all'[i].text \notin {Question(t), Answer(t)}
  BY DEF UnwrittenInv
<1>1. phase[t] \in Unwritten /\ phase[t] # "appending"
  BY DEF Onward, Unwritten
<1>2. \A j \in 1..Len(all) : all[j].text \notin {Question(t), Answer(t)}
  BY <1>1 DEF UnwrittenInv
<1>3. QED
  BY <1>1, <1>2, MessagesAreNotTorn DEF NewLinesAreWaitedFor

(* A step of the appends keeps the invariant if it keeps the queue, and
   leaves the file the end of all lines. *)
LEMMA AppendsKeep ==
  ASSUME SessionInv, phase' \in [Turn -> Phase], QueueOrdered', WaitingGoesOn,
         seen' = seen, earlier' = earlier,
         lines' \in Seq(FileLine), all' \in Seq(FileLine), WindowInv', NewLinesAreWaitedFor,
         \A i \in 1..Len(ops') : i > 1 => ops'[i].stage = "append",
         \A i \in 1..Len(ops') : ops'[i].stage = "swap" => ops'[i].kept = LastN(lines', Cap)
  PROVE  SessionInv'
<1>1. SessionTypes'
  BY DEF SessionInv, SessionTypes, QueueOrdered
<1>2. QueueInv'
  BY DEF QueueInv, QueueOrdered
<1>3. Onward
  BY WaitingIsOnward DEF SessionInv
<1>4. MemoryInv' /\ UnwrittenInv'
  BY <1>3, NothingIsForgotten, NothingIsWrittenEarly DEF SessionInv
<1>5. QED
  BY <1>1, <1>2, <1>4 DEF SessionInv

LEMMA NoNewLines ==
  ASSUME SessionTypes, all' = all
  PROVE  NewLinesAreWaitedFor
<1>1. Len(all) \in Nat
  BY DEF SessionTypes
<1>2. QED
  BY <1>1 DEF NewLinesAreWaitedFor

LEMMA UnchangedFile ==
  ASSUME SessionTypes, WindowInv, lines' = lines, all' = all
  PROVE  /\ lines' \in Seq(FileLine) /\ all' \in Seq(FileLine) /\ WindowInv'
         /\ NewLinesAreWaitedFor
<1>1. lines' \in Seq(FileLine) /\ all' \in Seq(FileLine)
  BY DEF SessionTypes
<1>2. WindowInv'
  BY DEF WindowInv
<1>3. QED
  BY <1>1, <1>2, NoNewLines

(* A line of the turn that is first in the queue, or a spoilt one, is put at
   the end. *)
LEMMA FirstLineIsWaitedFor ==
  ASSUME SessionInv, ops # << >>, NEW size \in Size, NEW ended \in BOOLEAN,
         NEW t \in {TornLine, ops[1].message}, Grow(Line(t, size, ended))
  PROVE  /\ lines' \in Seq(FileLine) /\ all' \in Seq(FileLine) /\ WindowInv'
         /\ NewLinesAreWaitedFor
<1>1. ops[1].message \in Message /\ phase[ops[1].message.turn] = "appending"
  BY FirstFacts DEF SessionInv
<1>2. Line(t, size, ended) \in FileLine /\ Line(t, size, ended).text = t
  BY <1>1, SessionAssumption DEF Line, FileLine
<1>3. QED
  BY <1>1, <1>2, GrowKeeps DEF SessionInv, SessionTypes, NewLinesAreWaitedFor

LEMMA AppendLineKeeps == ASSUME SessionInv, NEW i \in DOMAIN ops, AppendLine(i) PROVE SessionInv'
<1>1. i = 1 /\ ops # << >> /\ ops[1].stage = "append" /\ seen' = seen /\ earlier' = earlier
  BY DEF AppendLine, Runs
<1>2. PICK size \in Size : Grow(Line(ops[1].message, size, TRUE))
  BY <1>1 DEF AppendLine
<1>3. /\ lines' \in Seq(FileLine) /\ all' \in Seq(FileLine) /\ WindowInv'
      /\ NewLinesAreWaitedFor
  BY <1>1, <1>2, FirstLineIsWaitedFor
<1>4. CASE ops' = [ops EXCEPT ![1].stage = "read"] /\ phase' = phase
  <2> DEFINE op == [ops[1] EXCEPT !.stage = "read"]
  <2>1. op \in Op /\ op.message = ops[1].message /\ op.stage = "read"
    BY <1>1, FirstFacts DEF SessionInv, Op
  <2>2. ops' = [ops EXCEPT ![1] = op]
    BY <1>4
  <2> HIDE DEF op
  <2>3. /\ phase' \in [Turn -> Phase] /\ QueueOrdered' /\ WaitingGoesOn
        /\ Len(ops') = Len(ops) /\ ops'[1] = op
        /\ \A j \in 1..Len(ops') : j > 1 => ops'[j].stage = "append"
    BY <1>1, <1>4, <2>1, <2>2, StageSteps DEF SessionInv
  <2>4. \A j \in 1..Len(ops') : ops'[j].stage # "swap"
    <3>1. \A j \in 1..Len(ops) : j = 1 \/ j > 1
      BY FirstFacts, <1>1 DEF SessionInv
    <3>2. QED
      BY <2>1, <2>3, <3>1
  <2>5. QED
    BY <1>1, <1>3, <2>3, <2>4, AppendsKeep
<1>5. CASE Resolve(1)
  <2>1. phase' \in [Turn -> Phase] /\ QueueOrdered' /\ AllAppend' /\ WaitingGoesOn
    BY <1>1, <1>5, ResolveSteps DEF SessionInv
  <2>2. QED
    BY <1>1, <1>3, <2>1, AppendsKeep DEF AllAppend
<1>6. QED
  BY <1>1, <1>4, <1>5 DEF AppendLine

LEMMA AppendFailsKeeps == ASSUME SessionInv, NEW i \in DOMAIN ops, AppendFails(i) PROVE SessionInv'
<1>1. i = 1 /\ ops # << >> /\ seen' = seen /\ earlier' = earlier /\ Reject(1)
  BY DEF AppendFails, Runs
<1>2. phase' \in [Turn -> Phase] /\ QueueOrdered' /\ AllAppend' /\ WaitingGoesOn
  BY <1>1, RejectSteps DEF SessionInv
<1>3. /\ lines' \in Seq(FileLine) /\ all' \in Seq(FileLine) /\ WindowInv'
      /\ NewLinesAreWaitedFor
  <2>1. CASE lines' = lines /\ all' = all
    BY <2>1, UnchangedFile DEF SessionInv
  <2>2. ASSUME NEW t \in {TornLine, ops[1].message}, NEW size \in Size, Grow(Line(t, size, FALSE))
        PROVE  /\ lines' \in Seq(FileLine) /\ all' \in Seq(FileLine) /\ WindowInv'
               /\ NewLinesAreWaitedFor
    BY <1>1, <2>2, FirstLineIsWaitedFor
  <2>3. QED
    BY <1>1, <2>1, <2>2 DEF AppendFails
<1>4. QED
  BY <1>1, <1>2, <1>3, AppendsKeep DEF AllAppend

(* Nothing but the queue and who waits in it changes. *)
LEMMA QueueMovesKeep ==
  ASSUME SessionInv, ops # << >>, Resolve(1) \/ Reject(1),
         seen' = seen, earlier' = earlier, lines' = lines, all' = all
  PROVE  SessionInv'
<1>1. phase' \in [Turn -> Phase] /\ QueueOrdered' /\ AllAppend' /\ WaitingGoesOn
  BY ResolveSteps, RejectSteps DEF SessionInv
<1>2. lines' \in Seq(FileLine) /\ all' \in Seq(FileLine) /\ WindowInv' /\ NewLinesAreWaitedFor
  BY UnchangedFile DEF SessionInv
<1>3. QED
  BY <1>1, <1>2, AppendsKeep DEF AllAppend

LEMMA ReadForCutKeeps == ASSUME SessionInv, NEW i \in DOMAIN ops, ReadForCut(i) PROVE SessionInv'
<1>1. /\ i = 1 /\ ops # << >> /\ seen' = seen /\ earlier' = earlier /\ lines' = lines /\ all' = all
      /\ ops[1].stage = "read"
  BY DEF ReadForCut, Runs
<1>2. CASE Resolve(1)
  BY <1>1, <1>2, QueueMovesKeep
<1>3. CASE /\ ops' = [ops EXCEPT ![1].stage = "swap", ![1].kept = LastN(lines, Cap)]
           /\ phase' = phase
  <2> DEFINE op == [ops[1] EXCEPT !.stage = "swap", !.kept = LastN(lines, Cap)]
  <2>1. LastN(lines, Cap) \in Seq(FileLine)
    BY LastNFacts, SessionAssumption DEF SessionInv, SessionTypes
  <2>2. op \in Op /\ op.message = ops[1].message /\ op.kept = LastN(lines, Cap)
    BY <1>1, <2>1, FirstFacts DEF SessionInv, Op
  <2>3. ops' = [ops EXCEPT ![1] = op]
    BY <1>3
  <2> HIDE DEF op
  <2>4. /\ phase' \in [Turn -> Phase] /\ QueueOrdered' /\ WaitingGoesOn
        /\ Len(ops') = Len(ops) /\ ops'[1] = op
        /\ \A j \in 1..Len(ops') : j > 1 => ops'[j].stage = "append"
    BY <1>1, <1>3, <2>2, <2>3, StageSteps DEF SessionInv
  <2>5. \A j \in 1..Len(ops') : ops'[j].stage = "swap" => ops'[j].kept = LastN(lines', Cap)
    <3>1. \A j \in 1..Len(ops) : j = 1 \/ j > 1
      BY FirstFacts, <1>1 DEF SessionInv
    <3>2. QED
      BY <1>1, <2>2, <2>4, <3>1
  <2>6. lines' \in Seq(FileLine) /\ all' \in Seq(FileLine) /\ WindowInv' /\ NewLinesAreWaitedFor
    BY <1>1, UnchangedFile DEF SessionInv
  <2>7. QED
    BY <1>1, <2>4, <2>5, <2>6, AppendsKeep
<1>4. QED
  BY <1>1, <1>2, <1>3 DEF ReadForCut

(* The end of an end of all lines is an end of all lines. *)
LEMMA SwapKeeps == ASSUME SessionInv, NEW i \in DOMAIN ops, Swap(i) PROVE SessionInv'
<1>1. /\ i = 1 /\ ops # << >> /\ seen' = seen /\ earlier' = earlier /\ all' = all
      /\ ops[1].stage = "swap" /\ lines' = ops[1].kept /\ Resolve(1)
  BY DEF Swap, Runs
<1>2. lines' = LastN(lines, Cap)
  BY <1>1, FirstFacts DEF SessionInv, QueueInv
<1>3. PICK m \in Nat, n \in Nat : m = Len(lines) /\ n = Len(all)
  BY DEF SessionInv, SessionTypes
<1>4. PICK k \in Nat : k = IF m <= Cap THEN m ELSE Cap
  BY SessionAssumption
<1>5. /\ lines' \in Seq(FileLine) /\ Len(lines') = k
      /\ \A j \in 1..k : lines'[j] = lines[m - k + j]
  <2>1. lines \in Seq(FileLine) /\ Cap \in Nat
    BY SessionAssumption DEF SessionInv, SessionTypes
  <2>2. /\ LastN(lines, Cap) \in Seq(FileLine)
        /\ Len(LastN(lines, Cap)) = IF Len(lines) <= Cap THEN Len(lines) ELSE Cap
        /\ \A j \in 1..Len(LastN(lines, Cap)) :
             LastN(lines, Cap)[j] = lines[Len(lines) - Len(LastN(lines, Cap)) + j]
    BY <2>1, LastNFacts
  <2>3. Len(LastN(lines, Cap)) = k
    BY <1>3, <1>4, <2>2
  <2>4. QED
    BY <1>2, <1>3, <2>2, <2>3
<1>6. m <= n /\ (m >= Cap \/ m = n) /\ \A j \in 1..m : lines[j] = all[n - m + j]
  BY <1>3 DEF SessionInv, WindowInv
<1>7. k <= m /\ (k >= Cap \/ k = n)
  BY <1>4, <1>6, SessionAssumption
<1>8. \A j \in 1..k : lines'[j] = all[n - k + j]
  <2> SUFFICES ASSUME NEW j \in 1..k PROVE lines'[j] = all[n - k + j]
    OBVIOUS
  <2>1. m - k + j \in 1..m /\ n - m + (m - k + j) = n - k + j
    BY <1>7
  <2>2. QED
    BY <1>5, <1>6, <2>1
<1>9. WindowInv'
  BY <1>1, <1>3, <1>5, <1>6, <1>7, <1>8 DEF WindowInv
<1>10. phase' \in [Turn -> Phase] /\ QueueOrdered' /\ AllAppend' /\ WaitingGoesOn
  BY <1>1, ResolveSteps DEF SessionInv
<1>11. all' \in Seq(FileLine) /\ NewLinesAreWaitedFor
  BY <1>1, NoNewLines DEF SessionInv, SessionTypes
<1>12. QED
  BY <1>1, <1>5, <1>9, <1>10, <1>11, AppendsKeep DEF AllAppend

LEMMA CutFailsKeeps == ASSUME SessionInv, NEW i \in DOMAIN ops, CutFails(i) PROVE SessionInv'
<1>1. /\ i = 1 /\ ops # << >> /\ seen' = seen /\ earlier' = earlier /\ lines' = lines /\ all' = all
      /\ Resolve(1) \/ Reject(1)
  BY DEF CutFails, Runs
<1>2. QED
  BY <1>1, QueueMovesKeep

-----------------------------------------------------------------------------
(* The steps of the turns, and of the process.                              *)

LEMMA SessionInvInit == TurnsInit => SessionInv
<1> SUFFICES ASSUME TurnsInit PROVE SessionInv
  OBVIOUS
<1>1. \A t \in Turn : phase[t] = "idle" /\ earlier[t] = {} /\ seen[t] = << >>
  BY DEF TurnsInit
<1>2. ops = << >> /\ lines = << >> /\ all = << >> /\ Len(<< >>) = 0
  BY DEF TurnsInit
<1>3. SessionTypes
  <2>1. phase \in [Turn -> Phase] /\ earlier \in [Turn -> SUBSET Turn]
    BY DEF TurnsInit, Phase
  <2>2. seen \in [Turn -> Seq(Message)] /\ \A t \in Turn : Len(seen[t]) <= Cap
    <3>1. << >> \in Seq(Message) /\ 0 <= Cap
      BY SessionAssumption
    <3>2. QED
      BY <1>1, <1>2, <3>1 DEF TurnsInit
  <2>3. QED
    BY <1>2, <2>1, <2>2 DEF SessionTypes
<1>4. QueueInv /\ WindowInv /\ UnwrittenInv
  BY <1>2 DEF QueueInv, WindowInv, UnwrittenInv
<1>5. MemoryInv
  BY <1>1 DEF MemoryInv, AnswersAreRemembered
<1>6. QED
  BY <1>3, <1>4, <1>5 DEF SessionInv

LEMMA OpsAreOfTurns ==
  ASSUME SessionTypes
  PROVE  \A i \in 1..Len(ops) : ops[i].message.turn \in Turn
<1>1. \A i \in 1..Len(ops) : ops[i] \in Op
  BY DEF SessionTypes
<1>2. QED
  BY <1>1 DEF Op, Message

(* Steps that touch neither the file nor the queue. *)
LEMMA QueueRests ==
  ASSUME SessionInv, phase' \in [Turn -> Phase], ops' = ops, lines' = lines, all' = all,
         \A t \in Turn : phase[t] = "appending" => phase'[t] = "appending"
  PROVE  QueueInv' /\ WindowInv'
<1>1. \A i \in 1..Len(ops) : ops[i].message.turn \in Turn
  BY OpsAreOfTurns DEF SessionInv
<1>2. QED
  BY <1>1 DEF SessionInv, QueueInv, WindowInv

LEMMA BeginKeepsSession == ASSUME SessionInv, NEW t \in Turn, Begin(t) PROVE SessionInv'
<1>1. /\ phase[t] = "idle" /\ seen' = seen /\ ops' = ops /\ lines' = lines /\ all' = all
      /\ phase' \in [Turn -> Phase]
      /\ \A u \in Turn : phase'[u] = IF u = t THEN "reading" ELSE phase[u]
  BY DEF Begin, SessionInv, SessionTypes, Phase
<1>2. /\ earlier' \in [Turn -> SUBSET Turn]
      /\ \A u \in Turn : earlier'[u] = IF u = t THEN {v \in Turn : phase[v] = "success"} ELSE earlier[u]
  BY DEF Begin, SessionInv, SessionTypes
<1>3. SessionTypes'
  BY <1>1, <1>2 DEF SessionInv, SessionTypes
<1>4. QueueInv' /\ WindowInv'
  BY <1>1, QueueRests
<1>5. \A u \in Turn : \A v \in earlier'[u] : v \in Turn /\ phase[v] = "success" /\ v # t
  BY <1>1, <1>2 DEF SessionInv, SessionTypes, MemoryInv
<1>6. AnswersAreRemembered'
  BY <1>1, <1>2 DEF SessionInv, MemoryInv, AnswersAreRemembered
<1>7. MemoryInv'
  BY <1>1, <1>5, <1>6 DEF MemoryInv
<1>8. UnwrittenInv'
  BY <1>1 DEF SessionInv, UnwrittenInv, Unwritten
<1>9. QED
  BY <1>3, <1>4, <1>7, <1>8 DEF SessionInv

(* What is read from the file: messages only, and all of those in its last
   cap lines. *)
LEMMA ReadableFacts ==
  ASSUME NEW ls \in Seq(FileLine)
  PROVE  /\ LastN(Readable(ls), Cap) \in Seq(Message) /\ Len(LastN(Readable(ls), Cap)) <= Cap
         /\ \A i \in 1..Len(ls) :
              ls[i].text # TornLine /\ i > Len(ls) - Cap => ls[i].text \in ToSet(LastN(Readable(ls), Cap))
<1> DEFINE places == {i \in DOMAIN ls : ls[i].text # TornLine}
           r == Readable(ls)
<1>1. Cap \in Nat \ {0}
  BY SessionAssumption
<1>2. PICK m \in Nat : m = Len(ls) /\ DOMAIN ls = 1..m
  OBVIOUS
<1>3. \A i \in 1..m : ls[i].text \in Message \cup {TornLine}
  <2>1. \A i \in 1..m : ls[i] \in FileLine
    BY <1>2
  <2>2. QED
    BY <2>1 DEF FileLine
<1>4. PICK s : s = Texts(ls)
  OBVIOUS
<1>5. s \in Seq(Message \cup {TornLine}) /\ Len(s) = m /\ \A i \in 1..m : s[i] = ls[i].text
  BY <1>2, <1>3, <1>4 DEF Texts
<1>6. places \in SUBSET (1..Len(s)) /\ places \subseteq 1..m
  BY <1>2, <1>5
<1>7. r = Subsequence(s, places)
  BY <1>4 DEF Readable
<1>8. \A i \in places : s[i] \in Message
  BY <1>2, <1>3, <1>5
<1>9. \A i \in 1..m : ls[i].text # TornLine => i \in places
  BY <1>2
<1> HIDE DEF places, r
<1>10. /\ r \in Seq(Message \cup {TornLine})
       /\ \A n \in 1..Len(r) : \E i \in places : r[n] = s[i]
       /\ \A i \in places : \E n \in 1..Len(r) : r[n] = s[i] /\ Len(r) - n <= m - i
  BY <1>5, <1>6, <1>7, SubsequenceProperties
<1>11. PICK l \in Nat : l = Len(r)
  BY <1>10
<1>12. r \in Seq(Message)
  <2>1. \A n \in 1..l : r[n] \in Message
    BY <1>8, <1>10, <1>11
  <2>2. r \in [1..l -> Message]
    BY <1>10, <1>11, <2>1
  <2>3. QED
    BY <2>2
<1>13. PICK k \in Nat : k = IF l <= Cap THEN l ELSE Cap
  BY <1>1
<1>14. PICK q : q = LastN(r, Cap)
  OBVIOUS
<1>15. /\ q \in Seq(Message) /\ Len(q) = k
       /\ \A i \in 1..k : q[i] = r[l - k + i]
  <2>1. /\ LastN(r, Cap) \in Seq(Message)
        /\ Len(LastN(r, Cap)) = IF Len(r) <= Cap THEN Len(r) ELSE Cap
        /\ \A j \in 1..Len(LastN(r, Cap)) : LastN(r, Cap)[j] = r[Len(r) - Len(LastN(r, Cap)) + j]
    BY <1>1, <1>12, LastNFacts
  <2>2. Len(q) = k
    BY <1>11, <1>13, <1>14, <2>1
  <2>3. QED
    BY <1>11, <1>14, <2>1, <2>2
<1>16. ASSUME NEW i \in 1..m, ls[i].text # TornLine, i > m - Cap
       PROVE  ls[i].text \in ToSet(q)
  <2>1. PICK n \in 1..l : r[n] = s[i] /\ l - n <= m - i
    BY <1>9, <1>10, <1>11, <1>16
  <2>2. l - n < Cap
    BY <1>1, <1>16, <2>1
  <2>3. n - (l - k) \in 1..k /\ l - k + (n - (l - k)) = n
    BY <1>1, <1>13, <2>2
  <2>4. q[n - (l - k)] = ls[i].text
    BY <1>5, <1>15, <2>1, <2>3
  <2>5. DOMAIN q = 1..k
    BY <1>15
  <2>6. QED
    BY <2>3, <2>4, <2>5 DEF ToSet
<1>17. q \in Seq(Message) /\ Len(q) <= Cap
  BY <1>1, <1>13, <1>15
<1>18. QED
  BY <1>2, <1>14, <1>16, <1>17 DEF r

LEMMA GetMessagesKeeps == ASSUME SessionInv, NEW t \in Turn, GetMessages(t) PROVE SessionInv'
<1>1. /\ phase[t] = "reading" /\ earlier' = earlier /\ ops' = ops /\ lines' = lines /\ all' = all
      /\ phase' \in [Turn -> Phase]
      /\ \A u \in Turn : phase'[u] = IF u = t THEN "calling" ELSE phase[u]
  BY DEF GetMessages, SessionInv, SessionTypes, Phase
<1>2. PICK q : q = LastN(Readable(lines), Cap)
  OBVIOUS
<1>3. /\ q \in Seq(Message) /\ Len(q) <= Cap
      /\ \A i \in 1..Len(lines) : lines[i].text # TornLine /\ i > Len(lines) - Cap => lines[i].text \in ToSet(q)
  BY <1>2, ReadableFacts DEF SessionInv, SessionTypes
<1>4. /\ seen' \in [Turn -> Seq(Message)]
      /\ \A u \in Turn : seen'[u] = IF u = t THEN q ELSE seen[u]
  BY <1>2, <1>3 DEF GetMessages, SessionInv, SessionTypes
<1>5. SessionTypes'
  <2>1. \A u \in Turn : Len(seen'[u]) <= Cap
    BY <1>3, <1>4 DEF SessionInv, SessionTypes
  <2>2. QED
    BY <1>1, <1>4, <2>1 DEF SessionInv, SessionTypes
<1>6. QueueInv' /\ WindowInv'
  BY <1>1, QueueRests
<1>7. UnwrittenInv'
  BY <1>1 DEF SessionInv, UnwrittenInv, Unwritten
<1>8. PICK m \in Nat, n \in Nat : m = Len(lines) /\ n = Len(all) /\ DOMAIN all = 1..n
  BY DEF SessionInv, SessionTypes
<1>9. m <= n /\ (m >= Cap \/ m = n) /\ \A i \in 1..m : lines[i] = all[n - m + i]
  BY <1>8 DEF SessionInv, WindowInv
<1>10. ASSUME NEW u \in earlier[t], Answer(u) \notin ToSet(q), NEW i \in 1..n, all[i].text = Answer(u)
       PROVE  i <= n - Cap
  <2>1. u \in Turn
    BY DEF SessionInv, SessionTypes
  <2>2. SUFFICES ASSUME ~(i <= n - Cap) PROVE FALSE
    OBVIOUS
  <2>3. Cap \in Nat
    BY SessionAssumption
  <2>4. i - (n - m) \in 1..m /\ n - m + (i - (n - m)) = i /\ i - (n - m) > m - Cap
    BY <1>9, <2>2, <2>3
  <2>5. lines[i - (n - m)].text = Answer(u)
    BY <1>9, <1>10, <2>4
  <2>6. Answer(u) # TornLine
    BY <2>1, MessagesAreNotTorn
  <2>7. QED
    BY <1>3, <1>8, <1>10, <2>4, <2>5, <2>6
<1>11. AnswersAreRemembered'
  <2> SUFFICES ASSUME NEW v \in Turn, phase'[v] = "calling", NEW u \in earlier[v],
                      Answer(u) \notin ToSet(seen'[v]), NEW i \in 1..n, all[i].text = Answer(u)
               PROVE  i <= n - Cap
    BY <1>1, <1>8 DEF AnswersAreRemembered
  <2>1. CASE v = t
    BY <1>4, <1>10, <2>1
  <2>2. CASE v # t
    BY <1>1, <1>4, <1>8, <2>2 DEF SessionInv, MemoryInv, AnswersAreRemembered
  <2>3. QED
    BY <2>1, <2>2
<1>12. \A v \in Turn : \A u \in earlier'[v] : phase'[u] = "success"
  BY <1>1 DEF SessionInv, SessionTypes, MemoryInv
<1>13. QED
  BY <1>5, <1>6, <1>7, <1>11, <1>12 DEF SessionInv, MemoryInv

LEMMA CallEndsBadlyKeeps == ASSUME SessionInv, NEW t \in Turn, CallEndsBadly(t) PROVE SessionInv'
<1>1. /\ phase[t] = "calling" /\ seen' = seen /\ earlier' = earlier
      /\ ops' = ops /\ lines' = lines /\ all' = all
  BY DEF CallEndsBadly
<1>2. PICK end \in {"failed", "timed_out"} : phase' = [phase EXCEPT ![t] = end]
  BY DEF CallEndsBadly
<1>3. phase' \in [Turn -> Phase] /\ \A u \in Turn : phase'[u] = IF u = t THEN end ELSE phase[u]
  BY <1>2 DEF SessionInv, SessionTypes, Phase
<1>4. Onward
  BY <1>1, <1>3 DEF Onward, Unwritten
<1>5. SessionTypes' /\ NewLinesAreWaitedFor
  BY <1>1, <1>3, NoNewLines DEF SessionInv, SessionTypes
<1>6. QueueInv' /\ WindowInv'
  BY <1>1, <1>3, QueueRests
<1>7. all' \in Seq(FileLine)
  BY <1>5 DEF SessionTypes
<1>8. MemoryInv' /\ UnwrittenInv'
  BY <1>1, <1>4, <1>5, <1>7, NothingIsForgotten, NothingIsWrittenEarly DEF SessionInv
<1>9. QED
  BY <1>5, <1>6, <1>8 DEF SessionInv

LEMMA CallReturnsKeeps == ASSUME SessionInv, NEW t \in Turn, CallReturns(t) PROVE SessionInv'
<1> DEFINE new == Queued(Question(t))
<1>1. /\ phase[t] = "calling" /\ seen' = seen /\ earlier' = earlier
      /\ lines' = lines /\ all' = all /\ ops' = Append(ops, new)
      /\ phase' = [phase EXCEPT ![t] = "appending"]
  BY DEF CallReturns
<1>2. phase' \in [Turn -> Phase] /\ \A u \in Turn : phase'[u] = IF u = t THEN "appending" ELSE phase[u]
  BY <1>1 DEF SessionInv, SessionTypes, Phase
<1>3. Onward
  BY <1>1, <1>2 DEF Onward, Unwritten
<1>4. new \in Op /\ new.stage = "append" /\ new.message.turn = t
  BY DEF Queued, Question, Op, Message
<1> HIDE DEF new
<1>5. PICK m \in Nat : m = Len(ops)
  BY DEF SessionInv, SessionTypes
<1>6. /\ ops' \in Seq(Op) /\ Len(ops') = m + 1 /\ ops'[m + 1] = new
      /\ \A i \in 1..m : ops'[i] = ops[i]
  BY <1>1, <1>4, <1>5, AppendProperties DEF SessionInv, SessionTypes
<1>7. \A i \in 1..(m + 1) : i \in 1..m \/ i = m + 1
  OBVIOUS
<1>8. \A i \in 1..m : phase[ops[i].message.turn] = "appending" /\ ops[i].message.turn # t
                      /\ ops[i].message.turn \in Turn
  BY <1>1, <1>5, OpsAreOfTurns DEF SessionInv, QueueInv
<1>9. \A i, j \in 1..(m + 1) : ops'[i].message.turn = ops'[j].message.turn => i = j
  BY <1>4, <1>5, <1>6, <1>7, <1>8 DEF SessionInv, QueueInv
<1>10. \A i \in 1..(m + 1) : phase'[ops'[i].message.turn] = "appending"
  BY <1>2, <1>4, <1>6, <1>7, <1>8
<1>11. /\ \A i \in 1..(m + 1) : i > 1 => ops'[i].stage = "append"
       /\ \A i \in 1..(m + 1) : ops'[i].stage = "swap" => ops'[i].kept = LastN(lines', Cap)
  BY <1>1, <1>4, <1>5, <1>6, <1>7 DEF SessionInv, QueueInv
<1>12. QueueInv'
  BY <1>6, <1>9, <1>10, <1>11 DEF QueueInv
<1>13. SessionTypes' /\ NewLinesAreWaitedFor /\ all' \in Seq(FileLine)
  BY <1>1, <1>2, <1>6, NoNewLines DEF SessionInv, SessionTypes
<1>14. WindowInv'
  BY <1>1 DEF SessionInv, WindowInv
<1>15. MemoryInv' /\ UnwrittenInv'
  BY <1>1, <1>3, <1>13, NothingIsForgotten, NothingIsWrittenEarly DEF SessionInv
<1>16. QED
  BY <1>12, <1>13, <1>14, <1>15 DEF SessionInv

(* The process dies: the queue is gone, and a write may be cut. *)
LEMMA DieKeeps == ASSUME SessionInv, Die PROVE SessionInv'
<1>1. ops' = << >> /\ seen' = seen /\ earlier' = earlier
      /\ phase' = [t \in Turn |-> IF phase[t] \in {"reading", "calling", "appending"}
                                    THEN "lost" ELSE phase[t]]
  BY DEF Die
<1>2. phase' \in [Turn -> Phase] /\ Onward
  BY <1>1 DEF Onward, Unwritten, SessionInv, SessionTypes, Phase
<1>3. QueueInv' /\ ops' \in Seq(Op)
  BY <1>1 DEF QueueInv
<1>4. lines' \in Seq(FileLine) /\ all' \in Seq(FileLine) /\ WindowInv' /\ NewLinesAreWaitedFor
  <2>1. CASE lines' = lines /\ all' = all
    BY <2>1, UnchangedFile DEF SessionInv
  <2>2. ASSUME ops # << >>, NEW t \in {TornLine, ops[1].message}, NEW ended \in BOOLEAN,
               NEW size \in Size, Grow(Line(t, size, ended))
        PROVE  lines' \in Seq(FileLine) /\ all' \in Seq(FileLine) /\ WindowInv' /\ NewLinesAreWaitedFor
    BY <2>2, FirstLineIsWaitedFor
  <2>3. QED
    BY <2>1, <2>2 DEF Die
<1>5. MemoryInv' /\ UnwrittenInv'
  BY <1>1, <1>2, <1>4, NothingIsForgotten, NothingIsWrittenEarly DEF SessionInv
<1>6. SessionTypes'
  BY <1>1, <1>2, <1>3, <1>4 DEF SessionInv, SessionTypes
<1>7. QED
  BY <1>3, <1>4, <1>5, <1>6 DEF SessionInv

LEMMA SessionInvStep == SessionInv /\ [TurnsNext]_turnVars => SessionInv'
<1> SUFFICES ASSUME SessionInv, [TurnsNext]_turnVars PROVE SessionInv'
  OBVIOUS
<1>1. CASE UNCHANGED turnVars
  <2>1. /\ phase' = phase /\ seen' = seen /\ earlier' = earlier /\ ops' = ops /\ lines' = lines
        /\ all' = all
    BY <1>1 DEF turnVars
  <2>2. SessionTypes' /\ QueueInv' /\ WindowInv'
    BY <2>1 DEF SessionInv, SessionTypes, QueueInv, WindowInv
  <2>3. MemoryInv' /\ UnwrittenInv'
    BY <2>1 DEF SessionInv, MemoryInv, AnswersAreRemembered, UnwrittenInv
  <2>4. QED
    BY <2>2, <2>3 DEF SessionInv
<1>2. CASE \E t \in Turn : Begin(t) \/ GetMessages(t) \/ CallEndsBadly(t) \/ CallReturns(t)
  BY <1>2, BeginKeepsSession, GetMessagesKeeps, CallEndsBadlyKeeps, CallReturnsKeeps
<1>3. CASE RunOp
  BY <1>3, AppendLineKeeps, AppendFailsKeeps, ReadForCutKeeps, SwapKeeps, CutFailsKeeps DEF RunOp
<1>4. CASE Die
  BY <1>4, DieKeeps
<1>5. QED
  BY <1>1, <1>2, <1>3, <1>4 DEF TurnsNext

(* Queue, file and turns agree in every reachable state (json_file.ts,
   executeLLMCall). *)
THEOREM SessionIsConsistent == TurnsSpec => []SessionInv
<1>1. QED
  BY SessionInvInit, SessionInvStep, PTL DEF TurnsSpec

(* Turns are in one of the stages of the code, what an LLM is given is at
   most cap messages, and only turns that wait are in the promise chain. *)
THEOREM SessionTypesHold == TurnsSpec => []SessionTypeOK
<1>1. SessionInv => SessionTypeOK
  <2> SUFFICES ASSUME SessionInv PROVE SessionTypeOK
    OBVIOUS
  <2>1. phase \in [Turn -> Phase] /\ \A i \in DOMAIN ops : phase[ops[i].message.turn] = "appending"
    <3>1. DOMAIN ops = 1..Len(ops)
      BY DEF SessionInv, SessionTypes
    <3>2. QED
      BY <3>1 DEF SessionInv, SessionTypes, QueueInv
  <2>2. \A t \in Turn : Len(seen[t]) <= Cap /\ ToSet(seen[t]) \subseteq Message
    <3>1. \A t \in Turn : Len(seen[t]) <= Cap /\ seen[t] \in Seq(Message)
      BY DEF SessionInv, SessionTypes
    <3>2. \A t \in Turn : \A i \in DOMAIN seen[t] : seen[t][i] \in Message
      BY <3>1
    <3>3. QED
      BY <3>1, <3>2 DEF ToSet
  <2>3. \A i \in DOMAIN lines : lines[i].text = TornLine \/ lines[i].text \in Message
    <3>1. \A i \in DOMAIN lines : lines[i] \in FileLine
      BY DEF SessionInv, SessionTypes
    <3>2. QED
      BY <3>1 DEF FileLine
  <2>4. QED
    BY <2>1, <2>2, <2>3 DEF SessionTypeOK
<1>2. QED
  BY <1>1, SessionIsConsistent, PTL

LEMMA WindowIsKept == SessionInv => KeepsTheLastLines
<1> SUFFICES ASSUME SessionInv PROVE KeepsTheLastLines
  OBVIOUS
<1>1. PICK m \in Nat, n \in Nat : m = Len(lines) /\ n = Len(all)
  BY DEF SessionInv, SessionTypes
<1>2. m <= n /\ (m >= Cap \/ m = n) /\ \A i \in 1..m : lines[i] = all[n - m + i]
  BY <1>1 DEF SessionInv, WindowInv
<1>3. PICK q : q = LastN(all, m)
  OBVIOUS
<1>4. q \in Seq(FileLine) /\ Len(q) = m /\ \A i \in 1..m : q[i] = all[n - m + i]
  <2>1. /\ LastN(all, m) \in Seq(FileLine)
        /\ Len(LastN(all, m)) = IF Len(all) <= m THEN Len(all) ELSE m
        /\ \A j \in 1..Len(LastN(all, m)) : LastN(all, m)[j] = all[Len(all) - Len(LastN(all, m)) + j]
    BY LastNFacts DEF SessionInv, SessionTypes
  <2>2. Len(q) = m
    BY <1>1, <1>2, <1>3, <2>1
  <2>3. QED
    BY <1>1, <1>3, <2>1, <2>2
<1>5. lines = q
  <2>1. \A i \in 1..m : lines[i] = q[i]
    BY <1>2, <1>4
  <2>2. lines \in Seq(FileLine)
    BY DEF SessionInv, SessionTypes
  <2>3. QED
    BY <1>1, <1>4, <2>1, <2>2, SeqEqual
<1>6. m \in 0..Len(all) /\ (m >= Cap \/ m = Len(all)) /\ Texts(lines) = Texts(LastN(all, m))
  BY <1>1, <1>2, <1>3, <1>5
<1>7. QED
  BY <1>6 DEF KeepsTheLastLines

(* The history a turn is given is what was answered before it, whatever
   overlaps with it, is cut, fails or comes too late (executeLLMCall,
   serialize, truncateToCap). *)
THEOREM HistoryStaysTheAnswered == TurnsSpec => []HistoryIsTheAnswered
<1>1. SessionInv => HistoryIsTheAnswered
  <2> SUFFICES ASSUME SessionInv PROVE HistoryIsTheAnswered
    OBVIOUS
  <2>1. KeepsTheLastLines
    BY WindowIsKept
  <2>2. AnswersAreRemembered
    BY DEF SessionInv, MemoryInv
  <2>3. LateAnswersAreForgotten
    <3>1. DOMAIN all = 1..Len(all)
      BY DEF SessionInv, SessionTypes
    <3>2. QED
      BY <3>1 DEF SessionInv, UnwrittenInv, Unwritten, LateAnswersAreForgotten
  <2>4. QED
    BY <2>1, <2>2, <2>3 DEF HistoryIsTheAnswered
<1>2. QED
  BY <1>1, SessionIsConsistent, PTL

-----------------------------------------------------------------------------
(* The stages before a save has given its file a name, and those in which it has a temporary one. *)
Before == {"idle", "read", "kept", "open", "written"}
HasTmp(s) == saves[s].stage \in {"open", "written"}

(* The shape of the state. *)
EnvTypes ==
  /\ DOMAIN text = Inode /\ named \in Inode /\ tmp \in [Save -> Inode \cup {None}]
  /\ apart \in BOOLEAN /\ alone \in BOOLEAN
  /\ DOMAIN saves = Save
  /\ \A s \in Save : /\ DOMAIN saves[s] = {"stage", "text", "name", "inode"}
                     /\ saves[s].name \in Save /\ saves[s].inode \in Inode

(* What a save is going to write is whole. *)
WholeTexts ==
  \A s \in Save : saves[s].stage \in {"read", "kept", "open", "written"} =>
                    saves[s].text \notin {Empty, Mixture}

(* As long as no save opened the temporary file of another. *)
ApartInv ==
  /\ text[named] \notin {Empty, Mixture}
  /\ \A s \in Save :
       /\ saves[s].inode = s
       /\ saves[s].stage \in Before => named # s
       /\ HasTmp(s) => tmp[saves[s].name] = s
       /\ saves[s].stage = "written" => text[s] \notin {Empty, Mixture}

(* As long as no two saves overlapped. *)
AloneInv ==
  /\ apart
  /\ \A s, o \in Save : UnderWay(s) /\ UnderWay(o) => s = o
  /\ \A n \in Save : tmp[n] # None => \E s \in Save : HasTmp(s) /\ saves[s].name = n
  /\ had \subseteq {text[named]} \cup backups
  /\ \A s \in Save : saves[s].stage = "kept" \/ HasTmp(s) => text[named] \in backups

EnvInv == EnvTypes /\ WholeTexts /\ (apart => ApartInv) /\ (alone => AloneInv)

(* What is rendered is neither empty nor a mixture. *)
LEMMA RenderedIsWhole ==
  ASSUME NEW config
  PROVE  RenderSetupEnvFile(config) \notin {Empty, Mixture}
<1>1. "LLM_BACKEND" \in DOMAIN RenderSetupEnvFile(config)
  BY DEF RenderSetupEnvFile, WrittenVariables
<1> QED BY <1>1 DEF Empty, Mixture

(* An operator's file is whole, and nothing has been saved. *)
LEMMA EnvInvInit == ProvisioningInit => EnvInv
<1> SUFFICES ASSUME ProvisioningInit PROVE EnvInv
  OBVIOUS
<1>1. PICK first \in FirstText :
        /\ text = [i \in Inode |-> IF i = "first file" THEN first ELSE Empty]
        /\ had = {first}
  BY DEF ProvisioningInit
<1>2. /\ named = "first file" /\ tmp = [s \in Save |-> None] /\ backups = {}
      /\ alone = TRUE /\ apart = TRUE
      /\ saves = [s \in Save |-> [stage |-> "idle", text |-> Empty, name |-> s, inode |-> s]]
  BY DEF ProvisioningInit
<1>3. text[named] = first /\ first \notin {Empty, Mixture} /\ "first file" \notin Save
      /\ None \notin Save
  BY <1>1, <1>2, ProvisioningAssumption DEF Inode, None
<1>4. \A s \in Save : /\ saves[s].stage = "idle" /\ saves[s].name = s /\ saves[s].inode = s
                      /\ DOMAIN saves[s] = {"stage", "text", "name", "inode"}
  BY <1>2
<1>5. EnvTypes
  BY <1>1, <1>2, <1>4 DEF EnvTypes, Inode
<1>6. ApartInv
  BY <1>3, <1>4, <1>2 DEF ApartInv, HasTmp
<1>7. AloneInv
  BY <1>1, <1>2, <1>3, <1>4 DEF AloneInv, HasTmp, UnderWay
<1> QED BY <1>4, <1>5, <1>6, <1>7 DEF EnvInv, WholeTexts

(* What the stage of one save becomes. *)
LEMMA ToFacts ==
  ASSUME EnvTypes, NEW s \in Save, NEW stage, To(s, stage)
  PROVE  /\ DOMAIN saves' = Save
         /\ \A o \in Save : /\ DOMAIN saves'[o] = {"stage", "text", "name", "inode"}
                            /\ saves'[o].name = saves[o].name /\ saves'[o].inode = saves[o].inode
                            /\ saves'[o].text = saves[o].text
                            /\ saves'[o].stage = IF o = s THEN stage ELSE saves[o].stage
<1>1. /\ DOMAIN saves' = Save /\ saves'[s] = [saves[s] EXCEPT !.stage = stage]
      /\ \A o \in Save \ {s} : saves'[o] = saves[o]
  BY DEF To, EnvTypes
<1>2. PICK r : r = saves[s]
  OBVIOUS
<1>3. DOMAIN r = {"stage", "text", "name", "inode"}
  BY <1>2 DEF EnvTypes
<1>4. PICK q : q = [r EXCEPT !.stage = stage]
  OBVIOUS
<1>5. /\ DOMAIN q = DOMAIN r /\ q.stage = stage /\ q.name = r.name /\ q.inode = r.inode
      /\ q.text = r.text
  BY <1>3, <1>4
<1> QED BY <1>1, <1>2, <1>3, <1>4, <1>5 DEF EnvTypes

(* A boot only reads the file. *)
LEMMA StartKeeps == ASSUME EnvInv, StartGateway \/ UNCHANGED envVars PROVE EnvInv'
<1>1. UNCHANGED <<text, named, tmp, backups, saves, had, alone, apart>>
  BY DEF StartGateway, envVars, files
<1> QED BY <1>1 DEF EnvInv, EnvTypes, WholeTexts, ApartInv, AloneInv, HasTmp, UnderWay

(* A stop loses the saves under way and the temporary names, no file. *)
LEMMA StopKeeps == ASSUME EnvInv, StopGateway PROVE EnvInv'
<1>1. /\ tmp' = [s \in Save |-> None] /\ UNCHANGED <<text, named, backups, had, alone, apart>>
      /\ saves' = [s \in Save |-> IF UnderWay(s) THEN [saves[s] EXCEPT !.stage = "lost"]
                                  ELSE saves[s]]
  BY DEF StopGateway
<1>2. /\ DOMAIN saves' = Save
      /\ \A s \in Save : /\ DOMAIN saves'[s] = DOMAIN saves[s] /\ saves'[s].inode = saves[s].inode
                         /\ saves'[s].name = saves[s].name
                         /\ saves'[s].stage = IF UnderWay(s) THEN "lost" ELSE saves[s].stage
  <2>1. ASSUME NEW r, DOMAIN r = {"stage", "text", "name", "inode"}
        PROVE  LET q == [r EXCEPT !.stage = "lost"]
               IN /\ DOMAIN q = DOMAIN r /\ q.inode = r.inode /\ q.name = r.name
                  /\ q.stage = "lost"
    BY <2>1
  <2> QED BY <1>1, <2>1 DEF EnvInv, EnvTypes
<1>3. \A s \in Save : /\ saves'[s].stage \notin {"read", "kept", "open", "written"}
                      /\ saves'[s].stage \in Before => saves'[s].stage = saves[s].stage
  BY <1>2 DEF UnderWay, Before
<1>4. EnvTypes' /\ WholeTexts'
  BY <1>1, <1>2, <1>3 DEF EnvInv, EnvTypes, WholeTexts
<1>5. apart => ApartInv'
  BY <1>1, <1>2, <1>3 DEF EnvInv, ApartInv, HasTmp
<1>6. alone => AloneInv'
  BY <1>1, <1>3 DEF EnvInv, AloneInv, HasTmp, UnderWay
<1> QED BY <1>1, <1>4, <1>5, <1>6 DEF EnvInv

(* The file goes to a backup before the save makes its temporary file. *)
LEMMA BackupKeeps == ASSUME EnvInv, NEW s \in Save, BackupEnvFile(s) PROVE EnvInv'
<1>1. /\ saves[s].stage = "read" /\ To(s, "kept") /\ backups' = backups \cup {text[named]}
      /\ UNCHANGED <<text, named, tmp, had, alone, apart>>
  BY DEF BackupEnvFile
<1>2. EnvTypes
  BY DEF EnvInv
<1>3. EnvTypes' /\ WholeTexts'
  BY <1>1, <1>2, ToFacts DEF EnvInv, EnvTypes, WholeTexts
<1>4. apart => ApartInv'
  BY <1>1, <1>2, ToFacts DEF EnvInv, ApartInv, HasTmp, Before
<1>5. alone => AloneInv'
  <2>1. \A o \in Save : UnderWay(o)' <=> UnderWay(o)
    BY <1>1, <1>2, ToFacts DEF UnderWay
  <2>2. \A o \in Save : (HasTmp(o)' <=> HasTmp(o)) /\ saves'[o].name = saves[o].name
    BY <1>1, <1>2, ToFacts DEF HasTmp
  <2> QED BY <1>1, <2>1, <2>2 DEF EnvInv, AloneInv
<1> QED BY <1>1, <1>3, <1>4, <1>5 DEF EnvInv

(* A save that begins while none is under way keeps them from overlapping. *)
LEMMA BeginKeeps ==
  ASSUME EnvInv, NEW s \in Save, NEW next, BeginSave(s, next),
         \/ next.stage = "refused"
         \/ next.stage = "read" /\ next.text \notin {Empty, Mixture}
  PROVE  EnvInv'
<1>1. /\ saves[s].stage = "idle"
      /\ saves' = [saves EXCEPT ![s] = [@ EXCEPT !.stage = next.stage, !.text = next.text]]
      /\ alone' = (alone /\ \A other \in Save : ~UnderWay(other))
      /\ UNCHANGED <<text, named, tmp, backups, had, apart>>
  BY DEF BeginSave, files
<1>2. PICK stage, t : stage = next.stage /\ t = next.text
  OBVIOUS
<1>3. ASSUME NEW r, DOMAIN r = {"stage", "text", "name", "inode"}
      PROVE  LET q == [r EXCEPT !.stage = stage, !.text = t]
             IN /\ DOMAIN q = DOMAIN r /\ q.inode = r.inode /\ q.name = r.name
                /\ q.stage = stage /\ q.text = t
  BY <1>3
<1>4. /\ DOMAIN saves' = Save /\ saves'[s] = [saves[s] EXCEPT !.stage = stage, !.text = t]
      /\ \A o \in Save \ {s} : saves'[o] = saves[o]
  BY <1>1, <1>2 DEF EnvInv, EnvTypes
<1>5. /\ DOMAIN saves'[s] = DOMAIN saves[s] /\ saves'[s].inode = saves[s].inode
      /\ saves'[s].name = saves[s].name /\ saves'[s].stage = stage /\ saves'[s].text = t
  BY <1>3, <1>4 DEF EnvInv, EnvTypes
<1>6. EnvTypes' /\ WholeTexts'
  BY <1>1, <1>2, <1>4, <1>5 DEF EnvInv, EnvTypes, WholeTexts
<1>7. apart => ApartInv'
  BY <1>1, <1>2, <1>4, <1>5 DEF EnvInv, ApartInv, HasTmp, Before
<1>8. alone' => AloneInv'
  <2> SUFFICES ASSUME alone' PROVE AloneInv'
    OBVIOUS
  <2>1. AloneInv /\ \A o \in Save : ~UnderWay(o)
    BY <1>1 DEF EnvInv, EnvTypes
  <2>2. \A o \in Save : o # s => ~UnderWay(o)'
    BY <1>4, <2>1 DEF UnderWay
  <2>3. \A o \in Save : ~HasTmp(o) /\ ~HasTmp(o)' /\ saves'[o].stage # "kept"
    BY <1>2, <1>4, <1>5, <2>1 DEF UnderWay, HasTmp
  <2> QED BY <1>1, <2>1, <2>2, <2>3 DEF AloneInv
<1> QED BY <1>1, <1>6, <1>7, <1>8 DEF EnvInv

(* What is accepted is a whole text. *)
LEMMA AcceptedIsWhole ==
  ASSUME NEW config, NEW patch
  PROVE  LET next == Accepted(config, patch)
         IN \/ next.stage = "refused"
            \/ next.stage = "read" /\ next.text \notin {Empty, Mixture}
<1>1. PICK patched : patched = ApplySettingsPatch(config, patch)
  OBVIOUS
<1>2. PICK t : t = RenderSetupEnvFile(patched)
  OBVIOUS
<1>3. t \notin {Empty, Mixture}
  BY <1>2, RenderedIsWhole
<1> QED BY <1>1, <1>2, <1>3 DEF Accepted

(* The two ways a save begins. *)
LEMMA BeginningKeeps ==
  ASSUME EnvInv, NEW s \in Save, NEW patch, ReadForUpdate(s, patch) \/ RunSetupCommand(s, patch)
  PROVE  EnvInv'
<1>1. CASE ReadForUpdate(s, patch)
  <2>1. PICK config : config = ConfigFromEnv(LoadEnvFile(text[named], gateway))
    OBVIOUS
  <2>2. PICK next : next = IF ValidConfig(config) THEN Accepted(config, patch)
                           ELSE [stage |-> "refused", text |-> Empty]
    OBVIOUS
  <2>3. BeginSave(s, next)
    BY <1>1, <2>1, <2>2 DEF ReadForUpdate
  <2>4. \/ next.stage = "refused"
        \/ next.stage = "read" /\ next.text \notin {Empty, Mixture}
    BY <2>2, AcceptedIsWhole
  <2> QED BY <2>3, <2>4, BeginKeeps
<1>2. CASE RunSetupCommand(s, patch)
  BY <1>2, AcceptedIsWhole, BeginKeeps DEF RunSetupCommand
<1> QED BY <1>1, <1>2

(* A write that fails takes its temporary file away, and the file stays. *)
LEMMA FailKeeps == ASSUME EnvInv, NEW s \in Save, FailWrite(s) PROVE EnvInv'
<1>1. /\ HasTmp(s) /\ To(s, "failed") /\ tmp' = [tmp EXCEPT ![saves[s].name] = None]
      /\ UNCHANGED <<text, named, backups, had, alone, apart>>
  BY DEF FailWrite, HasTmp
<1>2. EnvTypes /\ saves[s].name \in Save
  BY DEF EnvInv, EnvTypes
<1>3. EnvTypes' /\ WholeTexts'
  BY <1>1, <1>2, ToFacts DEF EnvInv, EnvTypes, WholeTexts
<1>4. \A o \in Save : /\ HasTmp(o)' <=> HasTmp(o) /\ o # s
                      /\ UnderWay(o)' <=> UnderWay(o) /\ o # s
                      /\ saves'[o].name = saves[o].name
  BY <1>1, <1>2, ToFacts DEF HasTmp, UnderWay
<1>5. apart => ApartInv'
  <2>1. apart => \A o \in Save \ {s} : HasTmp(o) => saves[o].name # saves[s].name
    BY <1>1 DEF EnvInv, ApartInv
  <2> QED BY <1>1, <1>2, <1>4, <2>1, ToFacts DEF EnvInv, EnvTypes, ApartInv, Before
<1>6. alone => AloneInv'
  <2>1. ASSUME alone, NEW n \in Save, tmp'[n] # None
        PROVE  \E o \in Save : HasTmp(o)' /\ saves'[o].name = n
    <3>1. tmp[n] # None /\ n # saves[s].name
      BY <1>1, <1>2, <2>1 DEF EnvTypes
    <3>2. PICK o \in Save : HasTmp(o) /\ saves[o].name = n
      BY <2>1, <3>1 DEF EnvInv, AloneInv
    <3> QED BY <1>4, <3>1, <3>2
  <2> QED BY <1>1, <1>4, <2>1, ToFacts, <1>2 DEF EnvInv, AloneInv
<1> QED BY <1>1, <1>3, <1>5, <1>6 DEF EnvInv

(* The temporary file a save opens is its own, or it is another's and apart is over. *)
LEMMA OpenKeeps == ASSUME EnvInv, NEW s \in Save, OpenTmp(s) PROVE EnvInv'
<1>1. saves[s].stage = "kept" /\ UNCHANGED <<named, backups, had, alone>>
  BY DEF OpenTmp
<1>2. PICK name \in {s} \cup {saves[o].name : o \in {o \in Save :
                                              saves[o].stage \in {"open", "written"}}} :
        LET i == IF tmp[name] = None THEN s ELSE tmp[name]
        IN /\ tmp' = [tmp EXCEPT ![name] = i]
           /\ text' = [text EXCEPT ![i] = Empty]
           /\ apart' = (apart /\ i = s)
           /\ saves' = [saves EXCEPT ![s] = [@ EXCEPT !.stage = "open", !.name = name, !.inode = i]]
  BY DEF OpenTmp
<1>3. PICK i : i = IF tmp[name] = None THEN s ELSE tmp[name]
  OBVIOUS
<1>4. /\ tmp' = [tmp EXCEPT ![name] = i] /\ text' = [text EXCEPT ![i] = Empty]
      /\ apart' = (apart /\ i = s)
      /\ saves' = [saves EXCEPT ![s] = [@ EXCEPT !.stage = "open", !.name = name, !.inode = i]]
  BY <1>2, <1>3
<1>5. name \in Save /\ i \in Inode
  <2>1. name = s \/ \E o \in Save : HasTmp(o) /\ saves[o].name = name
    BY DEF HasTmp
  <2>2. name \in Save
    BY <2>1 DEF EnvInv, EnvTypes
  <2> QED BY <1>3, <2>2 DEF EnvInv, EnvTypes, Inode
<1>6. ASSUME NEW r, DOMAIN r = {"stage", "text", "name", "inode"}
      PROVE  LET q == [r EXCEPT !.stage = "open", !.name = name, !.inode = i]
             IN /\ DOMAIN q = DOMAIN r /\ q.inode = i /\ q.name = name
                /\ q.stage = "open" /\ q.text = r.text
  BY <1>6
<1>7. /\ DOMAIN saves' = Save
      /\ saves'[s] = [saves[s] EXCEPT !.stage = "open", !.name = name, !.inode = i]
      /\ \A o \in Save \ {s} : saves'[o] = saves[o]
  BY <1>4 DEF EnvInv, EnvTypes
<1>8. /\ DOMAIN saves'[s] = DOMAIN saves[s] /\ saves'[s].inode = i
      /\ saves'[s].name = name /\ saves'[s].stage = "open" /\ saves'[s].text = saves[s].text
  BY <1>6, <1>7 DEF EnvInv, EnvTypes
<1>9. EnvTypes' /\ WholeTexts'
  BY <1>1, <1>4, <1>5, <1>7, <1>8 DEF EnvInv, EnvTypes, WholeTexts
<1>10. apart' => ApartInv'
  <2> SUFFICES ASSUME apart, i = s PROVE ApartInv'
    BY <1>4
  <2>1. ApartInv
    BY DEF EnvInv
  <2>2. \A o \in Save \ {s} : HasTmp(o) => saves[o].name # name
    BY <1>3, <2>1, ProvisioningAssumption DEF ApartInv, None
  <2>3. named # s /\ text'[named] = text[named]
    BY <1>1, <1>4, <2>1 DEF ApartInv, EnvInv, EnvTypes, Before
  <2>4. tmp'[name] = s /\ \A n \in Save \ {name} : tmp'[n] = tmp[n]
    BY <1>4, <1>5 DEF EnvInv, EnvTypes
  <2>5. \A o \in Save \ {s} : text'[o] = text[o]
    BY <1>4 DEF EnvInv, EnvTypes, Inode
  <2>6. ASSUME NEW o \in Save \ {s}
        PROVE  /\ saves'[o] = saves[o] /\ text'[o] = text[o]
               /\ HasTmp(o)' <=> HasTmp(o)
               /\ HasTmp(o) => tmp'[saves[o].name] = o
    <3>1. saves'[o] = saves[o]
      BY <1>7
    <3>2. HasTmp(o) => saves[o].name \in Save \ {name} /\ tmp[saves[o].name] = o
      BY <2>1, <2>2 DEF ApartInv, EnvInv, EnvTypes
    <3> QED BY <2>4, <2>5, <3>1, <3>2 DEF HasTmp
  <2>7. /\ saves'[s].inode = s /\ named' # s /\ tmp'[saves'[s].name] = s
        /\ saves'[s].stage # "written"
    BY <1>1, <1>8, <2>3, <2>4
  <2>8. text'[named'] \notin {Empty, Mixture}
    BY <1>1, <2>1, <2>3 DEF ApartInv
  <2> QED BY <1>1, <2>1, <2>6, <2>7, <2>8 DEF ApartInv
<1>11. alone => AloneInv'
  <2> SUFFICES ASSUME alone PROVE AloneInv'
    OBVIOUS
  <2>1. AloneInv /\ ApartInv
    BY DEF EnvInv, AloneInv
  <2>2. \A o \in Save : ~HasTmp(o)
    BY <1>1, <2>1 DEF AloneInv, HasTmp, UnderWay
  <2>3. name = s /\ i = s
    BY <1>2, <1>3, <2>1, <2>2 DEF AloneInv, HasTmp
  <2>4. text'[named] = text[named]
    BY <1>1, <1>4, <2>1, <2>3 DEF ApartInv, EnvInv, EnvTypes, Before
  <2>5. apart'
    BY <1>4, <2>1, <2>3 DEF AloneInv
  <2>6. \A n \in Save \ {s} : tmp'[n] = None
    BY <1>4, <2>1, <2>2, <2>3 DEF AloneInv, EnvInv, EnvTypes
  <2>7. \A o \in Save : UnderWay(o)' <=> UnderWay(o)
    BY <1>1, <1>7, <1>8 DEF UnderWay
  <2>8. HasTmp(s)' /\ \A o \in Save \ {s} : ~HasTmp(o)'
    BY <1>7, <1>8, <2>2 DEF HasTmp
  <2> QED BY <1>1, <1>7, <1>8, <2>1, <2>3, <2>4, <2>5, <2>6, <2>7, <2>8 DEF AloneInv
<1> QED BY <1>1, <1>9, <1>10, <1>11 DEF EnvInv

(* A write to a file of one's own leaves the text, and the named file alone. *)
LEMMA WriteKeeps == ASSUME EnvInv, NEW s \in Save, WriteTmp(s) PROVE EnvInv'
<1> DEFINE i == saves[s].inode
<1>1. /\ saves[s].stage = "open" /\ To(s, "written") /\ Had(named)
      /\ UNCHANGED <<named, tmp, backups, alone, apart>>
  BY DEF WriteTmp
<1>2. PICK left : /\ text' = [text EXCEPT ![i] = left]
                  /\ \/ left = saves[s].text
                     \/ left = Mixture /\ \E o \in Save \ {s} : saves[o].inode = i
  BY DEF WriteTmp
<1>3. EnvTypes /\ i \in Inode
  BY DEF EnvInv, EnvTypes
<1>4. EnvTypes' /\ WholeTexts'
  BY <1>1, <1>2, <1>3, ToFacts DEF EnvInv, EnvTypes, WholeTexts
<1>5. \A o \in Save : /\ HasTmp(o)' <=> HasTmp(o)
                      /\ UnderWay(o)' <=> UnderWay(o)
                      /\ saves'[o].name = saves[o].name
  BY <1>1, <1>3, ToFacts DEF HasTmp, UnderWay
<1>6. ASSUME apart PROVE named # s /\ text' = [text EXCEPT ![s] = saves[s].text]
  <2>1. ApartInv /\ i = s
    BY <1>6 DEF EnvInv, ApartInv
  <2>2. \A o \in Save \ {s} : saves[o].inode # i
    BY <2>1 DEF ApartInv
  <2> QED BY <1>1, <1>2, <2>1, <2>2 DEF ApartInv, Before
<1>7. apart => ApartInv'
  <2> SUFFICES ASSUME apart PROVE ApartInv'
    OBVIOUS
  <2>1. text'[named] = text[named] /\ text'[s] = saves[s].text
        /\ \A o \in Save \ {s} : text'[o] = text[o]
    BY <1>6, <1>3 DEF EnvTypes, Inode
  <2>2. saves[s].text \notin {Empty, Mixture}
    BY <1>1 DEF EnvInv, WholeTexts
  <2> QED BY <1>1, <1>3, <1>5, <2>1, <2>2, ToFacts DEF EnvInv, ApartInv, Before
<1>8. alone => AloneInv'
  <2> SUFFICES ASSUME alone PROVE AloneInv'
    OBVIOUS
  <2>1. apart
    BY DEF EnvInv, AloneInv
  <2>2. text'[named] = text[named]
    BY <1>6, <1>3, <2>1 DEF EnvTypes, Inode
  <2>3. had' = had \cup ({text[named]} \ {Empty, Mixture})
    BY <1>1, <2>2 DEF Had
  <2> QED BY <1>1, <1>3, <1>5, <2>1, <2>2, <2>3, ToFacts DEF EnvInv, AloneInv, HasTmp
<1> QED BY <1>1, <1>4, <1>7, <1>8 DEF EnvInv

(* The rename gives the file a whole text; what it was is in a backup. *)
LEMMA RenameKeeps == ASSUME EnvInv, NEW s \in Save, RenameTmp(s) PROVE EnvInv'
<1>1. PICK i : i = tmp[saves[s].name]
  OBVIOUS
<1>2. /\ saves[s].stage = "written" /\ i # None /\ To(s, "saved")
      /\ named' = i /\ tmp' = [tmp EXCEPT ![saves[s].name] = None]
      /\ text' = text /\ Had(i)
      /\ UNCHANGED <<backups, alone, apart>>
  BY <1>1 DEF RenameTmp
<1>3. EnvTypes /\ saves[s].name \in Save /\ i \in Inode
  BY <1>1, <1>2 DEF EnvInv, EnvTypes
<1>4. EnvTypes' /\ WholeTexts'
  BY <1>2, <1>3, ToFacts DEF EnvInv, EnvTypes, WholeTexts
<1>5. \A o \in Save : /\ HasTmp(o)' <=> HasTmp(o) /\ o # s
                      /\ UnderWay(o)' <=> UnderWay(o) /\ o # s
                      /\ saves'[o].name = saves[o].name
  BY <1>2, <1>3, ToFacts DEF HasTmp, UnderWay
<1>6. HasTmp(s) /\ UnderWay(s)
  BY <1>2 DEF HasTmp, UnderWay
<1>7. apart => ApartInv'
  <2> SUFFICES ASSUME apart PROVE ApartInv'
    OBVIOUS
  <2>1. ApartInv /\ i = s
    BY <1>1, <1>6 DEF EnvInv, ApartInv
  <2>2. \A o \in Save \ {s} : HasTmp(o) => saves[o].name # saves[s].name
    BY <1>6, <2>1 DEF ApartInv
  <2>3. text'[named'] \notin {Empty, Mixture}
    BY <1>2, <2>1 DEF ApartInv
  <2>4. saves'[s].stage = "saved" /\ \A o \in Save \ {s} : saves'[o].stage = saves[o].stage
    BY <1>2, <1>3, ToFacts
  <2>5. \A o \in Save : saves'[o].inode = o
    BY <1>2, <1>3, <2>1, ToFacts DEF ApartInv
  <2>6. \A n \in Save \ {saves[s].name} : tmp'[n] = tmp[n]
    BY <1>2, <1>3 DEF EnvTypes
  <2> QED BY <1>2, <1>3, <1>5, <2>1, <2>2, <2>3, <2>4, <2>5, <2>6 DEF ApartInv, Before, EnvTypes
<1>8. alone => AloneInv'
  <2> SUFFICES ASSUME alone PROVE AloneInv'
    OBVIOUS
  <2>1. AloneInv /\ apart
    BY DEF EnvInv, AloneInv
  <2>2. \A o \in Save : ~UnderWay(o)'
    BY <1>5, <1>6, <2>1 DEF AloneInv
  <2>3. \A o \in Save : ~HasTmp(o)' /\ saves'[o].stage # "kept"
    BY <2>2 DEF HasTmp, UnderWay
  <2>4. had \subseteq backups
    BY <1>6, <2>1 DEF AloneInv
  <2>5. had' \subseteq {text'[named']} \cup backups'
    BY <1>2, <2>4 DEF Had
  <2>6. \A n \in Save : tmp'[n] = None
    <3>1. \A o \in Save : HasTmp(o) => o = s
      BY <1>6, <2>1 DEF AloneInv, HasTmp, UnderWay
    <3>2. \A n \in Save \ {saves[s].name} : tmp[n] = None
      BY <2>1, <3>1 DEF AloneInv
    <3> QED BY <1>2, <1>3, <3>2 DEF EnvTypes
  <2> QED BY <1>2, <2>1, <2>2, <2>3, <2>5, <2>6 DEF AloneInv
<1> QED BY <1>2, <1>4, <1>7, <1>8 DEF EnvInv

(* Every step of the environment file keeps the invariant. *)
LEMMA EnvInvStep == EnvInv /\ [ProvisioningNext]_envVars => EnvInv'
BY StartKeeps, StopKeeps, BackupKeeps, BeginningKeeps, FailKeeps, OpenKeeps, WriteKeeps, RenameKeeps
   DEF ProvisioningNext

(* A whole file, and every text it had in a backup: for any number of saves, wherever the process
   dies (writeEnvFileAtomic). *)
THEOREM EnvFileStays == ProvisioningSpec => []EnvFileIsKept
<1>1. ProvisioningSpec => []EnvInv
  BY EnvInvInit, EnvInvStep, PTL DEF ProvisioningSpec
<1>2. EnvInv => EnvFileIsKept
  BY DEF EnvInv, ApartInv, AloneInv, EnvFileIsKept
<1> QED BY <1>1, <1>2, PTL

(* The variables of the LLM that a rendered file may have. *)
LlmVariables ==
  {"ANTHROPIC_API_KEY", "ANTHROPIC_MODEL", "ANTHROPIC_ENDPOINT",
   "OPENAI_API_KEY", "OPENAI_MODEL", "OPENAI_ENDPOINT",
   "OPENAI_COMPAT_API_KEY", "OPENAI_COMPAT_MODEL", "OPENAI_COMPAT_ENDPOINT"}

(* What the rendered file says. *)
LEMMA RenderFacts ==
  ASSUME NEW c, NEW t, t = RenderSetupEnvFile(c)
  PROVE  /\ DOMAIN t = WrittenVariables(c)
         /\ t["LLM_BACKEND"] = c.provider /\ t["WEBCHAT_HOST"] = c.host
         /\ t["WEBCHAT_PORT"] = c.port
         /\ \A name \in SetupTokens : t[name] = c.tokens[name]
         /\ \A name \in SetupDirs : t[name] = c.dirs[name]
         /\ "BLUE_TANUKI_LLM_TIMEOUT_MS" \in DOMAIN t => t["BLUE_TANUKI_LLM_TIMEOUT_MS"] = c.route
         /\ \A name \in DOMAIN t \cap LlmVariables : t[name] = "given"
<1>1. DOMAIN t = WrittenVariables(c)
  BY DEF RenderSetupEnvFile
<1>2. \A name \in WrittenVariables(c) : t[name] =
     CASE name = "LLM_BACKEND"  -> c.provider
       [] name = "WEBCHAT_HOST" -> c.host
       [] name = "WEBCHAT_PORT" -> c.port
       [] name \in SetupTokens -> c.tokens[name]
       [] name \in SetupDirs   -> c.dirs[name]
       [] name = "BLUE_TANUKI_LLM_BACKEND_HINT" -> c.hint
       [] name = "BLUE_TANUKI_LLM_TIMEOUT_MS"   -> c.route
       [] OTHER -> "given"
  BY DEF RenderSetupEnvFile
<1>3. {"LLM_BACKEND", "WEBCHAT_HOST", "WEBCHAT_PORT"} \cup SetupTokens \cup SetupDirs
        \subseteq WrittenVariables(c)
  BY DEF WrittenVariables
<1>4. t["LLM_BACKEND"] = c.provider
  BY <1>2, <1>3 DEF SetupDirs, SetupTokens, ChatTokens
<1>5. t["WEBCHAT_HOST"] = c.host
  BY <1>2, <1>3 DEF SetupDirs, SetupTokens, ChatTokens
<1>6. t["WEBCHAT_PORT"] = c.port
  BY <1>2, <1>3 DEF SetupDirs, SetupTokens, ChatTokens
<1>7. \A name \in SetupTokens : t[name] = c.tokens[name]
  BY <1>2, <1>3 DEF SetupDirs, SetupTokens, ChatTokens
<1>8. \A name \in SetupDirs : t[name] = c.dirs[name]
  BY <1>2, <1>3 DEF SetupDirs, SetupTokens, ChatTokens
<1>9. "BLUE_TANUKI_LLM_TIMEOUT_MS" \in DOMAIN t => t["BLUE_TANUKI_LLM_TIMEOUT_MS"] = c.route
  BY <1>1, <1>2 DEF SetupDirs, SetupTokens, ChatTokens
<1>10. \A name \in DOMAIN t \cap LlmVariables : t[name] = "given"
  BY <1>1, <1>2 DEF SetupDirs, SetupTokens, ChatTokens, LlmVariables
<1> QED BY <1>1, <1>4, <1>5, <1>6, <1>7, <1>8, <1>9, <1>10

(* A configuration as it is read, patched or not. *)
Config(c) ==
  /\ c.provider \in Providers
  /\ c.model \in BOOLEAN /\ c.endpoint \in BOOLEAN /\ c.key \in BOOLEAN
  /\ c.route \in {"unset", "fits", "out_of_range"}

(* What ConfigFromEnv makes of an environment whose numbers are routed. *)
LEMMA ReadConfig ==
  ASSUME NEW env, Routed(env), NEW c, c = ConfigFromEnv(env)
  PROVE  /\ Config(c)
         /\ DOMAIN c = {"provider", "model", "endpoint", "key", "hint", "route", "port", "host",
                        "dirs", "tokens"}
         /\ c.tokens = [name \in SetupTokens |-> Raw(env, name, Generated[name])]
<1>1. /\ c.provider = IF Backend(env) \in Providers THEN Backend(env) ELSE "stub"
      /\ c.route = LET route == Val(env, "BLUE_TANUKI_LLM_TIMEOUT_MS", "unset")
                   IN IF route = "unparsable" THEN "unset" ELSE route
      /\ DOMAIN c = {"provider", "model", "endpoint", "key", "hint", "route", "port", "host",
                     "dirs", "tokens"}
      /\ c.tokens = [name \in SetupTokens |-> Raw(env, name, Generated[name])]
  BY DEF ConfigFromEnv
<1>2. c.model \in BOOLEAN /\ c.endpoint \in BOOLEAN /\ c.key \in BOOLEAN
  BY DEF ConfigFromEnv, FirstSet
<1>3. c.route \in {"unset", "fits", "out_of_range"}
  BY <1>1 DEF Routed, Val
<1>4. c.provider \in Providers
  BY <1>1 DEF Providers
<1> QED BY <1>1, <1>2, <1>3, <1>4 DEF Config

(* A patch leaves a configuration, and its tokens. *)
LEMMA PatchedConfig ==
  ASSUME NEW env, Routed(env), NEW c, c = ConfigFromEnv(env), NEW patch \in Patch,
         NEW d, d = ApplySettingsPatch(c, patch)
  PROVE  Config(d) /\ d.tokens = c.tokens
<1>1. IsPatch(patch)
  BY ProvisioningAssumption
<1>2. \A field \in {"provider", "model", "endpoint", "key", "route", "tokens"} :
        d[field] = IF field \in DOMAIN patch THEN patch[field] ELSE c[field]
  BY ReadConfig DEF ApplySettingsPatch
<1>3. d.tokens = c.tokens
  BY <1>1, <1>2 DEF IsPatch
<1>0. Config(c)
  BY ReadConfig
<1>4. d.provider \in Providers
  <2>1. d.provider = IF "provider" \in DOMAIN patch THEN patch.provider ELSE c.provider
    BY <1>2
  <2> QED BY <1>0, <1>1, <2>1 DEF IsPatch, Raw, Config
<1>5. d.model \in BOOLEAN /\ d.endpoint \in BOOLEAN /\ d.key \in BOOLEAN
  <2>1. ASSUME NEW field \in {"model", "endpoint", "key"} PROVE d[field] \in BOOLEAN
    <3>1. c[field] \in BOOLEAN
      BY <1>0 DEF Config
    <3>2. field \in DOMAIN patch => patch[field] \in BOOLEAN
      BY <1>1 DEF IsPatch, Raw
    <3> QED BY <1>2, <3>1, <3>2
  <2> QED BY <2>1
<1>6. d.route \in {"unset", "fits", "out_of_range"}
  <2>1. d.route = IF "route" \in DOMAIN patch THEN patch.route ELSE c.route
    BY <1>2
  <2> QED BY <1>0, <1>1, <2>1 DEF IsPatch, Raw, Config
<1> QED BY <1>3, <1>4, <1>5, <1>6 DEF Config

(* What a boot with the settings page asks of tokens. *)
Checked(e) ==
  /\ \A name \in ChatTokens : Length(Token(e, name)) >= 8
  /\ Differs(e, "WEBCHAT_RESUME_TOKEN", ChatTokens)
  /\ Given(e, {"WEBHOOK_TOKEN"}) =>
       Length(Token(e, "WEBHOOK_TOKEN")) >= 8 /\ Differs(e, "WEBHOOK_TOKEN", ChatTokens)
  /\ Length(Token(e, "BLUE_TANUKI_SETTINGS_TOKEN")) >= 16
  /\ Differs(e, "BLUE_TANUKI_SETTINGS_TOKEN", AllTokens)

(* An environment with the tokens of another, or without its webhook. *)
LEMMA SameTokens ==
  ASSUME NEW e, NEW g, Checked(g), \A name \in SetupTokens : Token(e, name) = Token(g, name),
         \/ "WEBHOOK_TOKEN" \notin Present(e)
         \/ /\ "WEBHOOK_TOKEN" \in Present(g)
            /\ Token(e, "WEBHOOK_TOKEN") = Token(g, "WEBHOOK_TOKEN")
  PROVE  Checked(e)
<1>1. \A name \in ChatTokens : Token(e, name) = Token(g, name)
  BY DEF SetupTokens
<1>2. Token(e, "BLUE_TANUKI_SETTINGS_TOKEN") = Token(g, "BLUE_TANUKI_SETTINGS_TOKEN")
  BY DEF SetupTokens
<1>3. \A name \in ChatTokens : Length(Token(e, name)) >= 8
  BY <1>1 DEF Checked
<1>4. Differs(e, "WEBCHAT_RESUME_TOKEN", ChatTokens)
  BY <1>1 DEF Checked, Differs, ChatTokens
<1>5. \/ Token(e, "WEBHOOK_TOKEN") = "unset"
      \/ Token(e, "WEBHOOK_TOKEN") = Token(g, "WEBHOOK_TOKEN")
  BY DEF Token, Val
<1>6. Given(e, {"WEBHOOK_TOKEN"}) =>
        Length(Token(e, "WEBHOOK_TOKEN")) >= 8 /\ Differs(e, "WEBHOOK_TOKEN", ChatTokens)
  BY <1>1 DEF Checked, Differs, ChatTokens, Given
<1>7. Length(Token(e, "BLUE_TANUKI_SETTINGS_TOKEN")) >= 16
  BY <1>2 DEF Checked
<1>8. Differs(e, "BLUE_TANUKI_SETTINGS_TOKEN", AllTokens)
  BY <1>1, <1>2, <1>5 DEF Checked, Differs, ChatTokens, AllTokens
<1> QED BY <1>3, <1>4, <1>6, <1>7, <1>8 DEF Checked

(* Tokens a save may find: setup's, or those a gateway ran with. *)
GoodTokens(env, k) ==
  /\ k = [name \in SetupTokens |-> k[name]]
  /\ k = [name \in SetupTokens |-> Generated[name]] \/ Checked(LoadEnvFile(env, k))

(* A text a save made, where env is the environment of the process. *)
Rendered(env, t) ==
  \E c : Config(c) /\ ValidConfig(c) /\ GoodTokens(env, c.tokens) /\ t = RenderSetupEnvFile(c)

(* Which variables of the LLM are written. *)
LEMMA WrittenFacts ==
  ASSUME NEW c, Config(c)
  PROVE  LET w == WrittenVariables(c)
             own == {"LLM_BACKEND", "WEBCHAT_HOST", "WEBCHAT_PORT"} \cup SetupTokens \cup SetupDirs
             rest == {"BLUE_TANUKI_LLM_BACKEND_HINT", "BLUE_TANUKI_LLM_TIMEOUT_MS"}
         IN /\ own \subseteq w
            /\ w \subseteq own \cup rest \cup LlmVariables
            /\ "BLUE_TANUKI_LLM_TIMEOUT_MS" \in w <=> c.route # "unset"
            /\ c.provider = "stub" => w \cap LlmVariables = {}
            /\ c.provider = "anthropic" =>
                 /\ w \cap LlmVariables \subseteq
                      {"ANTHROPIC_API_KEY", "ANTHROPIC_MODEL", "ANTHROPIC_ENDPOINT"}
                 /\ c.key => "ANTHROPIC_API_KEY" \in w
            /\ c.provider = "openai" =>
                 /\ w \cap LlmVariables \subseteq
                      {"OPENAI_API_KEY", "OPENAI_MODEL", "OPENAI_ENDPOINT"}
                 /\ c.key => "OPENAI_API_KEY" \in w
                 /\ c.model => "OPENAI_MODEL" \in w
            /\ c.provider = "openai-compatible" =>
                 /\ w \cap LlmVariables \subseteq
                      {"OPENAI_COMPAT_API_KEY", "OPENAI_COMPAT_MODEL", "OPENAI_COMPAT_ENDPOINT"}
                 /\ c.model => "OPENAI_COMPAT_MODEL" \in w
                 /\ c.endpoint => "OPENAI_COMPAT_ENDPOINT" \in w
<1>1. c.provider \in Providers
  BY DEF Config
<1>2. CASE c.provider = "stub"
  BY <1>2 DEF WrittenVariables, VariablesOf, LlmVariables, SetupTokens, SetupDirs, ChatTokens
<1>3. CASE c.provider = "anthropic"
  BY <1>3 DEF WrittenVariables, VariablesOf, LlmVariables, SetupTokens, SetupDirs, ChatTokens
<1>4. CASE c.provider = "openai"
  BY <1>4 DEF WrittenVariables, VariablesOf, LlmVariables, SetupTokens, SetupDirs, ChatTokens
<1>5. CASE c.provider = "openai-compatible"
  BY <1>5 DEF WrittenVariables, VariablesOf, LlmVariables, SetupTokens, SetupDirs, ChatTokens
<1> QED BY <1>1, <1>2, <1>3, <1>4, <1>5 DEF Providers

(* What setup writes unasked. *)
LEMMA DefaultFacts ==
  LET c == ConfigFromEnv(<<>>)
  IN /\ Config(c) /\ c.provider = "stub" /\ c.route = "unset" /\ c.hint = "unset"
     /\ c.host = "loopback" /\ c.port = "fits" /\ c.dirs = [d \in SetupDirs |-> "usable"]
     /\ c.tokens = [name \in SetupTokens |-> Generated[name]]
<1>1. /\ \A name, default : Val(<<>>, name, default) = default
      /\ \A name, default : Raw(<<>>, name, default) = default
  <2>1. DOMAIN << >> = {}
    OBVIOUS
  <2> QED BY <2>1 DEF Val, Raw, Present
<1>2. PICK c : c = ConfigFromEnv(<<>>)
  OBVIOUS
<1>3. Routed(<<>>)
  BY <1>1 DEF Routed
<1>4. Config(c) /\ c.tokens = [name \in SetupTokens |-> Raw(<<>>, name, Generated[name])]
  BY <1>2, <1>3, ReadConfig
<1>5. c.tokens = [name \in SetupTokens |-> Generated[name]]
  BY <1>1, <1>4
<1>6. /\ c.provider = "stub" /\ c.route = "unset" /\ c.hint = "unset"
      /\ c.host = "loopback" /\ c.port = "fits"
  BY <1>1, <1>2 DEF ConfigFromEnv, Backend, Providers
<1>7. c.dirs = [d \in SetupDirs |-> "usable"]
  BY <1>1, <1>2 DEF ConfigFromEnv
<1> QED BY <1>2, <1>4, <1>5, <1>6, <1>7

(* A rendered file boots the gateway wherever a default setup would: variable by variable, the
   two environments differ only in the backend and what it wants, which the file has and the
   process does not hide. *)
LEMMA RenderedBoots ==
  ASSUME NEW c, Config(c), ValidConfig(c), GoodTokens(os, c.tokens),
         NEW t, t = RenderSetupEnvFile(c), \A dir \in SetupDirs : t[dir] = "usable",
         "LLM_BACKEND" \notin DOMAIN os, ParsesHeaders(os), DOMAIN t \cap DOMAIN os \subseteq Present(os),
         NEW t0, t0 = RenderSetupEnvFile(ConfigFromEnv(<<>>)),
         Boots(LoadEnvFile(os, t0), World)
  PROVE  Boots(LoadEnvFile(os, t), World)
<1> DEFINE own  == {"LLM_BACKEND", "WEBCHAT_HOST", "WEBCHAT_PORT"} \cup SetupTokens \cup SetupDirs
           rest == {"BLUE_TANUKI_LLM_BACKEND_HINT", "BLUE_TANUKI_LLM_TIMEOUT_MS"}
<1>1. PICK e, d, c0 : e = LoadEnvFile(os, t) /\ d = LoadEnvFile(os, t0) /\ c0 = ConfigFromEnv(<<>>)
  OBVIOUS
<1>2. /\ DOMAIN e = DOMAIN os \cup DOMAIN t /\ DOMAIN d = DOMAIN os \cup DOMAIN t0
      /\ \A name \in DOMAIN os : e[name] = os[name] /\ d[name] = os[name]
      /\ \A name \in DOMAIN t \ DOMAIN os : e[name] = t[name]
      /\ \A name \in DOMAIN t0 \ DOMAIN os : d[name] = t0[name]
  <2>1. /\ DOMAIN e = DOMAIN os \cup DOMAIN t /\ \A name \in DOMAIN os : e[name] = os[name]
        /\ \A name \in DOMAIN t \ DOMAIN os : e[name] = t[name]
    BY <1>1 DEF LoadEnvFile
  <2>2. /\ DOMAIN d = DOMAIN os \cup DOMAIN t0 /\ \A name \in DOMAIN os : d[name] = os[name]
        /\ \A name \in DOMAIN t0 \ DOMAIN os : d[name] = t0[name]
    BY <1>1 DEF LoadEnvFile
  <2> QED BY <2>1, <2>2
<1>3. DOMAIN t = WrittenVariables(c) /\ own \subseteq DOMAIN t
      /\ DOMAIN t \subseteq own \cup rest \cup LlmVariables
  BY RenderFacts, WrittenFacts
<1>4. DOMAIN t0 = own
  <2>1. Config(c0) /\ c0.provider = "stub" /\ c0.route = "unset" /\ c0.hint = "unset"
    BY <1>1, DefaultFacts
  <2>2. DOMAIN t0 = WrittenVariables(c0)
    BY <1>1, RenderFacts
  <2>3. WrittenVariables(c0) = own
    BY <2>1 DEF WrittenVariables
  <2> QED BY <2>2, <2>3
<1>5. /\ t["LLM_BACKEND"] = c.provider /\ t["WEBCHAT_HOST"] = c.host /\ t["WEBCHAT_PORT"] = "fits"
      /\ \A name \in SetupTokens : t[name] = c.tokens[name]
      /\ "BLUE_TANUKI_LLM_TIMEOUT_MS" \in DOMAIN t => t["BLUE_TANUKI_LLM_TIMEOUT_MS"] = "fits"
  <2>1. c.port = "fits" /\ c.route # "out_of_range"
    BY DEF ValidConfig
  <2>2. c.route \in {"unset", "fits"}
    BY <2>1 DEF Config
  <2> QED BY <1>3, <2>1, <2>2, RenderFacts, WrittenFacts
<1>6. /\ t0["LLM_BACKEND"] = "stub" /\ t0["WEBCHAT_HOST"] = "loopback" /\ t0["WEBCHAT_PORT"] = "fits"
      /\ \A name \in SetupTokens : t0[name] = Generated[name]
      /\ \A dir \in SetupDirs : t0[dir] = "usable"
  <2>1. c0.provider = "stub" /\ c0.host = "loopback" /\ c0.port = "fits"
        /\ c0.dirs = [dir \in SetupDirs |-> "usable"]
        /\ c0.tokens = [name \in SetupTokens |-> Generated[name]]
    BY <1>1, DefaultFacts
  <2>2. t0 = RenderSetupEnvFile(c0)
    BY <1>1
  <2> QED BY <2>1, <2>2, RenderFacts
<1> HIDE DEF own, rest
(* Variables that are not written are the same, and so are written ones of the process. *)
<1>7. ASSUME NEW name, name \notin own \cup rest \cup LlmVariables
      PROVE  /\ name \in DOMAIN e <=> name \in DOMAIN d
             /\ name \in DOMAIN e => e[name] = d[name]
             /\ name \in Present(e) <=> name \in Present(d)
             /\ \A default : Val(e, name, default) = Val(d, name, default)
  BY <1>2, <1>3, <1>4, <1>7 DEF Val, Present
(* What the file sets is not hidden by a blank variable of the process, and is not blank. *)
<1>27. /\ \A name \in DOMAIN t : name \in DOMAIN os => os[name] # "blank"
       /\ \A name \in own : name \in DOMAIN os => os[name] # "blank"
  BY <1>3 DEF Present
<1>28. \A name \in DOMAIN t \cap LlmVariables : t[name] # "blank"
  BY RenderFacts
<1>29. \A name \in SetupTokens : c.tokens[name] # "blank"
  <2>1. ASSUME NEW name \in SetupTokens, c.tokens[name] = "blank" PROVE FALSE
    <3>1. Token(c.tokens, name) = "unset"
      BY <2>1 DEF Token, Val, Present
    <3>2. Length(Token(c.tokens, name)) >= 16
      BY DEF ValidConfig
    <3> QED BY <3>1, <3>2 DEF Length
  <2> QED BY <2>1
<1>30. \A name \in SetupTokens : Generated[name] # "blank"
  BY DEF SetupTokens, ChatTokens, Generated
<1>8. ASSUME NEW dir \in SetupDirs
      PROVE  dir \in Present(e) /\ dir \in Present(d) /\ e[dir] = d[dir]
  BY <1>2, <1>3, <1>4, <1>6, <1>27 DEF own, Present
<1>9. Backend(e) = c.provider /\ Backend(d) = "stub"
  <2>1. c.provider # "blank"
    BY DEF Config, Providers
  <2> QED BY <1>2, <1>3, <1>4, <1>5, <1>6, <2>1 DEF Backend, Val, Present, own
<1>10. LoadsWorkspacePlugins(World) /\ World.port_free
  BY <1>1 DEF Boots
<1>11. EnforcesLLMConfig(d) /\ BuildsLLMBackend(d) /\ ParsesCommandRoute(d) /\ BuildsAuditLog(d, World)
       /\ OpensStores(d, World) /\ ReadsCronSchedules(d) /\ ConstructsCron(d)
       /\ ReadsGoogleServices(d) /\ ConstructsWebChat(d)
       /\ Val(d, "BLUE_TANUKI_SESSION_DIR", "usable") = "usable"
  BY <1>1 DEF Boots
<1>12. Rows(e) = Rows(d)
  BY <1>7 DEF Rows, own, rest, LlmVariables, SetupTokens, SetupDirs, ChatTokens
<1>13. EnforcesLLMConfig(e)
  <2>1. ParsesProvidersJson(e) /\ ProviderSecretEnvNames(e) = ProviderSecretEnvNames(d)
    BY <1>11, <1>12 DEF EnforcesLLMConfig, ParsesProvidersJson, ProviderSecretEnvNames
  <2> QED BY <1>11, <2>1 DEF EnforcesLLMConfig, CoreSecrets
<1>14. ParsesCommandRoute(e)
  <2>1. CASE "BLUE_TANUKI_LLM_TIMEOUT_MS" \in DOMAIN os
    BY <1>2, <1>11, <2>1 DEF ParsesCommandRoute, Val, Present
  <2>2. CASE "BLUE_TANUKI_LLM_TIMEOUT_MS" \notin DOMAIN os
    BY <1>2, <1>5, <2>2 DEF ParsesCommandRoute, Val, Present
  <2> QED BY <2>1, <2>2
<1>15. BuildsAuditLog(e, World) /\ Val(e, "BLUE_TANUKI_SESSION_DIR", "usable") = "usable"
  BY <1>8, <1>11 DEF BuildsAuditLog, Val, SetupDirs, Given
<1>16. ReadsCronSchedules(e) /\ ConstructsCron(e) /\ ReadsGoogleServices(e)
  <2>1. {"BLUE_TANUKI_SCHEDULES_JSON", "BLUE_TANUKI_DAILY_BRIEF_GOOGLE_ENABLED",
         "BLUE_TANUKI_DAILY_BRIEF_GOOGLE_SERVICES"} \cap (own \cup rest \cup LlmVariables) = {}
    BY DEF own, rest, LlmVariables, SetupTokens, SetupDirs, ChatTokens
  <2>2. ReadsCronSchedules(e) /\ ConstructsCron(e)
    BY <1>7, <1>11, <2>1 DEF ReadsCronSchedules, ConstructsCron
  <2>3. Given(e, {"BLUE_TANUKI_DAILY_BRIEF_GOOGLE_ENABLED"})
          => Given(d, {"BLUE_TANUKI_DAILY_BRIEF_GOOGLE_ENABLED"})
    BY <1>7, <2>1 DEF Given
  <2>4. Services(e) = Services(d)
    BY <1>7, <2>1 DEF Services
  <2> QED BY <1>11, <2>2, <2>3, <2>4 DEF ReadsGoogleServices
<1>31. OpensStores(e, World)
  <2> DEFINE stores == {"BLUE_TANUKI_MEMORY", "BLUE_TANUKI_FAILURE_MEMORY",
                        "BLUE_TANUKI_COMPLETE_HISTORY_FILE", "BLUE_TANUKI_APPROVALS_FILE"}
  <2>1. (stores \cup {"BLUE_TANUKI_SCHEDULES_DIR"}) \cap (own \cup rest \cup LlmVariables) = {}
    BY DEF own, rest, LlmVariables, SetupTokens, SetupDirs, ChatTokens
  <2>2. \A name \in stores : Val(e, name, "usable") = Val(d, name, "usable")
    BY <1>7, <2>1
  <2>3. /\ "BLUE_TANUKI_SCHEDULES_DIR" \in DOMAIN e <=> "BLUE_TANUKI_SCHEDULES_DIR" \in DOMAIN d
        /\ "BLUE_TANUKI_SCHEDULES_DIR" \in DOMAIN e =>
             e["BLUE_TANUKI_SCHEDULES_DIR"] = d["BLUE_TANUKI_SCHEDULES_DIR"]
    BY <1>7, <2>1
  <2> QED BY <1>11, <2>2, <2>3 DEF OpensStores
<1>32. ParsesHeaders(e)
  <2>1. "OPENAI_COMPAT_HEADERS_JSON" \notin own \cup rest \cup LlmVariables
    BY DEF own, rest, LlmVariables, SetupTokens, SetupDirs, ChatTokens
  <2> QED BY <1>2, <1>3, <2>1 DEF ParsesHeaders, Val, Present
<1>17. ASSUME NEW name \in LlmVariables PROVE name \in Present(d) <=> name \in Present(os)
  BY <1>2, <1>4 DEF own, LlmVariables, SetupTokens, SetupDirs, ChatTokens, Present
<1>18. \A env, names : Given(env, names) <=> \E name \in names : name \in Present(env)
  BY DEF Given
<1>19. {"LLM_MODEL", "LLM_ENDPOINT", "LLM_API_KEY"} \cap (own \cup rest \cup LlmVariables) = {}
  BY DEF own, rest, LlmVariables, SetupTokens, SetupDirs, ChatTokens
<1>20. \A name \in {"LLM_MODEL", "LLM_ENDPOINT", "LLM_API_KEY"} :
         name \in Present(e) <=> name \in Present(d)
  BY <1>7, <1>19
<1>21. \A name \in LlmVariables : name \in Present(e) <=> name \in Present(d) \/ name \in DOMAIN t
  BY <1>2, <1>17, <1>27, <1>28 DEF Present
<1>22. BuildsLLMBackend(e)
  <2>1. ParsesProvidersJson(e) /\ RowNames(e) = RowNames(d)
    BY <1>12, <1>13 DEF EnforcesLLMConfig, RowNames
  <2>2. CASE c.provider = "stub"
    <3>1. \A name \in LlmVariables : name \in Present(e) <=> name \in Present(d)
      BY <1>3, <1>21, <2>2, WrittenFacts
    <3> QED BY <1>9, <1>11, <1>18, <1>20, <1>32, <2>1, <2>2, <3>1
        DEF BuildsLLMBackend, AnthropicRegistered, OpenaiRegistered, NativeOpenai, OpenaiModel,
           OpenaiEndpoint, OpenaiKey, LlmVariables
  <2>3. CASE c.provider = "anthropic"
    <3>1. \A name \in LlmVariables \ {"ANTHROPIC_API_KEY", "ANTHROPIC_MODEL", "ANTHROPIC_ENDPOINT"} :
            name \in Present(e) <=> name \in Present(d)
      BY <1>3, <1>21, <2>3, WrittenFacts
    <3>2. "ANTHROPIC_API_KEY" \in Present(e)
      BY <1>3, <1>21, <2>3, WrittenFacts DEF ValidConfig, LlmVariables
    <3> QED BY <1>9, <1>11, <1>18, <1>20, <1>32, <2>1, <2>3, <3>1, <3>2
        DEF BuildsLLMBackend, AnthropicRegistered, OpenaiRegistered, NativeOpenai, OpenaiModel,
           OpenaiEndpoint, OpenaiKey, LlmVariables
  <2>4. CASE c.provider = "openai"
    <3>1. \A name \in LlmVariables \ {"OPENAI_API_KEY", "OPENAI_MODEL", "OPENAI_ENDPOINT"} :
            name \in Present(e) <=> name \in Present(d)
      BY <1>3, <1>21, <2>4, WrittenFacts
    <3>2. {"OPENAI_API_KEY", "OPENAI_MODEL"} \subseteq Present(e)
      BY <1>3, <1>21, <2>4, WrittenFacts DEF ValidConfig, LlmVariables
    <3> QED BY <1>9, <1>11, <1>18, <1>20, <1>32, <2>1, <2>4, <3>1, <3>2
        DEF BuildsLLMBackend, AnthropicRegistered, OpenaiRegistered, NativeOpenai, OpenaiModel,
           OpenaiEndpoint, OpenaiKey, LlmVariables
  <2>5. CASE c.provider = "openai-compatible"
    <3>1. \A name \in LlmVariables \ {"OPENAI_COMPAT_API_KEY", "OPENAI_COMPAT_MODEL",
                                      "OPENAI_COMPAT_ENDPOINT"} :
            name \in Present(e) <=> name \in Present(d)
      BY <1>3, <1>21, <2>5, WrittenFacts
    <3>2. {"OPENAI_COMPAT_MODEL", "OPENAI_COMPAT_ENDPOINT"} \subseteq Present(e)
      BY <1>3, <1>21, <2>5, WrittenFacts DEF ValidConfig, LlmVariables
    <3> QED BY <1>9, <1>11, <1>18, <1>20, <1>32, <2>1, <2>5, <3>1, <3>2
        DEF BuildsLLMBackend, AnthropicRegistered, OpenaiRegistered, NativeOpenai, OpenaiModel,
           OpenaiEndpoint, OpenaiKey, LlmVariables
  <2> QED BY <2>2, <2>3, <2>4, <2>5 DEF Config, Providers
<1>23. \A name \in SetupTokens : /\ name \in DOMAIN e /\ name \in DOMAIN d
                                 /\ d[name] = IF name \in DOMAIN os THEN os[name] ELSE Generated[name]
                                 /\ e[name] = IF name \in DOMAIN os THEN os[name] ELSE c.tokens[name]
  BY <1>2, <1>3, <1>4, <1>5, <1>6 DEF own
<1>24. /\ "WEBHOOK_TOKEN" \in DOMAIN e <=> "WEBHOOK_TOKEN" \in DOMAIN os
       /\ "WEBHOOK_TOKEN" \in DOMAIN d <=> "WEBHOOK_TOKEN" \in DOMAIN os
       /\ "WEBHOOK_TOKEN" \in Present(e) => "WEBHOOK_TOKEN" \in DOMAIN os /\ os["WEBHOOK_TOKEN"] # "blank"
       /\ "WEBHOOK_TOKEN" \in DOMAIN os => /\ e["WEBHOOK_TOKEN"] = os["WEBHOOK_TOKEN"]
                                           /\ d["WEBHOOK_TOKEN"] = os["WEBHOOK_TOKEN"]
  BY <1>2, <1>3, <1>4 DEF own, rest, LlmVariables, SetupTokens, SetupDirs, ChatTokens, Present
<1>25. Raw(e, "WEBCHAT_PORT", "fits") = "fits"
  <2>1. Raw(d, "WEBCHAT_PORT", "fits") = "fits"
    BY <1>11 DEF ConstructsWebChat
  <2> QED BY <1>2, <1>3, <1>5, <2>1 DEF Raw, own
<1>26. ConstructsWebChat(e)
  <2>1. CASE Checked(LoadEnvFile(os, c.tokens))
    <3>1. PICK g : g = LoadEnvFile(os, c.tokens)
      OBVIOUS
    <3>2. DOMAIN c.tokens = SetupTokens
      BY DEF GoodTokens
    <3>3. /\ DOMAIN g = DOMAIN os \cup SetupTokens
          /\ \A name \in DOMAIN os : g[name] = os[name]
          /\ \A name \in SetupTokens \ DOMAIN os : g[name] = c.tokens[name]
      BY <3>1, <3>2 DEF LoadEnvFile
    <3>4. \A name \in SetupTokens : Token(e, name) = Token(g, name)
      BY <1>23, <3>3 DEF Token, Val, Present
    <3>5. Checked(e)
      BY <1>24, <2>1, <3>1, <3>3, <3>4, SameTokens DEF Token, Val, Present
    <3> QED BY <1>25, <3>5 DEF Checked, ConstructsWebChat
  <2>2. CASE c.tokens = [name \in SetupTokens |-> Generated[name]]
    <3>1. \A name \in SetupTokens : Token(e, name) = Token(d, name)
      BY <1>23, <2>2 DEF Token, Val, Present
    <3>2. \A name \in AllTokens : Token(e, name) = Token(d, name)
      BY <1>24, <3>1 DEF Token, Val, Present, AllTokens, SetupTokens
    <3>3. SettingsSurfaceAllowed(e) => SettingsSurfaceAllowed(d)
      <4>1. "BLUE_TANUKI_SETTINGS_TOKEN" \in Present(d)
        BY <1>6, <1>23, <1>27, <1>30 DEF SetupTokens, own, Present
      <4>2. Given(d, {"BLUE_TANUKI_ENABLE_SETTINGS"}) <=> Given(e, {"BLUE_TANUKI_ENABLE_SETTINGS"})
        BY <1>7, <1>18 DEF own, rest, LlmVariables, SetupTokens, SetupDirs, ChatTokens
      <4>3. Raw(e, "WEBCHAT_HOST", "loopback") = Raw(d, "WEBCHAT_HOST", "loopback")
              \/ Raw(d, "WEBCHAT_HOST", "loopback") = "loopback"
        BY <1>2, <1>3, <1>4, <1>6 DEF Raw, own
      <4> QED BY <1>18, <4>1, <4>2, <4>3 DEF SettingsSurfaceAllowed
    <3>4. \A name \in ChatTokens : Length(Token(e, name)) >= 8
      BY <1>11, <3>2 DEF ConstructsWebChat, AllTokens
    <3>5. \A name \in AllTokens, names \in SUBSET AllTokens :
            Differs(e, name, names) <=> Differs(d, name, names)
      BY <3>2 DEF Differs
    <3>6. /\ ChatTokens \subseteq AllTokens
          /\ {"WEBHOOK_TOKEN", "BLUE_TANUKI_SETTINGS_TOKEN", "WEBCHAT_RESUME_TOKEN"}
               \subseteq AllTokens
      BY DEF AllTokens, ChatTokens
    <3>7. Given(e, {"WEBHOOK_TOKEN"}) <=> Given(d, {"WEBHOOK_TOKEN"})
      BY <1>18, <1>24 DEF Present
    <3> QED BY <1>11, <1>25, <3>2, <3>3, <3>4, <3>5, <3>6, <3>7 DEF ConstructsWebChat
  <2> QED BY <2>1, <2>2 DEF GoodTokens
<1> QED BY <1>1, <1>10, <1>13, <1>14, <1>15, <1>16, <1>22, <1>26, <1>31 DEF Boots

(* A gateway runs with an environment that booted; while the first file is the file, with that. *)
RanInv ==
  gateway # Down =>
    /\ Boots(gateway, World) /\ Routed(gateway)
    /\ DOMAIN os \subseteq DOMAIN gateway /\ \A name \in DOMAIN os : gateway[name] = os[name]
    /\ named = "first file" => gateway = LoadEnvFile(os, text["first file"])

(* The first file stays what it was, and everything else that was saved is rendered. *)
SettingsInv ==
  /\ Routed(os) /\ Routed(text["first file"])
  /\ tmp \in [Save -> Save \cup {None}] /\ \A s \in Save : saves[s].inode \in Save
  /\ \A i \in Save : text[i] \in {Empty, Mixture} \/ Rendered(os, text[i])
  /\ \A s \in Save : saves[s].stage \in {"read", "kept", "open", "written"} =>
                       Rendered(os, saves[s].text)
  /\ \A t \in had : t = text["first file"] \/ Rendered(os, t)
  /\ RanInv

(* Numbers of the command route stay among what the code tells apart. *)
LEMMA RoutedFacts ==
  /\ \A e, f : Routed(e) /\ Routed(f) => Routed(LoadEnvFile(e, f))
  /\ Routed(Empty) /\ Routed(Mixture)
  /\ \A env, t : Rendered(env, t) => Routed(t)
<1>1. ASSUME NEW e, NEW f, Routed(e), Routed(f) PROVE Routed(LoadEnvFile(e, f))
  BY <1>1 DEF Routed, LoadEnvFile, Val, Present
<1>2. Routed(Empty)
  <2>1. DOMAIN << >> = {}
    OBVIOUS
  <2> QED BY <2>1 DEF Routed, Empty, Val, Present
<1>3. Routed(Mixture)
  BY DEF Routed, Mixture, Val, Present
<1>4. ASSUME NEW env, NEW t, Rendered(env, t) PROVE Routed(t)
  <2>1. PICK c : Config(c) /\ t = RenderSetupEnvFile(c)
    BY <1>4 DEF Rendered
  <2>2. "BLUE_TANUKI_LLM_TIMEOUT_MS" \in DOMAIN t =>
          t["BLUE_TANUKI_LLM_TIMEOUT_MS"] \in {"fits", "out_of_range"}
    <3>1. "BLUE_TANUKI_LLM_TIMEOUT_MS" \in WrittenVariables(c) <=> c.route # "unset"
      BY <2>1, WrittenFacts
    <3> QED BY <2>1, <3>1, RenderFacts DEF Config
  <2> QED BY <2>2 DEF Routed, Val, Present
<1> QED BY <1>1, <1>2, <1>3, <1>4

(* The tokens a save of the settings page finds. *)
LEMMA FoundTokens ==
  ASSUME EnvTypes, SettingsInv,
         gateway # Down, text[named] # Mixture, SettingsSurfaceAllowed(gateway),
         NEW e, e = LoadEnvFile(text[named], gateway), NEW c, c = ConfigFromEnv(e)
  PROVE  Routed(e) /\ GoodTokens(os, c.tokens)
<1>1. PICK f, k : f = text[named] /\ k = c.tokens
  OBVIOUS
<1>2. /\ Boots(gateway, World) /\ Routed(gateway)
      /\ DOMAIN os \subseteq DOMAIN gateway /\ \A name \in DOMAIN os : gateway[name] = os[name]
      /\ named = "first file" => gateway = LoadEnvFile(os, f)
  BY <1>1 DEF SettingsInv, RanInv
<1>3. named = "first file" \/ f = Empty \/ Rendered(os, f)
  BY <1>1 DEF SettingsInv, EnvTypes, Inode
<1>4. Routed(f)
  BY <1>1, <1>3, RoutedFacts DEF SettingsInv
<1>5. Routed(e)
  BY <1>1, <1>2, <1>4, RoutedFacts
<1>6. k = [name \in SetupTokens |-> Raw(e, name, Generated[name])]
  BY <1>1, <1>5, ReadConfig
<1>7. /\ DOMAIN e = DOMAIN f \cup DOMAIN gateway
      /\ \A name \in DOMAIN f : e[name] = f[name]
      /\ \A name \in DOMAIN gateway \ DOMAIN f : e[name] = gateway[name]
  BY <1>1 DEF LoadEnvFile
<1>8. Checked(gateway)
  BY <1>2 DEF Boots, ConstructsWebChat, Checked
<1>9. \A name \in SetupTokens : name \in DOMAIN gateway
  <2>1. \A name \in SetupTokens : Token(gateway, name) # "unset"
    BY <1>8 DEF Checked, SetupTokens, Length
  <2> QED BY <2>1 DEF Token, Val, Present
<1>10. CASE Rendered(os, f)
  <2>1. PICK d : GoodTokens(os, d.tokens) /\ f = RenderSetupEnvFile(d)
    BY <1>10 DEF Rendered
  <2>2. SetupTokens \subseteq DOMAIN f /\ \A name \in SetupTokens : f[name] = d.tokens[name]
    <3>1. DOMAIN f = WrittenVariables(d)
      BY <2>1, RenderFacts
    <3>2. SetupTokens \subseteq WrittenVariables(d)
      BY DEF WrittenVariables
    <3> QED BY <2>1, <3>1, <3>2, RenderFacts
  <2>3. k = [name \in SetupTokens |-> d.tokens[name]]
    BY <1>6, <1>7, <2>2 DEF Raw
  <2>4. k = d.tokens
    BY <2>1, <2>3 DEF GoodTokens
  <2> QED BY <1>1, <1>5, <2>1, <2>4
<1>11. CASE named = "first file" \/ f = Empty
  <2>1. \A name \in SetupTokens : name \notin DOMAIN os => k[name] = gateway[name]
    <3>1. CASE f = Empty
      <4>1. DOMAIN f = {}
        BY <3>1 DEF Empty
      <4> QED BY <1>6, <1>7, <1>9, <4>1 DEF Raw
    <3>2. CASE named = "first file"
      <4>1. /\ DOMAIN gateway = DOMAIN os \cup DOMAIN f
            /\ \A name \in DOMAIN f \ DOMAIN os : gateway[name] = f[name]
        BY <1>2, <3>2 DEF LoadEnvFile
      <4> QED BY <1>6, <1>7, <1>9, <4>1 DEF Raw
    <3> QED BY <1>11, <3>1, <3>2
  <2>2. PICK g : g = LoadEnvFile(os, k)
    OBVIOUS
  <2>3. /\ DOMAIN g = DOMAIN os \cup SetupTokens
        /\ \A name \in DOMAIN os : g[name] = os[name]
        /\ \A name \in SetupTokens \ DOMAIN os : g[name] = k[name]
    BY <1>6, <2>2 DEF LoadEnvFile
  <2>4. \A name \in SetupTokens : Token(g, name) = Token(gateway, name)
    BY <1>2, <1>9, <2>1, <2>3 DEF Token, Val, Present
  <2>5. "WEBHOOK_TOKEN" \notin SetupTokens
    BY DEF SetupTokens, ChatTokens
  <2>6. "WEBHOOK_TOKEN" \in Present(g) =>
          /\ "WEBHOOK_TOKEN" \in Present(gateway)
          /\ Token(g, "WEBHOOK_TOKEN") = Token(gateway, "WEBHOOK_TOKEN")
    BY <1>2, <2>3, <2>5 DEF Token, Val, Present
  <2>7. Checked(g)
    BY <1>8, <2>4, <2>6, SameTokens
  <2>8. k = [name \in SetupTokens |-> k[name]]
    BY <1>6
  <2> QED BY <1>1, <1>5, <2>2, <2>7, <2>8 DEF GoodTokens
<1> QED BY <1>3, <1>10, <1>11

(* What is accepted is rendered. *)
LEMMA AcceptedIsRendered ==
  ASSUME NEW e, Routed(e), NEW c, c = ConfigFromEnv(e), GoodTokens(os, c.tokens),
         NEW patch \in Patch, NEW next, next = Accepted(c, patch)
  PROVE  next.stage = "refused" \/ (next.stage = "read" /\ Rendered(os, next.text))
<1>1. PICK d : d = ApplySettingsPatch(c, patch)
  OBVIOUS
<1>2. Config(d) /\ d.tokens = c.tokens
  BY <1>1, PatchedConfig
<1>3. CASE ValidConfig(d)
  <2>1. next = [stage |-> "read", text |-> RenderSetupEnvFile(d)]
    BY <1>1, <1>3 DEF Accepted
  <2> QED BY <1>2, <1>3, <2>1 DEF Rendered
<1>4. CASE ~ValidConfig(d)
  BY <1>1, <1>4 DEF Accepted
<1> QED BY <1>3, <1>4

(* Before the first boot nothing has been saved. *)
LEMMA SettingsInvInit == ProvisioningInit => SettingsInv
<1> SUFFICES ASSUME ProvisioningInit PROVE SettingsInv
  OBVIOUS
<1>1. PICK first \in FirstText :
        /\ text = [i \in Inode |-> IF i = "first file" THEN first ELSE Empty]
        /\ had = {first}
  BY DEF ProvisioningInit
<1>2. /\ os \in OsEnv /\ tmp = [s \in Save |-> None] /\ gateway = Down
      /\ saves = [s \in Save |-> [stage |-> "idle", text |-> Empty, name |-> s, inode |-> s]]
  BY DEF ProvisioningInit
<1>4. text["first file"] = first /\ \A i \in Save : text[i] = Empty
  BY <1>1, ProvisioningAssumption DEF Inode
<1>5. Routed(os) /\ Routed(first)
  BY <1>2, ProvisioningAssumption
<1>6. \A s \in Save : saves[s].stage = "idle" /\ saves[s].inode = s
  BY <1>2
<1>7. RanInv
  BY <1>2 DEF RanInv
<1> QED BY <1>1, <1>2, <1>4, <1>5, <1>6, <1>7 DEF SettingsInv

(* A boot is over the file as it is: the first one, or one that was rendered. *)
LEMMA StartSettles == ASSUME EnvTypes, SettingsInv, StartGateway PROVE SettingsInv'
<1>1. /\ Boots(LoadEnvFile(os, text[named]), World) /\ gateway' = LoadEnvFile(os, text[named])
      /\ UNCHANGED <<os, text, named, tmp, saves, had>>
  BY DEF StartGateway, files
<1>2. PICK f, g : f = text[named] /\ g = LoadEnvFile(os, f)
  OBVIOUS
<1>3. Routed(f)
  BY <1>2, RoutedFacts DEF SettingsInv, EnvTypes, Inode
<1>4. Routed(g)
  BY <1>2, <1>3, RoutedFacts DEF SettingsInv
<1>5. DOMAIN os \subseteq DOMAIN g /\ \A name \in DOMAIN os : g[name] = os[name]
  BY <1>2 DEF LoadEnvFile
<1>6. RanInv'
  BY <1>1, <1>2, <1>4, <1>5 DEF RanInv
<1> QED BY <1>1, <1>6 DEF SettingsInv

(* A step that starts no gateway: what it may do to the file and the saves. *)
LEMMA StepSettles ==
  ASSUME EnvTypes, SettingsInv, EnvTypes', os' = os, gateway' \in {gateway, Down},
         named' \in {named} \cup Save, tmp' \in [Save -> Save \cup {None}],
         text'["first file"] = text["first file"],
         \A i \in Save : \/ text'[i] \in {text[i], Empty, Mixture}
                         \/ Rendered(os, text'[i]),
         \A s \in Save :
           /\ saves'[s].inode \in Save
           /\ saves'[s].stage \in {"read", "kept", "open", "written"} =>
                \/ Rendered(os, saves'[s].text)
                \/ /\ saves[s].stage \in {"read", "kept", "open", "written"}
                   /\ saves'[s].text = saves[s].text,
         \A t \in had' : t \in had \/ \E i \in Inode : t = text'[i] /\ t \notin {Empty, Mixture}
  PROVE  SettingsInv'
<1>1. \A i \in Save : text'[i] \in {Empty, Mixture} \/ Rendered(os', text'[i])
  BY DEF SettingsInv
<1>2. \A t \in had' : t = text'["first file"] \/ Rendered(os', t)
  BY <1>1 DEF SettingsInv, Inode
<1>3. RanInv'
  <2>1. "first file" \notin Save
    BY ProvisioningAssumption
  <2> QED BY <2>1 DEF RanInv, SettingsInv
<1> QED BY <1>1, <1>2, <1>3 DEF SettingsInv

(* A stop loses saves, and no text. *)
LEMMA StopSettles == ASSUME EnvTypes, EnvTypes', SettingsInv, StopGateway PROVE SettingsInv'
<1>1. /\ gateway' = Down /\ tmp' = [s \in Save |-> None]
      /\ saves' = [s \in Save |-> IF UnderWay(s) THEN [saves[s] EXCEPT !.stage = "lost"]
                                   ELSE saves[s]]
      /\ UNCHANGED <<os, text, named, had>>
  BY DEF StopGateway
<1>2. \A s \in Save : /\ saves'[s].inode = saves[s].inode
                      /\ saves'[s].stage \in {"read", "kept", "open", "written"} =>
                           /\ saves[s].stage \in {"read", "kept", "open", "written"}
                           /\ saves'[s].text = saves[s].text
  <2>1. ASSUME NEW r, DOMAIN r = {"stage", "text", "name", "inode"}
        PROVE  LET q == [r EXCEPT !.stage = "lost"]
               IN q.inode = r.inode /\ q.stage = "lost"
    BY <2>1
  <2> QED BY <1>1, <2>1 DEF EnvTypes
<1>3. \A s \in Save : saves'[s].inode \in Save
  BY <1>2 DEF SettingsInv
<1> QED BY <1>1, <1>2, <1>3, StepSettles

(* A step that changes the stage of one save and no file. *)
LEMMA StageSettles ==
  ASSUME EnvTypes, EnvTypes', SettingsInv, NEW s \in Save, NEW stage, To(s, stage),
         saves[s].stage \in {"read", "kept", "open", "written"},
         os' = os, gateway' = gateway, named' \in {named} \cup Save,
         tmp' \in [Save -> Save \cup {None}], text'["first file"] = text["first file"],
         \A i \in Save : \/ text'[i] \in {text[i], Empty, Mixture}
                         \/ Rendered(os, text'[i]),
         \A t \in had' : t \in had \/ \E i \in Inode : t = text'[i] /\ t \notin {Empty, Mixture}
  PROVE  SettingsInv'
<1>1. \A o \in Save : /\ saves'[o].inode = saves[o].inode /\ saves'[o].text = saves[o].text
                      /\ saves'[o].stage \in {"read", "kept", "open", "written"} =>
                           saves[o].stage \in {"read", "kept", "open", "written"}
  BY ToFacts
<1>2. \A o \in Save : saves'[o].inode \in Save
  BY <1>1 DEF SettingsInv
<1> QED BY <1>1, <1>2, StepSettles

(* A save holds what it rendered. *)
LEMMA BeginSettles ==
  ASSUME EnvTypes, EnvTypes', SettingsInv, NEW s \in Save, NEW next, BeginSave(s, next),
         \/ next.stage = "refused"
         \/ next.stage = "read" /\ Rendered(os, next.text)
  PROVE  SettingsInv'
<1>1. /\ saves' = [saves EXCEPT ![s] = [@ EXCEPT !.stage = next.stage, !.text = next.text]]
      /\ UNCHANGED <<os, text, named, tmp, gateway, had>>
  BY DEF BeginSave, files
<1>2. PICK stage, t : stage = next.stage /\ t = next.text
  OBVIOUS
<1>3. ASSUME NEW r, DOMAIN r = {"stage", "text", "name", "inode"}
      PROVE  LET q == [r EXCEPT !.stage = stage, !.text = t]
             IN q.inode = r.inode /\ q.stage = stage /\ q.text = t
  BY <1>3
<1>4. /\ saves'[s] = [saves[s] EXCEPT !.stage = stage, !.text = t]
      /\ \A o \in Save \ {s} : saves'[o] = saves[o]
  BY <1>1, <1>2 DEF EnvTypes
<1>5. saves'[s].inode = saves[s].inode /\ saves'[s].stage = stage /\ saves'[s].text = t
  BY <1>3, <1>4 DEF EnvTypes
<1>6. \A o \in Save : /\ saves'[o].inode \in Save
                      /\ saves'[o].stage \in {"read", "kept", "open", "written"} =>
                           Rendered(os, saves'[o].text)
  BY <1>2, <1>4, <1>5 DEF SettingsInv
<1>7. tmp' \in [Save -> Save \cup {None}]
  BY <1>1 DEF SettingsInv
<1> QED BY <1>1, <1>6, <1>7, StepSettles

(* The settings page and setup both render a checked configuration. *)
LEMMA BeginningSettles ==
  ASSUME EnvTypes, EnvTypes', SettingsInv, NEW s \in Save, NEW patch \in Patch,
         ReadForUpdate(s, patch) \/ RunSetupCommand(s, patch)
  PROVE  SettingsInv'
<1>1. CASE ReadForUpdate(s, patch)
  <2>1. PICK e : e = LoadEnvFile(text[named], gateway)
    OBVIOUS
  <2>2. PICK c : c = ConfigFromEnv(e)
    OBVIOUS
  <2>3. PICK next : next = IF ValidConfig(c) THEN Accepted(c, patch)
                           ELSE [stage |-> "refused", text |-> Empty]
    OBVIOUS
  <2>4. /\ gateway # Down /\ text[named] # Mixture /\ SettingsSurfaceAllowed(gateway)
        /\ BeginSave(s, next)
    BY <1>1, <2>1, <2>2, <2>3 DEF ReadForUpdate
  <2>5. Routed(e) /\ GoodTokens(os, c.tokens)
    BY <2>1, <2>2, <2>4, FoundTokens
  <2>6. next.stage = "refused" \/ (next.stage = "read" /\ Rendered(os, next.text))
    BY <2>2, <2>3, <2>5, AcceptedIsRendered
  <2> QED BY <2>4, <2>6, BeginSettles
<1>2. CASE RunSetupCommand(s, patch)
  <2>1. PICK c, e : e = <<>> /\ c = ConfigFromEnv(e)
    OBVIOUS
  <2>2. PICK next : next = Accepted(c, patch)
    OBVIOUS
  <2>3. Routed(e)
    BY <2>1, RoutedFacts DEF Empty
  <2>4. c.tokens = [name \in SetupTokens |-> Generated[name]]
    BY <2>1, DefaultFacts
  <2>5. c.tokens = [name \in SetupTokens |-> c.tokens[name]]
    BY <2>4
  <2>6. GoodTokens(os, c.tokens)
    BY <2>4, <2>5 DEF GoodTokens
  <2>7. next.stage = "refused" \/ (next.stage = "read" /\ Rendered(os, next.text))
    BY <2>1, <2>2, <2>3, <2>6, AcceptedIsRendered
  <2>8. BeginSave(s, next)
    BY <1>2, <2>1, <2>2 DEF RunSetupCommand
  <2> QED BY <2>7, <2>8, BeginSettles
<1> QED BY <1>1, <1>2

(* A backup changes no file a gateway reads. *)
LEMMA BackupSettles ==
  ASSUME EnvTypes, EnvTypes', SettingsInv, NEW s \in Save, BackupEnvFile(s) PROVE SettingsInv'
<1>1. /\ saves[s].stage = "read" /\ To(s, "kept")
      /\ UNCHANGED <<os, text, named, tmp, gateway, had>>
  BY DEF BackupEnvFile
<1>2. tmp' \in [Save -> Save \cup {None}]
  BY <1>1 DEF SettingsInv
<1> QED BY <1>1, <1>2, StageSettles

(* A write leaves a rendered text, or a mixture that no save reads. *)
LEMMA WriteSettles ==
  ASSUME EnvTypes, EnvTypes', SettingsInv, NEW s \in Save, WriteTmp(s) PROVE SettingsInv'
<1>1. PICK i : i = saves[s].inode
  OBVIOUS
<1>2. /\ saves[s].stage = "open" /\ To(s, "written") /\ Had(named)
      /\ UNCHANGED <<os, named, tmp, gateway>>
  BY DEF WriteTmp
<1>3. PICK left \in {saves[s].text, Mixture} : text' = [text EXCEPT ![i] = left]
  BY <1>1 DEF WriteTmp
<1>4. i \in Save /\ i # "first file" /\ (left = Mixture \/ Rendered(os, left))
  BY <1>1, <1>2, <1>3, ProvisioningAssumption DEF SettingsInv
<1>5. /\ text'["first file"] = text["first file"]
      /\ \A o \in Save : text'[o] \in {text[o], Mixture} \/ Rendered(os, text'[o])
  BY <1>3, <1>4 DEF EnvTypes, Inode
<1>6. tmp' \in [Save -> Save \cup {None}]
  BY <1>2 DEF SettingsInv
<1>7. \A t \in had' : t \in had \/ \E o \in Inode : t = text'[o] /\ t \notin {Empty, Mixture}
  BY <1>2 DEF Had, EnvTypes
<1> QED BY <1>2, <1>5, <1>6, <1>7, StageSettles

(* The named file is never again the first one. *)
LEMMA RenameSettles ==
  ASSUME EnvTypes, EnvTypes', SettingsInv, NEW s \in Save, RenameTmp(s) PROVE SettingsInv'
<1>1. PICK i : i = tmp[saves[s].name]
  OBVIOUS
<1>2. /\ saves[s].stage = "written" /\ i # None /\ To(s, "saved")
      /\ named' = i /\ tmp' = [tmp EXCEPT ![saves[s].name] = None]
      /\ text' = text /\ Had(i) /\ UNCHANGED <<os, gateway>>
  BY <1>1 DEF RenameTmp
<1>3. i \in Save /\ tmp' \in [Save -> Save \cup {None}]
  BY <1>1, <1>2 DEF SettingsInv, EnvTypes
<1>4. \A t \in had' : t \in had \/ \E o \in Inode : t = text'[o] /\ t \notin {Empty, Mixture}
  BY <1>2, <1>3 DEF Had, Inode
<1> QED BY <1>2, <1>3, <1>4, StageSettles

(* A failed write leaves the file. *)
LEMMA FailSettles ==
  ASSUME EnvTypes, EnvTypes', SettingsInv, NEW s \in Save, FailWrite(s) PROVE SettingsInv'
<1>1. /\ saves[s].stage \in {"open", "written"} /\ To(s, "failed")
      /\ tmp' = [tmp EXCEPT ![saves[s].name] = None]
      /\ UNCHANGED <<os, text, named, gateway, had>>
  BY DEF FailWrite
<1>2. tmp' \in [Save -> Save \cup {None}]
  BY <1>1 DEF SettingsInv, EnvTypes
<1> QED BY <1>1, <1>2, StageSettles

(* Opening truncates a temporary file, which is never the first one. *)
LEMMA OpenSettles ==
  ASSUME EnvTypes, EnvTypes', SettingsInv, NEW s \in Save, OpenTmp(s) PROVE SettingsInv'
<1>1. saves[s].stage = "kept" /\ UNCHANGED <<os, named, gateway, had>>
  BY DEF OpenTmp
<1>2. PICK name \in {s} \cup {saves[o].name : o \in {o \in Save :
                                              saves[o].stage \in {"open", "written"}}} :
        LET i == IF tmp[name] = None THEN s ELSE tmp[name]
        IN /\ tmp' = [tmp EXCEPT ![name] = i]
           /\ text' = [text EXCEPT ![i] = Empty]
           /\ saves' = [saves EXCEPT ![s] = [@ EXCEPT !.stage = "open", !.name = name, !.inode = i]]
  BY DEF OpenTmp
<1>3. PICK i : i = IF tmp[name] = None THEN s ELSE tmp[name]
  OBVIOUS
<1>4. /\ tmp' = [tmp EXCEPT ![name] = i] /\ text' = [text EXCEPT ![i] = Empty]
      /\ saves' = [saves EXCEPT ![s] = [@ EXCEPT !.stage = "open", !.name = name, !.inode = i]]
  BY <1>2, <1>3
<1>5. name \in Save /\ i \in Save /\ i # "first file"
  <2>1. name \in Save
    BY DEF EnvTypes
  <2> QED BY <1>3, <2>1, ProvisioningAssumption DEF SettingsInv
<1>6. ASSUME NEW r, DOMAIN r = {"stage", "text", "name", "inode"}
      PROVE  LET q == [r EXCEPT !.stage = "open", !.name = name, !.inode = i]
             IN q.inode = i /\ q.text = r.text
  BY <1>6
<1>7. /\ saves'[s] = [saves[s] EXCEPT !.stage = "open", !.name = name, !.inode = i]
      /\ \A o \in Save \ {s} : saves'[o] = saves[o]
  BY <1>4 DEF EnvTypes
<1>8. saves'[s].inode = i /\ saves'[s].text = saves[s].text
  BY <1>6, <1>7 DEF EnvTypes
<1>9. \A o \in Save : /\ saves'[o].inode \in Save
                      /\ saves'[o].stage \in {"read", "kept", "open", "written"} =>
                           /\ saves[o].stage \in {"read", "kept", "open", "written"}
                           /\ saves'[o].text = saves[o].text
  BY <1>1, <1>5, <1>7, <1>8 DEF SettingsInv
<1>10. tmp' \in [Save -> Save \cup {None}]
  BY <1>4, <1>5 DEF SettingsInv
<1>11. /\ text'["first file"] = text["first file"]
       /\ \A o \in Save : text'[o] \in {text[o], Empty}
  BY <1>4, <1>5 DEF EnvTypes, Inode
<1> QED BY <1>1, <1>9, <1>10, <1>11, StepSettles

(* Every step keeps the settings invariant. *)
LEMMA SettingsInvStep ==
  EnvInv /\ EnvInv' /\ SettingsInv /\ [ProvisioningNext]_envVars => SettingsInv'
<1> SUFFICES ASSUME EnvInv, EnvInv', SettingsInv, [ProvisioningNext]_envVars PROVE SettingsInv'
  OBVIOUS
<1>1. EnvTypes /\ EnvTypes'
  BY DEF EnvInv
<1>2. CASE UNCHANGED envVars
  BY <1>2 DEF envVars, files, SettingsInv, RanInv
<1>3. CASE StartGateway \/ StopGateway
  BY <1>1, <1>3, StartSettles, StopSettles
<1>4. ASSUME NEW s \in Save, NEW patch \in Patch,
             ReadForUpdate(s, patch) \/ RunSetupCommand(s, patch)
      PROVE  SettingsInv'
  BY <1>1, <1>4, BeginningSettles
<1>5. ASSUME NEW s \in Save,
             BackupEnvFile(s) \/ OpenTmp(s) \/ WriteTmp(s) \/ RenameTmp(s) \/ FailWrite(s)
      PROVE  SettingsInv'
  BY <1>1, <1>5, BackupSettles, OpenSettles, WriteSettles, RenameSettles, FailSettles
<1> QED BY <1>2, <1>3, <1>4, <1>5 DEF ProvisioningNext

(* What setup or the settings page saved starts the gateway, for every first file, every sequence
   of patches and every environment of the process that fixes no LLM_BACKEND, hides no variable
   of the file behind a blank one and has no headers that do not parse (validateSetupConfig
   against the boot of serve.ts). *)
THEOREM SavedSettingsStart == ProvisioningSpec => []SavedSettingsBoot
<1>1. ProvisioningSpec => []EnvInv
  BY EnvInvInit, EnvInvStep, PTL DEF ProvisioningSpec
<1>2. ProvisioningSpec => []SettingsInv
  BY <1>1, SettingsInvInit, SettingsInvStep, PTL DEF ProvisioningSpec
<1>3. SettingsInv => SavedSettingsBoot
  <2> SUFFICES ASSUME SettingsInv, NEW t \in had, t # text["first file"],
                      \A dir \in SetupDirs : t[dir] = "usable",
                      "LLM_BACKEND" \notin DOMAIN os, ParsesHeaders(os),
                      DOMAIN t \cap DOMAIN os \subseteq Present(os),
                      Boots(LoadEnvFile(os, RenderSetupEnvFile(ConfigFromEnv(<<>>))), World)
               PROVE  Boots(LoadEnvFile(os, t), World)
    BY DEF SavedSettingsBoot
  <2>1. PICK c : /\ Config(c) /\ ValidConfig(c) /\ GoodTokens(os, c.tokens)
                 /\ t = RenderSetupEnvFile(c)
    BY DEF SettingsInv, Rendered
  <2> QED BY <2>1, RenderedBoots
<1> QED BY <1>2, <1>3, PTL

-----------------------------------------------------------------------------
(* Where a save may stand, and how often the gateway stopped. *)
ProvisioningTypes ==
  /\ EnvTypes
  /\ os \in OsEnv /\ stops \in 0..MaxStops
  /\ \A s \in Save : saves[s].stage \in {"idle", "read", "kept", "open", "written",
                                         "saved", "failed", "refused", "lost"}

(* One save comes to another stage, or is refused, and the rest stays. *)
LEMMA StagesStay ==
  ASSUME ProvisioningTypes, NEW s \in Save, DOMAIN saves' = Save, os' = os, stops' = stops,
         saves'[s].stage \in {"read", "kept", "open", "written", "saved", "failed", "refused"},
         \A o \in Save \ {s} : saves'[o] = saves[o], EnvTypes'
  PROVE  ProvisioningTypes'
<1>1. \A o \in Save : o = s \/ saves'[o].stage = saves[o].stage
  OBVIOUS
<1> QED BY <1>1 DEF ProvisioningTypes

LEMMA ProvisioningTypesStep ==
  ProvisioningTypes /\ EnvTypes' /\ [ProvisioningNext]_envVars => ProvisioningTypes'
<1> SUFFICES ASSUME ProvisioningTypes, EnvTypes', [ProvisioningNext]_envVars
             PROVE  ProvisioningTypes'
  OBVIOUS
<1>0. DOMAIN saves = Save /\ EnvTypes
  BY DEF ProvisioningTypes, EnvTypes
<1>1. CASE UNCHANGED envVars
  BY <1>1 DEF envVars, ProvisioningTypes
<1>2. CASE StartGateway
  BY <1>2 DEF StartGateway, ProvisioningTypes
<1>3. CASE StopGateway
  <2>0. stops \in 0..MaxStops /\ MaxStops \in Nat /\ stops < MaxStops /\ stops' = stops + 1
    BY <1>3, ProvisioningAssumption DEF StopGateway, ProvisioningTypes
  <2>1. stops' \in 0..MaxStops
    BY <2>0
  <2>2. ASSUME NEW s \in Save
        PROVE  saves'[s].stage = "lost" \/ saves'[s].stage = saves[s].stage
    BY <1>0, <1>3 DEF StopGateway, EnvTypes
  <2> QED BY <1>3, <2>1, <2>2 DEF StopGateway, ProvisioningTypes
<1>4. ASSUME NEW s \in Save, NEW patch \in Patch,
             ReadForUpdate(s, patch) \/ RunSetupCommand(s, patch)
      PROVE  ProvisioningTypes'
  <2>1. ASSUME NEW next, next.stage \in {"read", "refused"}, BeginSave(s, next)
        PROVE  ProvisioningTypes'
    <3>1. saves'[s].stage = next.stage /\ \A o \in Save \ {s} : saves'[o] = saves[o]
      BY <1>0, <2>1 DEF BeginSave, EnvTypes
    <3> QED BY <1>0, <2>1, <3>1, StagesStay DEF BeginSave
  <2>2. \A config : Accepted(config, patch).stage \in {"read", "refused"}
    BY DEF Accepted
  <2>3. CASE RunSetupCommand(s, patch)
    BY <2>1, <2>2, <2>3 DEF RunSetupCommand
  <2>4. CASE ReadForUpdate(s, patch)
    <3>1. PICK next : BeginSave(s, next) /\ next.stage \in {"read", "refused"}
      BY <2>2, <2>4 DEF ReadForUpdate
    <3> QED BY <2>1, <3>1
  <2> QED BY <1>4, <2>3, <2>4
<1>5. ASSUME NEW s \in Save,
             BackupEnvFile(s) \/ OpenTmp(s) \/ WriteTmp(s) \/ RenameTmp(s) \/ FailWrite(s)
      PROVE  ProvisioningTypes'
  <2>1. ASSUME NEW stage \in {"kept", "written", "saved", "failed"}, To(s, stage)
        PROVE  /\ DOMAIN saves' = Save /\ saves'[s].stage = stage
               /\ \A o \in Save \ {s} : saves'[o] = saves[o]
    BY <1>0, <2>1, ToFacts DEF EnvTypes, To
  <2>2. CASE OpenTmp(s)
    <3>1. PICK n, i : saves' = [saves EXCEPT ![s] = [@ EXCEPT !.stage = "open", !.name = n, !.inode = i]]
      BY <2>2 DEF OpenTmp
    <3>2. /\ DOMAIN saves' = Save /\ saves'[s].stage = "open"
          /\ \A o \in Save \ {s} : saves'[o] = saves[o]
      BY <1>0, <3>1 DEF EnvTypes
    <3> QED BY <1>0, <2>2, <3>2, StagesStay DEF OpenTmp
  <2>3. CASE BackupEnvFile(s)
    BY <1>0, <2>1, <2>3, StagesStay DEF BackupEnvFile
  <2>4. CASE WriteTmp(s)
    BY <1>0, <2>1, <2>4, StagesStay DEF WriteTmp
  <2>5. CASE RenameTmp(s)
    BY <1>0, <2>1, <2>5, StagesStay DEF RenameTmp
  <2>6. CASE FailWrite(s)
    BY <1>0, <2>1, <2>6, StagesStay DEF FailWrite
  <2> QED BY <1>5, <2>2, <2>3, <2>4, <2>5, <2>6
<1> QED BY <1>1, <1>2, <1>3, <1>4, <1>5 DEF ProvisioningNext

(* ProvisioningTypeOK: saves, names and inodes are what they may be (writeEnvFileAtomic). *)
THEOREM ProvisioningTypesHold == ProvisioningSpec => []ProvisioningTypeOK
<1>1. ProvisioningSpec => []EnvInv
  BY EnvInvInit, EnvInvStep, PTL DEF ProvisioningSpec
<1>2. EnvInv => EnvTypes
  BY DEF EnvInv
<1>3. ProvisioningInit => ProvisioningTypes
  <2> SUFFICES ASSUME ProvisioningInit PROVE ProvisioningTypes
    OBVIOUS
  <2>1. EnvTypes
    BY EnvInvInit, <1>2
  <2>2. os \in OsEnv /\ stops \in 0..MaxStops
    <3>1. os \in OsEnv /\ stops = 0
      BY DEF ProvisioningInit
    <3>2. MaxStops \in Nat
      BY ProvisioningAssumption
    <3> QED BY <3>1, <3>2
  <2>3. \A s \in Save : saves[s].stage = "idle"
    BY DEF ProvisioningInit
  <2> QED BY <2>1, <2>2, <2>3 DEF ProvisioningTypes
<1>4. ProvisioningSpec => []ProvisioningTypes
  BY <1>1, <1>2, <1>3, ProvisioningTypesStep, PTL DEF ProvisioningSpec
<1>5. ProvisioningTypes => ProvisioningTypeOK
  BY DEF ProvisioningTypes, EnvTypes, ProvisioningTypeOK
<1> QED BY <1>4, <1>5, PTL

-----------------------------------------------------------------------------
(* A step of the composed stores is a step of one of them and leaves the others
   alone, so what is proved of each carries over to the composition. *)
THEOREM StoresAreApart ==
  StoresSpec => ChainSpec /\ TurnsSpec /\ FailureSpec /\ ProvisioningSpec
<1>1. StoresInit => ChainInit /\ TurnsInit /\ FailureInit /\ ProvisioningInit
  BY DEF StoresInit
<1>2. [StoresNext]_storeVars => /\ [ChainNext]_chainVars /\ [TurnsNext]_turnVars
                                /\ [FailureNext]_failureVars /\ [ProvisioningNext]_envVars
  BY DEF StoresNext, Alone, storeVars
<1> QED BY <1>1, <1>2, PTL DEF StoresSpec, ChainSpec, TurnsSpec, FailureSpec, ProvisioningSpec

(* StoresTypeOK: files, memory and histories hold what they are made for, and
   no memory or complete history more entries, once loaded, than max_entries. *)
THEOREM StoreTypes == StoresSpec => []StoresTypeOK
<1>1. ChainTypeOK /\ WithinMaxEntries /\ SessionTypeOK /\ FailureTypeOK /\ ProvisioningTypeOK
        => StoresTypeOK
  BY DEF StoresTypeOK
<1> QED BY <1>1, StoresAreApart, ChainTypes, MaxEntriesHolds, SessionTypesHold, FailureTypes,
           ProvisioningTypesHold, PTL

(* What holds of each store holds in the composition: the safety properties
   the run of MCStores checks. *)
THEOREM StoresKeepTheirWord ==
  StoresSpec => /\ [](/\ ChainKeepsItsWord /\ HistoryIsTheAnswered /\ OnlyRuledOnRulesStop
                      /\ ReturnedRulesSurvive /\ EnvFileIsKept /\ SavedSettingsBoot)
                /\ BreakStays /\ FailuresDoNotLoosen
BY StoresAreApart, ChainKeepsWord, HistoryStaysTheAnswered, OnlyEarnedRulesStop, ReturnedRulesStay,
   EnvFileStays, SavedSettingsStart, BreaksStay, FailuresNeverLoosen, PTL
=============================================================================
