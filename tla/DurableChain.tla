---------------------------- MODULE DurableChain ----------------------------
(***************************************************************************)
(* The hash chains of HDS-BRAIN and the JSONL files they live in: the      *)
(* audit log, the long-term memory and the complete history.  A store      *)
(* holds its entries in memory and appends each as one line with a         *)
(* synchronous write; its constructor loads the file and verifies it.      *)
(*                                                                         *)
(* The three differ in the order of the two, and in what a failed write    *)
(* leaves behind: AuditLog.append enters the entry before it writes and    *)
(* lets the error out, the other two enter it only once it is written, and *)
(* stop at max_entries.                                                    *)
(*                                                                         *)
(* An entry is written as the sequence of records it closes: its hash      *)
(* covers its record and its predecessor's hash, so without collisions it  *)
(* stands for all of them, and its index is how many came before.          *)
(***************************************************************************)
EXTENDS Naturals, SequencesExt

CONSTANTS
  Record,       \* what callers hand to append() or capture()
  MaxEntries,   \* max_entries of the memory and of the complete history
  MaxLength,    \* bound: a chain or file of this length is not appended to
  Torn          \* a line that JSON.parse rejects

ASSUME ChainAssumption == MaxEntries \in Nat \ {0} /\ MaxLength \in Nat

VARIABLES
  store,   \* which of the three this is
  up,      \* has the constructor returned, and the process not died since?
  mem,     \* entries
  file,    \* the lines of the file; ended: is its newline written?
  acked    \* entries whose append() returned them, unless an operator cut them

chainVars == <<store, up, mem, file, acked>>

Store == {"audit", "memory", "history"}
Row(text, ended) == [text |-> text, ended |-> ended]

-----------------------------------------------------------------------------
(* The file.                                                                *)

(* Defective: a line left unfinished is overwritten.                        *)
LandOver(lines, line) ==
  IF lines # << >> /\ ~Last(lines).ended THEN Append(Front(lines), line)
  ELSE Append(lines, line)

(* appendFileSync: what is written joins a line that has no newline yet, and
   two entries on one line are no JSON.                                     *)
Land(lines, line) ==
  IF lines # << >> /\ ~Last(lines).ended
  THEN Append(Front(lines), Row(Torn, line.ended))
  ELSE Append(lines, line)

Written(entry) == Land(file, Row(entry, TRUE))

(* What a write that throws, or a kill in the middle of it, may leave: any
   prefix of the line.                                                      *)
Landings(entry) ==
  {file, Land(file, Row(Torn, FALSE)), Land(file, Row(entry, FALSE)), Written(entry)}

(* verify(): each entry names its predecessor's hash.                       *)
Verifies(entries) ==
  \A i \in DOMAIN entries :
    Front(entries[i]) = IF i = 1 THEN << >> ELSE entries[i - 1]

Contents(lines) == [i \in DOMAIN lines |-> lines[i].text]
Parses(lines) == \A i \in DOMAIN lines : lines[i].text # Torn

(* loadFromFile() returns, and does not throw.                              *)
Loads(lines) == Parses(lines) /\ Verifies(Contents(lines))

-----------------------------------------------------------------------------
ChainInit ==
  /\ store \in Store
  /\ up = TRUE
  /\ mem = << >> /\ file = << >> /\ acked = {}

(* createEntry, and the head of AuditLog.append: the entry that comes next. *)
Entry(record) == Append(IF mem = << >> THEN << >> ELSE Last(mem), record)

HasRoomLate == store = "audit" \/ Len(mem) <= MaxEntries     \* defective
HasRoom == store = "audit" \/ Len(mem) < MaxEntries

(* append(), or capture() of a log that shouldPersist: the write succeeds.  *)
AppendEntry(record) ==
  /\ up /\ HasRoom
  /\ mem' = Append(mem, Entry(record))
  /\ file' = Written(Entry(record))
  /\ acked' = acked \cup {Entry(record)}
  /\ UNCHANGED <<store, up>>

(* Defective: nothing is undone, and the caller is told it is stored.       *)
FailSilently(record) ==
  /\ up /\ HasRoom
  /\ mem' = IF store = "audit" THEN Append(mem, Entry(record)) ELSE mem
  /\ file' \in Landings(Entry(record))
  /\ acked' = acked \cup {Entry(record)}
  /\ UNCHANGED <<store, up>>

(* The write throws.  Only the audit log holds the entry then.              *)
FailEntry(record) ==
  /\ up /\ HasRoom
  /\ mem' = IF store = "audit" THEN Append(mem, Entry(record)) ELSE mem
  /\ file' \in Landings(Entry(record))
  /\ UNCHANGED <<store, up, acked>>

(* The process is killed, between two writes or in one.                     *)
CrashStore ==
  /\ up
  /\ up' = FALSE
  /\ mem' = << >>
  /\ \/ UNCHANGED file
     \/ HasRoom /\ \E record \in Record : file' \in Landings(Entry(record))
  /\ UNCHANGED <<store, acked>>

(* The constructor, when it does not throw.                                 *)
BootStore ==
  /\ ~up /\ Loads(file)
  /\ up' = TRUE
  /\ mem' = Contents(file)
  /\ UNCHANGED <<store, file, acked>>

(* The operator's way out of a chain that does not load (docs/runbook.md,
   6.1): keep the lines before a known good index, or none at all.          *)
Repair(n) ==
  /\ ~up /\ ~Loads(file)
  /\ Loads(SubSeq(file, 1, n))
  /\ file' = [i \in 1 .. n |-> Row(file[i].text, TRUE)]
  /\ acked' = acked \cap ToSet(Contents(file'))
  /\ UNCHANGED <<store, up, mem>>

Bounded == Len(file) < MaxLength /\ Len(mem) < MaxLength

ChainNext ==
  \/ \E record \in Record : Bounded /\ (AppendEntry(record) \/ FailEntry(record))
  \/ Bounded /\ CrashStore
  \/ BootStore
  \/ \E n \in 0 .. Len(file) - 1 : Repair(n)

ChainSpec == ChainInit /\ [][ChainNext]_chainVars

-----------------------------------------------------------------------------
(* Properties.                                                              *)

ChainTypeOK ==
  /\ store \in Store /\ up \in BOOLEAN
  /\ mem \in Seq(Seq(Record)) /\ acked \subseteq Seq(Record)
  /\ file \in Seq([text: {Torn} \cup Seq(Record), ended: BOOLEAN])
  /\ \A i \in DOMAIN file : i < Len(file) => file[i].ended
  /\ ~up => mem = << >>

(* A running process holds a chain that verifies: whatever failed writes,
   torn lines and phantom entries the file went through, a constructor that
   returned has read the records of one history, in order (loadFromFile,
   verify).  The health report of HDS-BRAIN rests on it.                    *)
LiveChainVerifies == up => Verifies(mem)

(* No acknowledged entry is lost without notice: a process that runs has
   every entry that append() or capture() ever returned, and has it at the
   place it was given, except what an operator cut off (append, capture).   *)
AcknowledgedSurvive == up => acked \subseteq ToSet(mem)

(* Both: what a running store holds is one history, and all of it.         *)
ChainKeepsItsWord == LiveChainVerifies /\ AcknowledgedSurvive

(* A file that does not load stays that way whatever the program appends or
   crashes into it, so a break cannot hide until the evidence is gone:
   tamper-evident, not tamper-recoverable (docs/runbook.md:544).            *)
BreakStays ==
  [][~Loads(file) => ~Loads(file') \/ ~up]_chainVars

(* max_entries bounds the memory and the complete history across failed
   writes and restarts too, although a failed write may leave an entry in
   the file that the store does not count (capture, append).                *)
WithinMaxEntries == up /\ store # "audit" => Len(mem) <= MaxEntries
=============================================================================
