------------------------- MODULE ServiceHostProofs -------------------------
(***************************************************************************)
(* Ingestion and ServiceHost for every value of the constants: a directive *)
(* has one task and the committed rows follow the file, for any number of  *)
(* ingestors, with or without hosts around them.                           *)
(***************************************************************************)
EXTENDS ServiceHost, TLAPS

\* A torn or cut line is the last one, and an append under way has one.
FileInv ==
    /\ \A k \in DOMAIN file : file[k] \notin Lines => k = Len(file)
    /\ writing # NoLine => file # <<>> /\ file[Len(file)] \in {Torn, Cut(writing)}

\* Line k of the file is r, or was when its newline was still to come.
Stands(r, k) == k \in DOMAIN file /\ file[k] # Torn /\ r \in {file[k], Cut(file[k])}

\* What an ingestor has read is still in the file, except the torn line.
ReadInv(i) ==
    \A k \in DOMAIN ing[i].lines : ing[i].lines[k] # Torn => Stands(ing[i].lines[k], k)

\* An ingestor that commits is at a committed line or at the first one after.
AtInv(i) ==
    /\ ing[i].pc \in {"record", "bind"} =>
        ing[i].at \in Nat /\ 1 <= ing[i].at /\ ing[i].at <= Len(rows) + 1
    /\ ing[i].pc = "bind" => ing[i].at <= Len(ing[i].lines)

\* The inductive invariant of ingestion.
IngestionInv ==
    /\ ITypeOK /\ OneTaskPerDirective /\ RowsFollowFile /\ FileInv
    /\ \A i \in Ingestors : AtInv(i)
    /\ ~altered => \A i \in Ingestors : ReadInv(i)

----------------------------------------------------------------------------
(* The file changes. *)

\* A line that lacks its newline is a line that parses, of the same task.
LEMMA CutLines ==
    /\ Torn \notin Readable /\ NoLine \notin Lines /\ Lines \subseteq Readable
    /\ \A l \in Readable :
        /\ Cut(l) \in Readable \ Lines /\ Cut(Cut(l)) = Cut(l)
        /\ Cut(l).id = l.id /\ Task(Cut(l)) = Task(l)
        /\ l.id \in Ids /\ l.key \in Keys
<1> DEFINE All == [id: Ids, key: Keys, verified: BOOLEAN, cut: BOOLEAN]
<1>1. /\ Lines \subseteq All /\ Torn \notin All /\ NoLine \notin Lines
      /\ \A l \in Lines : l.cut = FALSE
  BY IngestionAssumption
<1>2. \A l \in All : /\ Cut(l) \in All /\ Cut(l).cut = TRUE /\ Cut(Cut(l)) = Cut(l)
                     /\ Cut(l).id = l.id /\ Cut(l).key = l.key
                     /\ l.id \in Ids /\ l.key \in Keys
  BY DEF Cut
<1> HIDE DEF All
<1>3. Readable \subseteq All
  BY <1>1, <1>2 DEF Readable
<1>4. \A l \in Readable : Cut(l) \in Readable
  BY <1>1, <1>2 DEF Readable
<1>5. \A l \in Readable : Cut(l) \notin Lines
  BY <1>1, <1>2, <1>3
<1> QED BY <1>1, <1>2, <1>3, <1>4, <1>5 DEF Readable, Task

\* A step that only writes the file, and leaves every line that was read in it,
\* or owns up to altering it, keeps the invariant.
LEMMA FileWritten ==
    ASSUME IngestionInv, UNCHANGED <<store, ing>>,
           file' \in Seq(Readable \cup {Torn}), writing' \in Lines \cup {NoLine},
           altered' \in BOOLEAN, FileInv',
           ~altered' => /\ ~altered
                        /\ \A k \in DOMAIN file : file[k] # Torn =>
                            /\ k \in DOMAIN file' /\ file'[k] # Torn
                            /\ file[k] \in {file'[k], Cut(file'[k])}
    PROVE  IngestionInv'
<1> USE DEF IngestionInv, store
<1>1. ITypeOK'
  BY DEF ITypeOK
<1>2. ASSUME ~altered', NEW r, NEW k, Stands(r, k) PROVE Stands(r, k)'
  <2>1. file[k] # Torn /\ k \in DOMAIN file /\ k \in DOMAIN file' /\ file'[k] # Torn
        /\ file[k] \in {file'[k], Cut(file'[k])}
    BY <1>2 DEF Stands
  <2>2. file'[k] \in Readable
    BY <2>1
  <2>3. Cut(file[k]) = Cut(file'[k])
    BY <2>1, <2>2, CutLines
  <2> QED BY <1>2, <2>1, <2>3 DEF Stands
<1>3. ~altered' => \A i \in Ingestors : ReadInv(i)'
  BY <1>2 DEF ReadInv
<1>4. RowsFollowFile'
  <2> SUFFICES ASSUME ~altered' PROVE Follows(rows, file')
    BY DEF RowsFollowFile
  <2>1. Follows(rows, file) /\ rows \in Seq(Readable) /\ file \in Seq(Readable \cup {Torn})
    BY DEF RowsFollowFile, ITypeOK
  <2>2. \A k \in DOMAIN rows : Stands(rows[k], k)
    BY <2>1 DEF Follows, Stands
  <2>3. \A k \in DOMAIN rows : Stands(rows[k], k)'
    BY <1>2, <2>2
  <2>4. Len(rows) <= Len(file')
    <3>1. CASE Len(rows) = 0
      BY <3>1
    <3>2. CASE Len(rows) # 0
      <4>1. Len(rows) \in DOMAIN rows
        BY <2>1, <3>2
      <4>2. Len(rows) \in DOMAIN file'
        BY <2>3, <4>1 DEF Stands
      <4> QED BY <4>2
    <3> QED BY <3>1, <3>2
  <2> QED BY <2>3, <2>4 DEF Follows, Stands
<1>5. OneTaskPerDirective' /\ \A i \in Ingestors : AtInv(i)'
  BY DEF OneTaskPerDirective, AtInv
<1> QED BY <1>1, <1>3, <1>4, <1>5

LEMMA AppendBegins ==
    ASSUME IngestionInv, NEW l \in Lines, BeginAppend(l) PROVE IngestionInv'
<1>1. /\ file \in Seq(Readable \cup {Torn}) /\ file' = Append(file, Torn)
      /\ Len(file') = Len(file) + 1 /\ file'[Len(file) + 1] = Torn
      /\ \A k \in DOMAIN file : k \in DOMAIN file' /\ file'[k] = file[k] /\ file[k] # Torn
      /\ \A k \in DOMAIN file' : k \in DOMAIN file \/ k = Len(file) + 1
  BY DEF IngestionInv, BeginAppend, ITypeOK, Elements
<1>2. \A k \in DOMAIN file : file[k] \in Lines
  <2>1. \A k \in DOMAIN file : file[k] \in Readable
    BY <1>1
  <2>2. file # <<>> => file[Len(file)] \in Lines
    BY <1>1, <2>1 DEF BeginAppend, EndsCut
  <2> QED BY <1>1, <2>2 DEF IngestionInv, FileInv
<1>3. FileInv'
  BY <1>1, <1>2 DEF FileInv, BeginAppend
<1>4. file' \in Seq(Readable \cup {Torn})
  BY <1>1
<1> QED BY <1>1, <1>3, <1>4, FileWritten DEF BeginAppend, IngestionInv, ITypeOK, store

\* Setting the last line of the file.
LEMMA LastLine ==
    ASSUME IngestionInv, file # <<>>, NEW l \in Readable \cup {Torn}, SetLast(l)
    PROVE  /\ file' \in Seq(Readable \cup {Torn}) /\ Len(file') = Len(file)
           /\ DOMAIN file' = DOMAIN file /\ Len(file) \in DOMAIN file /\ file' # <<>>
           /\ file'[Len(file)] = l
           /\ \A k \in DOMAIN file : k # Len(file) => file'[k] = file[k] /\ file[k] \in Lines
<1>1. file \in Seq(Readable \cup {Torn})
  BY DEF IngestionInv, ITypeOK
<1>2. \A k \in DOMAIN file : k # Len(file) => file[k] \in Lines
  BY DEF IngestionInv, FileInv
<1> QED BY <1>1, <1>2 DEF SetLast

LEMMA AppendGoesOn ==
    ASSUME IngestionInv, WriteBody \/ FinishAppend PROVE IngestionInv'
<1>1. /\ writing \in Lines /\ file # <<>> /\ file[Len(file)] \in {Torn, Cut(writing)}
      /\ altered' = altered /\ altered \in BOOLEAN /\ UNCHANGED <<store, ing>>
  BY DEF IngestionInv, ITypeOK, FileInv, WriteBody, FinishAppend
<1>2. PICK l \in {writing, Cut(writing)} :
        /\ SetLast(l) /\ writing' \in {NoLine, writing}
        /\ writing' # NoLine => l = Cut(writing) /\ writing' = writing
  BY DEF WriteBody, FinishAppend
<1>3. l \in Readable /\ Cut(l) = Cut(writing) /\ l # Torn
  BY <1>1, <1>2, CutLines
<1>4. /\ file' \in Seq(Readable \cup {Torn}) /\ Len(file') = Len(file)
      /\ DOMAIN file' = DOMAIN file /\ file'[Len(file)] = l /\ file' # <<>>
      /\ \A k \in DOMAIN file : k # Len(file) => file'[k] = file[k] /\ file[k] \in Lines
  BY <1>1, <1>2, <1>3, LastLine
<1>5. FileInv'
  BY <1>2, <1>4 DEF FileInv
<1>6. \A k \in DOMAIN file : file[k] # Torn =>
          /\ k \in DOMAIN file' /\ file'[k] # Torn /\ file[k] \in {file'[k], Cut(file'[k])}
  BY <1>1, <1>3, <1>4, CutLines
<1> QED BY <1>1, <1>2, <1>4, <1>5, <1>6, FileWritten

LEMMA AppendEnds ==
    ASSUME IngestionInv, AbandonAppend \/ AppendToCut PROVE IngestionInv'
<1>1. CASE AbandonAppend
  <2>1. FileInv'
    BY <1>1 DEF AbandonAppend, IngestionInv, FileInv
  <2>2. file \in Seq(Readable \cup {Torn}) /\ altered \in BOOLEAN
    BY DEF IngestionInv, ITypeOK
  <2> QED BY <1>1, <2>1, <2>2, FileWritten DEF AbandonAppend
<1>2. CASE AppendToCut
  <2>1. file # <<>> /\ SetLast(Torn) /\ writing' = NoLine /\ altered' = TRUE
        /\ UNCHANGED <<store, ing>>
    BY <1>2 DEF AppendToCut, EndsCut
  <2>2. /\ file' \in Seq(Readable \cup {Torn}) /\ Len(file') = Len(file)
        /\ DOMAIN file' = DOMAIN file
        /\ \A k \in DOMAIN file : k # Len(file) => file'[k] = file[k] /\ file[k] \in Lines
    BY <2>1, LastLine
  <2>3. FileInv'
    BY <2>1, <2>2 DEF FileInv
  <2> QED BY <2>1, <2>2, <2>3, FileWritten
<1> QED BY <1>1, <1>2

LEMMA LineRemoved ==
    ASSUME IngestionInv, NEW k \in Nat, RemoveLine(k) PROVE IngestionInv'
<1>1. /\ file \in Seq(Readable \cup {Torn}) /\ k \in 1..Len(file) /\ Len(file) \in Nat
      /\ altered \in BOOLEAN /\ writing' = NoLine /\ writing = NoLine
      /\ altered' = (altered \/ file[k] # Torn) /\ UNCHANGED <<store, ing>>
  BY DEF IngestionInv, ITypeOK, RemoveLine
<1>2. /\ file' \in Seq(Readable \cup {Torn}) /\ Len(file') = Len(file) - 1
      /\ DOMAIN file' = 1..(Len(file) - 1)
      /\ \A n \in DOMAIN file' : file'[n] = IF n < k THEN file[n] ELSE file[n + 1]
  <2>1. file' = [n \in 1..(Len(file) - 1) |-> IF n < k THEN file[n] ELSE file[n + 1]]
    BY DEF RemoveLine
  <2>2. Len(file) - 1 \in Nat
    BY <1>1
  <2>3. \A n \in 1..(Len(file) - 1) :
            (IF n < k THEN file[n] ELSE file[n + 1]) \in Readable \cup {Torn}
    BY <1>1
  <2> QED BY <2>1, <2>2, <2>3
<1>3. \A n \in 1..Len(file) : file[n] \notin Lines => n = Len(file)
  BY <1>1 DEF IngestionInv, FileInv
<1>4. FileInv'
  <2>1. ASSUME NEW n \in DOMAIN file', file'[n] \notin Lines PROVE n = Len(file')
    <3>1. n \in 1..Len(file) /\ n + 1 \in 1..Len(file) /\ n # Len(file)
      BY <1>1, <1>2
    <3>2. file'[n] = file[n + 1]
      BY <1>2, <1>3, <2>1, <3>1
    <3>3. n + 1 = Len(file)
      BY <1>3, <2>1, <3>1, <3>2
    <3> QED BY <1>1, <1>2, <3>1, <3>3
  <2> QED BY <1>1, <2>1 DEF FileInv
<1>5. ~altered' =>
        /\ ~altered
        /\ \A n \in DOMAIN file : file[n] # Torn => n \in DOMAIN file' /\ file'[n] = file[n]
  <2> SUFFICES ASSUME ~altered'
               PROVE  /\ ~altered
                      /\ \A n \in DOMAIN file : file[n] # Torn => n \in DOMAIN file' /\ file'[n] = file[n]
    OBVIOUS
  <2>1. ~altered /\ file[k] = Torn
    BY <1>1
  <2>2. k = Len(file)
    BY <1>1, <1>3, <2>1, CutLines
  <2> QED BY <1>1, <1>2, <2>1, <2>2
<1>6. altered' \in BOOLEAN
  BY DEF RemoveLine
<1> QED BY <1>1, <1>2, <1>4, <1>5, <1>6, FileWritten

LEMMA FileStepKeeps ==
    ASSUME IngestionInv, FileStep PROVE IngestionInv'
<1>1. MaxLines \in Nat
  BY IngestionAssumption
<1> QED BY <1>1, AppendBegins, AppendGoesOn, AppendEnds, LineRemoved DEF FileStep

----------------------------------------------------------------------------
(* An ingestor goes on. *)

\* A step of an ingestor that changes only its memory keeps the invariant if
\* its new memory does.
LEMMA MemoryStep ==
    ASSUME IngestionInv, NEW i \in Ingestors, UNCHANGED <<queue, store>>,
           NEW m \in [pc: Stages \cup Results, lines: Seq(Readable \cup {Torn}), at: Nat],
           ing' = [ing EXCEPT ![i] = m],
           m.pc \in Stages \ {"idle", "compare"} => m.lines \in Seq(Readable),
           m.pc \in {"record", "bind"} => 1 <= m.at /\ m.at <= Len(rows) + 1,
           m.pc = "bind" => m.at <= Len(m.lines),
           ~altered => \A k \in DOMAIN m.lines : m.lines[k] # Torn => Stands(m.lines[k], k)
    PROVE  IngestionInv'
<1> USE DEF IngestionInv, queue, store
<1>1. ITypeOK'
  BY DEF ITypeOK
<1>2. /\ ing'[i] = m
      /\ \A j \in Ingestors \ {i} : ing'[j] = ing[j]
  BY DEF ITypeOK
<1>3. \A j \in Ingestors : AtInv(j)'
  BY <1>2 DEF AtInv
<1>4. ~altered' => \A j \in Ingestors : ReadInv(j)'
  BY <1>2 DEF ReadInv, Stands
<1>5. OneTaskPerDirective' /\ RowsFollowFile' /\ FileInv'
  BY DEF OneTaskPerDirective, RowsFollowFile, FileInv
<1> QED BY <1>1, <1>3, <1>4, <1>5

LEMMA IdleKeeps ==
    ASSUME IngestionInv, NEW i \in Ingestors, UNCHANGED <<queue, store>>,
           NEW p \in Results \cup {"idle"},
           ing' = [ing EXCEPT ![i] = [pc |-> p, lines |-> <<>>, at |-> 0]]
    PROVE  IngestionInv'
<1> DEFINE m == [pc |-> p, lines |-> <<>>, at |-> 0]
<1>1. m \in [pc: Stages \cup Results, lines: Seq(Readable \cup {Torn}), at: Nat]
  BY DEF Stages
<1>2. p \notin Stages \ {"idle", "compare"}
  BY DEF Stages, Results
<1>3. DOMAIN m.lines = {}
  OBVIOUS
<1> QED BY <1>1, <1>2, <1>3, MemoryStep DEF Stages

LEMMA ReadKeeps ==
    ASSUME IngestionInv, NEW i \in Ingestors, ReadFile(i) PROVE IngestionInv'
<1> DEFINE m == [pc |-> "compare", lines |-> file, at |-> 0]
<1>1. m \in [pc: Stages \cup Results, lines: Seq(Readable \cup {Torn}), at: Nat]
  BY DEF IngestionInv, ITypeOK, Stages
<1>2. \A k \in DOMAIN m.lines : m.lines[k] # Torn => Stands(m.lines[k], k)
  BY DEF Stands
<1> QED BY <1>1, <1>2, MemoryStep DEF ReadFile, Stages

\* The result of ingest, however it ends.
LEMMA EndKeeps ==
    ASSUME IngestionInv, NEW i \in Ingestors, UNCHANGED <<queue, store>>,
           NEW r \in Results, Ends(i, r)
    PROVE  IngestionInv'
<1>1. [Idle EXCEPT !.pc = r] = [pc |-> r, lines |-> <<>>, at |-> 0]
  BY DEF Idle
<1> QED BY <1>1, IdleKeeps DEF Ends

LEMMA CompareKeeps ==
    ASSUME IngestionInv, NEW i \in Ingestors, Compare(i) PROVE IngestionInv'
<1> DEFINE m == [ing[i] EXCEPT !.pc = "count"]
<1>1. ing[i] \in [pc: Stages \cup Results, lines: Seq(Readable \cup {Torn}), at: Nat]
  BY DEF IngestionInv, ITypeOK
<1>2. m \in [pc: Stages \cup Results, lines: Seq(Readable \cup {Torn}), at: Nat]
      /\ m.pc = "count" /\ m.lines = ing[i].lines
  BY <1>1 DEF Stages
<1>3. m.lines \in Seq(Readable)
  BY <1>1, <1>2 DEF Compare, Intact, Elements
<1>4. ~altered => \A k \in DOMAIN m.lines : m.lines[k] # Torn => Stands(m.lines[k], k)
  BY <1>2 DEF IngestionInv, ReadInv
<1>5. ing' = [ing EXCEPT ![i] = m] /\ UNCHANGED <<queue, store>>
  BY DEF Compare, Goes
<1> HIDE DEF m
<1> QED BY <1>2, <1>3, <1>4, <1>5, MemoryStep

LEMMA CountKeeps ==
    ASSUME IngestionInv, NEW i \in Ingestors, CountRows(i) PROVE IngestionInv'
<1> DEFINE m == [pc |-> "record", lines |-> ing[i].lines, at |-> Len(rows) + 1]
<1>1. ing[i] \in [pc: Stages \cup Results, lines: Seq(Readable \cup {Torn}), at: Nat]
      /\ ing[i].pc = "count" /\ ing[i].lines \in Seq(Readable) /\ Len(rows) \in Nat
  BY DEF IngestionInv, ITypeOK, CountRows, Stages
<1>2. m \in [pc: Stages \cup Results, lines: Seq(Readable \cup {Torn}), at: Nat]
      /\ m.pc = "record" /\ m.lines = ing[i].lines /\ m.at = Len(rows) + 1
  BY <1>1 DEF Stages
<1>3. ~altered => \A k \in DOMAIN m.lines : m.lines[k] # Torn => Stands(m.lines[k], k)
  BY <1>2 DEF IngestionInv, ReadInv
<1>4. ing' = [ing EXCEPT ![i] = m] /\ UNCHANGED <<queue, store>>
  BY DEF CountRows
<1>5. Len(rows) + 1 <= Len(rows) + 1 /\ 1 <= Len(rows) + 1
  BY <1>1
<1> HIDE DEF m
<1> QED BY <1>1, <1>2, <1>3, <1>4, <1>5, MemoryStep

LEMMA AcceptKeeps ==
    ASSUME IngestionInv, NEW i \in Ingestors, Accept(i) PROVE IngestionInv'
<1> DEFINE m == [ing[i] EXCEPT !.pc = "bind"]
<1>1. /\ ing[i] \in [pc: Stages \cup Results, lines: Seq(Readable \cup {Torn}), at: Nat]
      /\ ing[i].pc = "record" /\ ing[i].lines \in Seq(Readable)
      /\ 1 <= ing[i].at /\ ing[i].at <= Len(rows) + 1 /\ ing[i].at <= Len(ing[i].lines)
  BY DEF IngestionInv, ITypeOK, Accept, AtInv, Stages
<1>2. m \in [pc: Stages \cup Results, lines: Seq(Readable \cup {Torn}), at: Nat]
      /\ m.pc = "bind" /\ m.lines = ing[i].lines /\ m.at = ing[i].at
  BY <1>1 DEF Stages
<1>3. ~altered => \A k \in DOMAIN m.lines : m.lines[k] # Torn => Stands(m.lines[k], k)
  BY <1>2 DEF IngestionInv, ReadInv
<1>4. ing' = [ing EXCEPT ![i] = m] /\ UNCHANGED <<queue, store>>
  BY DEF Accept, Goes
<1> HIDE DEF m
<1> QED BY <1>1, <1>2, <1>3, <1>4, MemoryStep


LEMMA AppendedRow ==
    ASSUME NEW R, NEW s \in Seq(R), NEW l \in R
    PROVE  /\ Len(Append(s, l)) = Len(s) + 1 /\ Append(s, l)[Len(s) + 1] = l
           /\ DOMAIN Append(s, l) = DOMAIN s \cup {Len(s) + 1}
           /\ \A k \in DOMAIN s : Append(s, l)[k] = s[k]
  OBVIOUS

\* The transaction of one line: a committed line is left alone, the first one
\* behind them is added, and its task with it.
LEMMA BindKeeps ==
    ASSUME IngestionInv, NEW i \in Ingestors, Bind(i) PROVE IngestionInv'
<1> DEFINE at == ing[i].at
           l == Current(i)
<1>1. /\ ing[i] \in [pc: Stages \cup Results, lines: Seq(Readable \cup {Torn}), at: Nat]
      /\ ing[i].pc = "bind" /\ ing[i].lines \in Seq(Readable) /\ at \in Nat
      /\ 1 <= at /\ at <= Len(rows) + 1 /\ at <= Len(ing[i].lines)
      /\ rows \in Seq(Readable) /\ Len(rows) \in Nat
  BY DEF IngestionInv, ITypeOK, Bind, AtInv, Stages
<1>2. l \in Readable /\ l = ing[i].lines[at] /\ l # Torn
  BY <1>1, CutLines DEF Current
<1>3. at <= Len(rows) => rows[at] = l /\ rows' = rows
  BY DEF Bind, Rewritten
<1>4. at > Len(rows) => at = Len(rows) + 1 /\ rows' = Append(rows, l)
  BY <1>1 DEF Bind
<1>4a. at > Len(rows) =>
        /\ Len(rows') = at /\ DOMAIN rows' = DOMAIN rows \cup {at}
        /\ rows'[at] = l /\ \A k \in DOMAIN rows : rows'[k] = rows[k]
  <2>1. l \in Readable /\ rows \in Seq(Readable)
    BY <1>1, <1>2
  <2> HIDE DEF at, l
  <2> QED BY <1>4, <2>1, AppendedRow
<1>5. rows' \in Seq(Readable) /\ Len(rows) <= Len(rows')
  BY <1>1, <1>2, <1>3, <1>4
<1>6. Elements(rows') = Elements(rows) \cup {l}
  <2>1. CASE at <= Len(rows)
    BY <1>1, <1>3, <2>1 DEF Elements
  <2>2. CASE at > Len(rows)
    <3> HIDE DEF at, l
    <3>1. at \notin DOMAIN rows
      BY <1>1, <2>2
    <3> QED BY <1>4a, <2>2, <3>1 DEF Elements
  <2> QED BY <1>1, <2>1, <2>2
<1>7. OneTaskPerDirective'
  <2>1. tasks' = {Task(r) : r \in Elements(rows')}
    BY <1>6 DEF Bind, IngestionInv, OneTaskPerDirective
  <2>2. \A t \in tasks : t.id = l.id => t = Task(l)
    BY DEF Bind, Rebound
  <2>3. Task(l).id = l.id
    BY DEF Task
  <2> QED BY <2>1, <2>2, <2>3 DEF Bind, IngestionInv, OneTaskPerDirective
<1>8. RowsFollowFile'
  <2>1. ~altered => Stands(l, at)
    BY <1>1, <1>2 DEF IngestionInv, ReadInv
  <2>2. ~altered => Follows(rows, file) /\ file \in Seq(Readable \cup {Torn})
    BY DEF IngestionInv, RowsFollowFile, ITypeOK
  <2>3. ~altered => Follows(rows', file)
    <3>1. CASE at <= Len(rows)
      BY <1>3, <2>2, <3>1
    <3>2. CASE at > Len(rows)
      <4>1. ~altered => at <= Len(file)
        BY <1>1, <2>1, <2>2 DEF Stands
      <4> HIDE DEF at, l
      <4> QED BY <1>4a, <2>1, <2>2, <3>2, <4>1 DEF Follows, Stands
    <3> QED BY <1>1, <3>1, <3>2
  <2> QED BY <2>3 DEF Bind, queue, RowsFollowFile
<1> DEFINE m == [pc |-> "record", lines |-> ing[i].lines, at |-> at + 1]
<1>9. ing' = [ing EXCEPT ![i] = m] /\ UNCHANGED queue
  BY DEF Bind
<1>10. m \in [pc: Stages \cup Results, lines: Seq(Readable \cup {Torn}), at: Nat]
  BY <1>1 DEF Stages
<1>11. m.pc = "record" /\ m.lines = ing[i].lines /\ m.at = at + 1
  OBVIOUS
<1> HIDE DEF m
<1>12. /\ ing' \in [Ingestors -> [pc: Stages \cup Results,
                                 lines: Seq(Readable \cup {Torn}), at: Nat]]
       /\ ing'[i] = m /\ \A j \in Ingestors \ {i} : ing'[j] = ing[j]
  BY <1>9, <1>10 DEF IngestionInv, ITypeOK
<1>13. ITypeOK'
  <2>1. tasks' \subseteq [id: Ids, key: Keys]
    <3>1. tasks' = tasks \cup {Task(l)} /\ l.id \in Ids /\ l.key \in Keys
      BY <1>2, CutLines DEF Bind
    <3> HIDE DEF l
    <3>2. Task(l) \in [id: Ids, key: Keys]
      BY <3>1 DEF Task
    <3> QED BY <3>1, <3>2 DEF IngestionInv, ITypeOK
  <2>2. \A j \in Ingestors : ing'[j].pc \in Stages \ {"idle", "compare"}
            => ing'[j].lines \in Seq(Readable)
    BY <1>1, <1>11, <1>12 DEF IngestionInv, ITypeOK
  <2> QED BY <1>5, <1>9, <1>12, <2>1, <2>2 DEF IngestionInv, ITypeOK, queue
<1>14. \A j \in Ingestors : AtInv(j)'
  <2>1. AtInv(i)'
    BY <1>1, <1>3, <1>4, <1>5, <1>11, <1>12 DEF AtInv
  <2>2. \A j \in Ingestors \ {i} : AtInv(j)'
    <3> SUFFICES ASSUME NEW j \in Ingestors \ {i} PROVE AtInv(j)'
      OBVIOUS
    <3>1. AtInv(j) /\ Len(rows') \in Nat
      BY <1>5 DEF IngestionInv
    <3> QED BY <1>1, <1>5, <1>12, <3>1 DEF AtInv
  <2> QED BY <2>1, <2>2
<1>15. ~altered' => \A j \in Ingestors : ReadInv(j)'
  BY <1>9, <1>11, <1>12 DEF IngestionInv, ReadInv, Stands, queue
<1>16. FileInv'
  BY <1>9 DEF IngestionInv, FileInv, queue
<1> QED BY <1>7, <1>8, <1>13, <1>14, <1>15, <1>16 DEF IngestionInv

----------------------------------------------------------------------------
(* Ingestion as a whole. *)

LEMMA IngestStepKeeps ==
    ASSUME IngestionInv, NEW i \in Ingestors, IngestStep(i) PROVE IngestionInv'
<1> USE DEF Results
<1>1. CASE Compare(i) \/ CountRows(i) \/ Accept(i) \/ Bind(i)
  BY <1>1, CompareKeeps, CountKeeps, AcceptKeeps, BindKeeps
<1>2. CASE CompareFails(i) \/ Finish(i) \/ Invalid(i) \/ Refuse(i)
  BY <1>2, EndKeeps DEF CompareFails, Block, Finish, Invalid, Refuse
<1>3. CASE BindConflict(i) \/ BindBusy(i) \/ ReadBusy(i)
  BY <1>3, EndKeeps DEF BindConflict, Block, BindBusy, ReadBusy
<1> QED BY <1>1, <1>2, <1>3 DEF IngestStep

LEMMA ForgetKeeps ==
    ASSUME IngestionInv, NEW i \in Ingestors, UNCHANGED <<queue, store>>,
           ing' = [ing EXCEPT ![i] = Idle]
    PROVE  IngestionInv'
  BY IdleKeeps DEF Idle

LEMMA IngestionInit == IInit => IngestionInv
<1> SUFFICES ASSUME IInit PROVE IngestionInv
  OBVIOUS
<1> USE DEF IInit, Idle
<1>1. ITypeOK
  <2>1. [pc |-> "idle", lines |-> <<>>, at |-> 0]
            \in [pc: Stages \cup Results, lines: Seq(Readable \cup {Torn}), at: Nat]
    BY DEF Stages
  <2>2. <<>> \in Seq(Readable) /\ <<>> \in Seq(Readable \cup {Torn})
    OBVIOUS
  <2>3. \A i \in Ingestors : ing[i].pc = "idle"
    OBVIOUS
  <2> QED BY <2>1, <2>2, <2>3 DEF ITypeOK
<1>2. OneTaskPerDirective /\ RowsFollowFile
  BY DEF OneTaskPerDirective, Elements, RowsFollowFile, Follows
<1>3. FileInv /\ \A i \in Ingestors : AtInv(i) /\ ReadInv(i)
  BY DEF FileInv, AtInv, ReadInv
<1> QED BY <1>1, <1>2, <1>3 DEF IngestionInv

LEMMA IngestionNext == IngestionInv /\ [INext]_ivars => IngestionInv'
<1> SUFFICES ASSUME IngestionInv, [INext]_ivars PROVE IngestionInv'
  OBVIOUS
<1>1. CASE FileStep
  BY <1>1, FileStepKeeps
<1>2. ASSUME NEW i \in Ingestors, ReadFile(i) \/ IngestStep(i) PROVE IngestionInv'
  BY <1>2, ReadKeeps, IngestStepKeeps
<1>3. ASSUME NEW i \in Ingestors, Rest(i) \/ Lose(i) PROVE IngestionInv'
  BY <1>3, ForgetKeeps DEF Rest, Lose
<1>4. CASE UNCHANGED ivars
  BY <1>4 DEF ivars, queue, store, IngestionInv, ITypeOK, OneTaskPerDirective,
       RowsFollowFile, FileInv, AtInv, ReadInv, Stands
<1> QED BY <1>1, <1>2, <1>3, <1>4 DEF INext

\* Ingestion keeps its inductive invariant, whatever is appended or torn and
\* whichever ingestors race, crash or repeat.
THEOREM IngestionInvariance == ISpec => []IngestionInv
  BY IngestionInit, IngestionNext, PTL DEF ISpec

\* The tasks are the committed lines, and a directive has one of them (the
\* checks that ingest repeats inside its transaction).
THEOREM DirectiveHasOneTask == ISpec => []OneTaskPerDirective
<1>1. IngestionInv => OneTaskPerDirective
  BY DEF IngestionInv
<1> QED BY <1>1, IngestionInvariance, PTL

\* Unless somebody alters lines, the committed rows are the beginning of the
\* file, each read with or before its newline (read_records, and the sequence number taken in the transaction).
THEOREM CommittedRowsFollow == ISpec => []RowsFollowFile
<1>1. IngestionInv => RowsFollowFile
  BY DEF IngestionInv
<1> QED BY <1>1, IngestionInvariance, PTL

----------------------------------------------------------------------------
(* The hosts around it. *)

LEMMA HostStepIngests ==
    ASSUME ITypeOK, NEW h \in Hosts, HostStep(h) PROVE [INext]_ivars
<1>1. h \in Ingestors
  BY ServiceAssumption
<1>2. CASE CrashHost(h)
  <2>1. CASE ing[h] = Idle
    BY <1>1, <1>2, <2>1 DEF CrashHost, ITypeOK, ivars
  <2>2. CASE ing[h] # Idle
    BY <1>1, <1>2, <2>2 DEF CrashHost, Lose, INext
  <2> QED BY <2>1, <2>2
<1>3. CASE CycleReads(h) \/ CycleIngests(h) \/ Ingested(h) \/ IngestFails(h)
  BY <1>1, <1>3 DEF CycleReads, CycleIngests, Ingested, IngestFails, INext
<1>4. CASE Acquire(h) \/ Started(h) \/ StartFails(h) \/ Stopping(h) \/ Stopped(h) \/ Release(h)
  BY <1>4 DEF Acquire, Started, StartFails, Stopping, Stopped, Release
<1>5. CASE BeginCycle(h) \/ (\E e \in Errors : StageFails(h, e)) \/ CycleDone(h)
           \/ ReportIdle(h) \/ ReportBackoff(h) \/ ReportEnd(h) \/ ReportLost(h)
  BY <1>5 DEF BeginCycle, StageFails, CycleDone, ReportIdle, ReportBackoff, ReportEnd, ReportLost
<1> QED BY <1>2, <1>3, <1>4, <1>5 DEF HostStep

LEMMA ServiceStepIngests ==
    ASSUME ITypeOK, [SNext]_svars PROVE [INext]_ivars
<1>1. CASE UNCHANGED svars
  BY <1>1 DEF svars
<1>2. CASE FileStep
  BY <1>2 DEF INext
<1> QED BY <1>1, <1>2, HostStepIngests DEF SNext

\* Whatever hosts start, stop, fail or are killed, the service only ingests as
\* an ingestor of its own would (AutonomyServiceHost invokes run_once only).
THEOREM ServiceImplementsIngestion == SSpec => ISpec
<1>1. SInit => IInit /\ IngestionInv
  BY IngestionInit DEF SInit
<1>2. IngestionInv /\ [SNext]_svars => [INext]_ivars /\ IngestionInv'
  BY ServiceStepIngests, IngestionNext DEF IngestionInv
<1> QED BY <1>1, <1>2, PTL DEF SSpec, ISpec

\* So under the service, too, a directive has one task and the rows follow the
\* file.
THEOREM ServiceKeepsTasks == SSpec => [](OneTaskPerDirective /\ RowsFollowFile)
  BY ServiceImplementsIngestion, DirectiveHasOneTask, CommittedRowsFollow, PTL

----------------------------------------------------------------------------
(* The lock and the row. *)

\* The inductive invariant: a host that runs holds the lock, and one that has
\* not given up is within the limit.
Trying == {"starting", "loop", "cycle", "ingested", "done", "BACKOFF"}
HostInv ==
    /\ STypeOK /\ RowIsLiveHosts
    /\ \A h \in Hosts : ~At(h, "off") => lock = h
    /\ \A h \in Hosts : host[h].pc \in Trying => host[h].failures <= MaxFailures


HealthRows == [status: Statuses \cup {"NONE"}, owner: Hosts \cup {NoHost}, cycles: 0..MaxCycles]
Memories == [pc: Places, failures: 0..(MaxFailures + 1)]
Live(pc) == ~(pc \in {"off", "starting", "leaving"})

\* The other hosts are off, so a step of the holder has only itself to answer
\* for: its memory v, the row and the lock it leaves.
LEMMA HolderStep ==
    ASSUME HostInv, NEW h \in Hosts, ~At(h, "off"),
           NEW v \in Memories, host' = [host EXCEPT ![h] = v],
           health' \in HealthRows,
           lock' = h \/ (v.pc = "off" /\ lock' = NoHost),
           v.pc \in Trying => v.failures <= MaxFailures,
           Live(v.pc) => /\ health'.owner = h /\ health'.status \in Statuses \ Terminal
                         /\ v.pc = "cycle" => health'.status = "RUNNING"
    PROVE  HostInv'
<1>1. host \in [Hosts -> Memories] /\ lock = h
  BY DEF HostInv, STypeOK, Memories
<1>2. host' \in [Hosts -> Memories] /\ host'[h] = v /\ \A g \in Hosts \ {h} : host'[g] = host[g]
  BY <1>1
<1>3. \A g \in Hosts \ {h} : host'[g].pc = "off"
  BY <1>1, <1>2 DEF HostInv, At
<1>4. STypeOK'
  BY <1>2 DEF STypeOK, Memories, HealthRows
<1>5. \A g \in Hosts : Live(host'[g].pc) => g = h
  BY <1>3 DEF Live
<1>6. v.pc # "off" => lock' = h
  OBVIOUS
<1>7. RowIsLiveHosts'
  BY <1>2, <1>5, <1>6 DEF RowIsLiveHosts, Live, At
<1>8. \A g \in Hosts : ~At(g, "off")' => lock' = g
  BY <1>2, <1>3, <1>6 DEF At
<1>9. \A g \in Hosts : host'[g].pc \in Trying => host'[g].failures <= MaxFailures
  BY <1>2 DEF HostInv
<1> QED BY <1>4, <1>7, <1>8, <1>9 DEF HostInv

\* A row written by its holder is a row.
LEMMA RowTyped ==
    ASSUME HostInv, NEW h \in Hosts, NEW s \in Statuses
    PROVE  [status |-> s, owner |-> h, cycles |-> Cycles(s)] \in HealthRows
  BY DEF HostInv, STypeOK, Cycles, HealthRows

\* Setting the place of a host sets its memory to one of the same failures.
LEMMA ToMemory ==
    ASSUME HostInv, NEW h \in Hosts, NEW p \in Places
    PROVE  /\ [pc |-> p, failures |-> host[h].failures] \in Memories
           /\ [host EXCEPT ![h].pc = p] =
                [host EXCEPT ![h] = [pc |-> p, failures |-> host[h].failures]]
<1>1. host \in [Hosts -> Memories] /\ host[h] \in Memories
  BY DEF HostInv, STypeOK, Memories
<1>2. [host[h] EXCEPT !.pc = p] = [pc |-> p, failures |-> host[h].failures]
  BY <1>1 DEF Memories
<1> QED BY <1>1, <1>2 DEF Memories

\* A step of the holder that reports nothing.
LEMMA SilentMove ==
    ASSUME HostInv, NEW h \in Hosts, ~At(h, "off"),
           NEW p \in Places \ {"cycle"}, To(h, p), UNCHANGED <<lock, health>>,
           Live(p) => Live(host[h].pc), p \in Trying => host[h].pc \in Trying
    PROVE  HostInv'
<1> DEFINE v == [pc |-> p, failures |-> host[h].failures]
<1>1. v \in Memories /\ host' = [host EXCEPT ![h] = v]
  BY ToMemory DEF To
<1>2. health \in HealthRows /\ lock = h
  BY DEF HostInv, STypeOK, HealthRows
<1>3. Live(p) => health.owner = h /\ health.status \in Statuses \ Terminal
  BY DEF HostInv, RowIsLiveHosts, Live
<1>4. v.pc \in Trying => v.failures <= MaxFailures
  BY DEF HostInv
<1> QED BY <1>1, <1>2, <1>3, <1>4, HolderStep

\* A step of the holder that reports.
LEMMA ReportingMove ==
    ASSUME HostInv, NEW h \in Hosts, ~At(h, "off"), NEW s \in Statuses,
           NEW p \in Places, To(h, p), Report(h, s), UNCHANGED lock,
           Live(p) => s \notin Terminal, p = "cycle" => s = "RUNNING", p # "off",
           p \in Trying => host[h].pc \in Trying
    PROVE  HostInv'
<1> DEFINE v == [pc |-> p, failures |-> host[h].failures]
<1>1. v \in Memories /\ host' = [host EXCEPT ![h] = v]
  BY ToMemory DEF To
<1>2. health' \in HealthRows /\ health'.owner = h /\ health'.status = s /\ lock' = h
  BY RowTyped DEF Report, HostInv
<1>3. v.pc \in Trying => v.failures <= MaxFailures
  BY DEF HostInv
<1> QED BY <1>1, <1>2, <1>3, HolderStep

\* An error caught inside the loop leads to a place of the loop.
LEMMA CaughtKeeps ==
    ASSUME HostInv, NEW h \in Hosts, NEW e \in Errors, Caught(h, e),
           Live(host[h].pc), host[h].pc \in Trying, UNCHANGED <<lock, health>>
    PROVE  HostInv'
<1>1. host[h] \in Memories /\ MaxFailures \in Nat /\ host[h].failures <= MaxFailures
  BY ServiceAssumption DEF HostInv, STypeOK, Memories
<1>2. PICK v \in Memories :
        /\ host' = [host EXCEPT ![h] = v]
        /\ v.pc \in Failed \cup {"BACKOFF"}
        /\ v.pc = "BACKOFF" => v.failures <= MaxFailures
  <2>1. CASE e # "TRANSIENT"
    <3> DEFINE p == IF e = "FATAL" THEN "CRASHED" ELSE e
               v == [host[h] EXCEPT !.pc = p]
    <3>1. p \in Failed
      BY <2>1 DEF Errors, Failed
    <3>2. v \in Memories /\ v.pc = p
      BY <1>1, <3>1 DEF Memories, Places
    <3>3. host' = [host EXCEPT ![h] = v]
      BY <2>1 DEF Caught
    <3> QED BY <3>1, <3>2, <3>3 DEF Failed
  <2>2. CASE e = "TRANSIENT"
    <3> DEFINE v == [pc |-> IF host[h].failures < MaxFailures THEN "BACKOFF" ELSE "CRASHED",
                     failures |-> host[h].failures + 1]
    <3>1. /\ v \in Memories /\ v.pc \in Failed \cup {"BACKOFF"}
          /\ v.pc = "BACKOFF" => v.failures <= MaxFailures
      BY <1>1 DEF Memories, Places, Failed
    <3>2. host' = [host EXCEPT ![h] = v]
      BY <2>2 DEF Caught
    <3> QED BY <3>1, <3>2
  <2> QED BY <2>1, <2>2
<1>3. v.pc # "cycle" /\ Live(v.pc)
  BY <1>2 DEF Failed, Live
<1>4. health \in HealthRows /\ lock = h /\ health.owner = h /\ health.status \in Statuses \ Terminal
  BY DEF HostInv, STypeOK, HealthRows, RowIsLiveHosts, Live
<1>5. ~At(h, "off")
  BY DEF At, Live
<1>6. v.pc \in Trying => v.failures <= MaxFailures
  BY <1>2 DEF Trying, Failed
<1> QED BY <1>2, <1>3, <1>4, <1>5, <1>6, HolderStep


LEMMA AcquireKeeps ==
    ASSUME HostInv, NEW h \in Hosts, Acquire(h) PROVE HostInv'
<1> DEFINE v == [pc |-> "starting", failures |-> 0]
<1>1. v \in Memories /\ MaxFailures \in Nat
  BY ServiceAssumption DEF Memories, Places
<1>2. \A g \in Hosts : host[g].pc = "off"
  BY ServiceAssumption DEF HostInv, At, Acquire
<1>3. host' = [host EXCEPT ![h] = v] /\ lock' = h /\ health' = health
  BY DEF Acquire
<1>4. /\ host' \in [Hosts -> Memories] /\ host'[h] = v
      /\ \A g \in Hosts \ {h} : host'[g] = host[g]
  BY <1>1, <1>3 DEF HostInv, STypeOK, Memories
<1>5. STypeOK' /\ RowIsLiveHosts'
  BY <1>2, <1>3, <1>4 DEF HostInv, STypeOK, RowIsLiveHosts, At, Memories
<1> QED BY <1>1, <1>2, <1>3, <1>4, <1>5 DEF HostInv, At

LEMMA LeaveKeeps ==
    ASSUME HostInv, NEW h \in Hosts, Release(h) \/ CrashHost(h) PROVE HostInv'
<1>1. ~At(h, "off") /\ lock' = NoHost /\ health' = health
  BY DEF Release, CrashHost, At
<1>2. PICK v \in Memories : v.pc = "off" /\ host' = [host EXCEPT ![h] = v]
  <2>1. CASE Release(h)
    <3> DEFINE v == [pc |-> "off", failures |-> host[h].failures]
    <3>1. v \in Memories /\ host' = [host EXCEPT ![h] = v]
      BY <2>1, ToMemory DEF Release, To, Places
    <3> QED BY <3>1
  <2>2. CASE CrashHost(h)
    <3> DEFINE v == [pc |-> "off", failures |-> 0]
    <3>1. v \in Memories /\ host' = [host EXCEPT ![h] = v]
      BY <2>2, ServiceAssumption DEF CrashHost, Off, Memories, Places
    <3> QED BY <3>1
  <2> QED BY <2>1, <2>2
<1>3. health \in HealthRows
  BY DEF HostInv, STypeOK, HealthRows
<1>4. "off" \notin Trying /\ ~Live("off")
  BY DEF Trying, Live
<1> QED BY <1>1, <1>2, <1>3, <1>4, HolderStep

LEMMA ReportsKeep ==
    ASSUME HostInv, NEW h \in Hosts,
           \/ Started(h) \/ Stopping(h) \/ Stopped(h) \/ BeginCycle(h)
           \/ ReportBackoff(h) \/ ReportEnd(h)
    PROVE  HostInv'
<1> USE DEF At, Live, Trying, Places, Failed, Statuses, Terminal
<1>1. CASE Started(h)
  BY <1>1, ReportingMove DEF Started
<1>2. CASE Stopping(h)
  BY <1>2, ReportingMove DEF Stopping
<1>3. CASE Stopped(h)
  BY <1>3, ReportingMove DEF Stopped
<1>4. CASE BeginCycle(h)
  BY <1>4, ReportingMove DEF BeginCycle
<1>5. CASE ReportBackoff(h)
  BY <1>5, ReportingMove DEF ReportBackoff
<1>6. CASE ReportEnd(h)
  BY <1>6, ReportingMove DEF ReportEnd
<1> QED BY <1>1, <1>2, <1>3, <1>4, <1>5, <1>6

LEMMA IdleReportKeeps ==
    ASSUME HostInv, NEW h \in Hosts, ReportIdle(h) PROVE HostInv'
<1> DEFINE v == [pc |-> "loop", failures |-> host[h].failures]
<1>1. v \in Memories /\ host' = [host EXCEPT ![h] = v]
  BY ToMemory DEF ReportIdle, To, Places
<1>2. /\ health' \in HealthRows /\ health'.owner = h /\ health'.status = "IDLE"
      /\ lock = h /\ lock' = h /\ ~At(h, "off")
  BY ServiceAssumption DEF ReportIdle, HostInv, STypeOK, HealthRows, Cycles, At, Statuses
<1>3. v.failures <= MaxFailures
  BY DEF HostInv, ReportIdle, At, Trying
<1> QED BY <1>1, <1>2, <1>3, HolderStep DEF Statuses, Terminal, Failed

LEMMA SilentStepsKeep ==
    ASSUME HostInv, NEW h \in Hosts, StartFails(h) \/ ReportLost(h) \/ CycleDone(h)
    PROVE  HostInv'
<1>1. CASE StartFails(h) \/ ReportLost(h)
  BY <1>1, SilentMove DEF StartFails, ReportLost, At, Live, Trying, Places, Failed
<1>2. CASE CycleDone(h)
  <2> DEFINE v == [pc |-> "done", failures |-> 0]
  <2>1. v \in Memories /\ 0 <= MaxFailures
    BY ServiceAssumption DEF Memories, Places
  <2>2. ~At(h, "off") /\ host' = [host EXCEPT ![h] = v] /\ UNCHANGED <<lock, health>>
    BY <1>2 DEF CycleDone, At
  <2>3. health \in HealthRows /\ lock = h /\ health.owner = h
        /\ health.status \in Statuses \ Terminal
    BY <1>2 DEF CycleDone, HostInv, STypeOK, RowIsLiveHosts, HealthRows, At
  <2> QED BY <2>1, <2>2, <2>3, HolderStep
<1> QED BY <1>1, <1>2

LEMMA CycleStepsKeep ==
    ASSUME ITypeOK, HostInv, NEW h \in Hosts,
           \/ \E e \in Errors : StageFails(h, e)
           \/ CycleReads(h) \/ CycleIngests(h) \/ Ingested(h) \/ IngestFails(h)
    PROVE  HostInv'
<1> USE DEF At, Live, Trying, Places
<1>1. ASSUME NEW e \in Errors, StageFails(h, e) PROVE HostInv'
  BY <1>1, CaughtKeeps DEF StageFails
<1>2. CASE CycleReads(h) \/ CycleIngests(h)
  BY <1>2 DEF CycleReads, CycleIngests, HostInv, STypeOK, RowIsLiveHosts
<1>3. CASE Ingested(h)
  BY <1>3, SilentMove DEF Ingested
<1>4. CASE IngestFails(h)
  <2>1. ing[h].pc \in Errors
    BY <1>4 DEF IngestFails, Rest, Results, Errors
  <2> QED BY <1>4, <2>1, CaughtKeeps DEF IngestFails
<1> QED BY <1>1, <1>2, <1>3, <1>4

LEMMA HostInit == SInit => HostInv
  BY ServiceAssumption DEF SInit, HostInv, STypeOK, RowIsLiveHosts, NoHealth, Off, At, Places, Trying

LEMMA HostNext == ITypeOK /\ HostInv /\ [SNext]_svars => HostInv'
<1> SUFFICES ASSUME ITypeOK, HostInv, [SNext]_svars PROVE HostInv'
  OBVIOUS
<1>1. CASE UNCHANGED <<lock, health, host>>
  BY <1>1 DEF HostInv, STypeOK, RowIsLiveHosts, At
<1>2. ASSUME NEW h \in Hosts, HostStep(h) PROVE HostInv'
  BY <1>2, AcquireKeeps, LeaveKeeps, ReportsKeep, IdleReportKeeps, SilentStepsKeep,
     CycleStepsKeep DEF HostStep
<1> QED BY <1>1, <1>2 DEF SNext, svars

\* Of any number of hosts one runs, and it stays within its limit.
THEOREM HostInvariance == SSpec => []HostInv
<1>1. IngestionInv => ITypeOK
  BY DEF IngestionInv
<1>2. SSpec => []IngestionInv
  BY ServiceImplementsIngestion, IngestionInvariance, PTL
<1> QED BY <1>1, <1>2, HostInit, HostNext, PTL DEF SSpec

\* The row never speaks of an earlier or of another instance while one is in its
\* loop (ServiceInstanceLock around _health).
THEOREM RowOfLiveHost == SSpec => []RowIsLiveHosts
<1>1. HostInv => RowIsLiveHosts
  BY DEF HostInv
<1> QED BY <1>1, HostInvariance, PTL

\* Only the holder of the lock reports, an end is only followed by a start, and
\* the count of cycles is never set back (_health, run).
THEOREM HealthOnlyAdvances == SSpec => HealthHistory
<1> DEFINE Advances ==
        health' # health =>
            /\ lock = health'.owner
            /\ health.status \in Terminal => health'.status = "STARTING"
            /\ health.cycles <= health'.cycles
<1>1. ASSUME HostInv, NEW h \in Hosts, HostStep(h) PROVE Advances
  <2> USE DEF At
  <2>1. CASE Acquire(h) \/ StartFails(h) \/ Release(h) \/ CrashHost(h)
    BY <2>1 DEF Acquire, StartFails, Release, CrashHost
  <2>2. CASE (\E e \in Errors : StageFails(h, e)) \/ CycleDone(h) \/ ReportLost(h)
    BY <2>2 DEF StageFails, CycleDone, ReportLost
  <2>3. CASE CycleReads(h) \/ CycleIngests(h) \/ Ingested(h) \/ IngestFails(h)
    BY <2>3 DEF CycleReads, CycleIngests, Ingested, IngestFails
  <2>4. health.cycles \in 0..MaxCycles /\ MaxCycles \in Nat
    BY <1>1, ServiceAssumption DEF HostInv, STypeOK
  <2>5. CASE Started(h)
    BY <1>1, <2>4, <2>5 DEF Started, Report, Cycles, HostInv
  <2>6. ~At(h, "off") /\ ~At(h, "starting") /\ ~At(h, "leaving") =>
          lock = h /\ health.status \notin Terminal
    BY <1>1 DEF HostInv, RowIsLiveHosts
  <2>7. CASE Stopping(h) \/ Stopped(h) \/ BeginCycle(h) \/ ReportBackoff(h) \/ ReportEnd(h)
    BY <2>4, <2>6, <2>7 DEF Stopping, Stopped, BeginCycle, ReportBackoff, ReportEnd,
         Report, Cycles, Failed
  <2>8. CASE ReportIdle(h)
    BY <2>4, <2>6, <2>8 DEF ReportIdle, Cycles
  <2> QED BY <1>1, <2>1, <2>2, <2>3, <2>5, <2>7, <2>8 DEF HostStep
<1>2. HostInv /\ [SNext]_svars => [Advances]_svars
  BY <1>1 DEF SNext, svars
<1> QED BY <1>2, HostInvariance, PTL DEF SSpec, HealthHistory

=============================================================================
