-------------------------- MODULE NicConfigFileProofs --------------------------
(***************************************************************************)
(* The safety properties of NicConfigFile, for every number of adapters,   *)
(* every size of buffer and line, and every number of faults.              *)
(***************************************************************************)
EXTENDS NicFileLemmas, FiniteSetTheorems

-------------------------------------------------------------------------------
(* The lines of a block *)

Types == {"VT_BSTR", "VT_ARRAY", "VT_I4", "VT_BOOL"}

\* Fourteen lines with names of their own, each of a type the parser has a case for; the
\* last is the ServiceName.
LEMMA BlockFacts ==
    /\ DOMAIN Block = 1..14 /\ Len(Block) = 14
    /\ \A b \in DOMAIN Block : /\ Block[b].name \in Names
                               /\ Block[b].type \in Types
                               /\ Block[b].name \in Handled(Block[b].type)
                               /\ Block[b].name = "ServiceName" <=> b = 14
    /\ \A a, b \in DOMAIN Block : Block[a].name = Block[b].name => a = b
<1>1. DOMAIN Block = 1..14 /\ Len(Block) = 14
    BY DEF Block
<1>2. /\ Block[1] = [name |-> "MACAddress", type |-> "VT_BSTR"]
      /\ Block[2] = [name |-> "Description", type |-> "VT_BSTR"]
      /\ Block[3] = [name |-> "IPAddress", type |-> "VT_ARRAY"]
      /\ Block[4] = [name |-> "IPSubnet", type |-> "VT_ARRAY"]
      /\ Block[5] = [name |-> "IPConnectionMetric", type |-> "VT_I4"]
      /\ Block[6] = [name |-> "DNSDomain", type |-> "VT_BSTR"]
      /\ Block[7] = [name |-> "DefaultIPGateway", type |-> "VT_ARRAY"]
      /\ Block[8] = [name |-> "IPFilterSecurityEnabled", type |-> "VT_BOOL"]
      /\ Block[9] = [name |-> "DNSDomainSuffixSearchOrder", type |-> "VT_ARRAY"]
      /\ Block[10] = [name |-> "DNSHostName", type |-> "VT_BSTR"]
      /\ Block[11] = [name |-> "DNSEnabledForWINSResolution", type |-> "VT_BOOL"]
      /\ Block[12] = [name |-> "DNSServerSearchOrder", type |-> "VT_ARRAY"]
      /\ Block[13] = [name |-> "Index", type |-> "VT_I4"]
      /\ Block[14] = [name |-> "ServiceName", type |-> "VT_BSTR"]
    BY DEF Block, LineOf
<1> DEFINE Bs == {1, 2, 3, 4, 5, 6, 7, 8, 9, 10, 11, 12, 13, 14}
<1>3. DOMAIN Block = Bs
    BY <1>1
<1>4. \A b \in DOMAIN Block : Block[b].name \in Names
    BY DEF Names
<1>5. \A b \in Bs : /\ Block[b].type \in Types
                    /\ Block[b].name \in Handled(Block[b].type)
                    /\ Block[b].name = "ServiceName" <=> b = 14
    BY <1>2 DEF Handled, Types
<1>6. \A a, b \in Bs : Block[a].name = Block[b].name => a = b
    BY <1>2
<1> HIDE DEF Bs
<1> QED BY <1>1, <1>3, <1>4, <1>5, <1>6

\* So a name tells the place in the block.
LEMMA RankFacts ==
    ASSUME NEW x, NEW b \in DOMAIN Block, x.name = Block[b].name
    PROVE  Rank(x) = b
BY BlockFacts DEF Rank

-------------------------------------------------------------------------------
(* Items and fields *)

\* All adapters that are ever saved, and the texts of their lines.
Known == Backups \cup UNION {Range(Networks[n]) : n \in DOMAIN Networks}
Texts == {Text(a, Block[b]) : a \in Known, b \in DOMAIN Block} \cup {Unread(t) : t \in Types}
FileItems == [of : Nat, name : Names, type : Types, text : Texts, chars : 1..(Buffer - 1),
              cr : BOOLEAN, lf : BOOLEAN]
FieldOf(x) == [of |-> x.of, vectors |-> Vectors(x)]
Fields == {Unset} \cup {FieldOf(x) : x \in FileItems}

\* What TypeOK leaves open, because TLC cannot evaluate it.
ShapeInv ==
    /\ file \in Seq(FileItems)
    /\ cur \in [Names -> Fields]
    /\ adapters \in Seq([Names -> Fields])

\* An item has at least a character, at most what the reader takes in, and its line's
\* end when the line fits.
LEMMA ItemFacts ==
    ASSUME NEW of \in Nat, NEW b \in DOMAIN Block, NEW text \in Texts,
           NEW size \in Nat, size >= ShortLine
    PROVE  LET x == Item(of, Block[b], text, size)
           IN  /\ x \in FileItems
               /\ x.of = of /\ x.name = Block[b].name /\ x.type = Block[b].type
               /\ x.text = text
               /\ x.lf => x.cr /\ x.chars > 1
               /\ x.lf \/ x.chars = Buffer - 1
               /\ size <= Buffer => x.cr
<1> DEFINE x == Item(of, Block[b], text, size)
<1>1. x = [of |-> of, name |-> Block[b].name, type |-> Block[b].type, text |-> text,
           chars |-> IF size < Buffer THEN size ELSE Buffer - 1,
           cr |-> size <= Buffer, lf |-> size < Buffer]
    BY DEF Item
<1>2. Block[b].name \in Names /\ Block[b].type \in Types
    BY BlockFacts
<1>3. (IF size < Buffer THEN size ELSE Buffer - 1) \in 1..(Buffer - 1)
    BY BufferAssumption DEF ShortLine
<1> HIDE DEF x
<1>4. x \in FileItems
    BY <1>1, <1>2, <1>3 DEF FileItems
<1>5. x.lf = (size < Buffer) /\ x.cr = (size <= Buffer)
    BY <1>1
<1>6. x.chars = IF size < Buffer THEN size ELSE Buffer - 1
    BY <1>1
<1>7. size < Buffer => size <= Buffer /\ size > 1
    BY BufferAssumption DEF ShortLine
<1>8. x.lf => x.cr /\ x.chars > 1
    BY <1>5, <1>6, <1>7
<1>9. x.lf \/ x.chars = Buffer - 1
    BY <1>5, <1>6
<1>10. x.of = of /\ x.name = Block[b].name /\ x.type = Block[b].type /\ x.text = text
    BY <1>1
<1>11. size <= Buffer => x.cr
    BY <1>5
<1> QED BY <1>4, <1>8, <1>9, <1>10, <1>11 DEF x

\* A torn item is the same line with fewer characters.
LEMMA TornFacts ==
    ASSUME NEW x \in FileItems, NEW k \in 1..(Buffer - 1)
    PROVE  LET y == Torn(x, k)
           IN  /\ y \in FileItems
               /\ y.of = x.of /\ y.name = x.name /\ y.type = x.type /\ y.text = x.text
               /\ ~ y.lf /\ y.chars = k
BY DEF Torn, FileItems

\* An adapter has a text and a size for every line.
LEMMA AdapterFacts ==
    ASSUME NEW a \in Known, NEW b \in DOMAIN Block
    PROVE  /\ WellFormed(a)
           /\ Text(a, Block[b]) \in Texts
           /\ a.size[Block[b].name] \in Nat /\ a.size[Block[b].name] >= ShortLine
<1>1. WellFormed(a)
    BY BackupsAssumption, NetworksAssumption DEF Known, Range
<1>2. Text(a, Block[b]) \in Texts
    BY DEF Texts
<1>3. a.size[Block[b].name] \in Nat /\ a.size[Block[b].name] >= ShortLine
    BY <1>1, BlockFacts DEF WellFormed
<1> QED BY <1>1, <1>2, <1>3

\* The text of an unreadable property.
LEMMA UnreadFacts == \A b \in DOMAIN Block : Unread(Block[b].type) \in Texts
BY BlockFacts DEF Texts

\* The adapters of the query.
LEMMA RowsFacts ==
    ASSUME net \in DOMAIN Networks
    PROVE  /\ Len(rows) \in Nat /\ DOMAIN rows = 1..Len(rows)
           /\ \A i \in 1..Len(rows) : rows[i] \in Known /\ rows[i] \in Range(rows)
BY NetworksAssumption DEF rows, Known, Range

\* A line that is read is assigned, and ends the record when it is the ServiceName.
LEMMA TakeFacts ==
    ASSUME ShapeInv, NEW x \in FileItems, NEW b \in DOMAIN Block,
           x.name = Block[b].name, x.type = Block[b].type, Take(x)
    PROVE  LET new == [cur EXCEPT ![x.name] = FieldOf(x)]
           IN  /\ new \in [Names -> Fields]
               /\ new[x.name] = FieldOf(x)
               /\ \A n \in Names \ {x.name} : new[n] = cur[n]
               /\ IF x.name = "ServiceName"
                  THEN adapters' = Append(adapters, new) /\ cur' = Fresh
                  ELSE adapters' = adapters /\ cur' = new
<1>1. x.name \in Handled(x.type) /\ x.name \in Names
    BY BlockFacts
<1>2. Assigned(x) = [cur EXCEPT ![x.name] = FieldOf(x)]
    BY <1>1 DEF Assigned, FieldOf
<1>3. FieldOf(x) \in Fields
    BY DEF Fields
<1>4. cur \in [Names -> Fields]
    BY DEF ShapeInv
<1>5. IF x.name = "ServiceName"
      THEN adapters' = Append(adapters, Assigned(x)) /\ cur' = Fresh
      ELSE adapters' = adapters /\ cur' = Assigned(x)
    BY <1>1 DEF Take
<1> HIDE DEF FieldOf, Fields
<1> QED BY <1>1, <1>2, <1>3, <1>4, <1>5

-------------------------------------------------------------------------------
(* What a step does to the file *)

\* An item is written for line pos of adapter row: a whole one, with its own text or
\* that of an unreadable property, or the torn one.
Added(x) ==
    /\ x \in FileItems
    /\ x.of = row /\ x.name = Block[pos].name /\ x.type = Block[pos].type
    /\ x.lf => x.cr /\ x.chars > 1
    /\ \/ /\ lost' = lost
          /\ x.lf \/ x.chars = Buffer - 1
          /\ AllFit => x.cr
          /\ \/ faults' = faults /\ x.text = Text(rows[row], Block[pos])
             \/ faults' = faults + 1 /\ x.text = Unread(Block[pos].type)
       \/ lost' = lost + 2 /\ faults' = faults + 1 /\ x.text = Text(rows[row], Block[pos])

\* Nothing is written: there is no file, or the write failed altogether.
NotAdded ==
    /\ file' = file
    /\ \/ ~ opened /\ lost' = lost /\ faults' \in {faults, faults + 1}
       \/ opened /\ lost' = lost + 1 /\ faults' = faults + 1

WriteStep ==
    /\ pc = "write" /\ Advance
    /\ UNCHANGED <<net, opened, row, skip, parsed, cut>>
    /\ NotAdded \/ (opened /\ \E x : Added(x) /\ file' = Append(file, x))

\* The steps of Save, with the line that is written as one of the items.
LEMMA WriteStepFacts ==
    ASSUME TypeOK, pc = "write",
           \/ WriteLine(Written) /\ UNCHANGED faults
           \/ WriteLine(WrittenUnread) /\ faults' = faults + 1
           \/ WriteFails
    PROVE  WriteStep
<1>1. row \in 1..Len(rows) /\ pos \in DOMAIN Block /\ row \in Nat
    BY RowsFacts, BlockFacts DEF TypeOK
<1> DEFINE a == rows[row]
           l == Block[pos]
<1>2. a \in Known /\ a \in Range(rows)
    BY <1>1, RowsFacts DEF TypeOK
<1>3. Text(a, l) \in Texts /\ a.size[l.name] \in Nat /\ a.size[l.name] >= ShortLine
    BY <1>1, <1>2, AdapterFacts
<1>4. AllFit => a.size[l.name] <= Buffer
    BY <1>1, <1>2, BlockFacts DEF AllFit
<1>5. Written = Item(row, l, Text(a, l), a.size[l.name])
    BY DEF Written
<1>6. /\ Written \in FileItems
      /\ Written.of = row /\ Written.name = l.name /\ Written.type = l.type
      /\ Written.text = Text(a, l)
      /\ Written.lf => Written.cr /\ Written.chars > 1
      /\ Written.lf \/ Written.chars = Buffer - 1
      /\ a.size[l.name] <= Buffer => Written.cr
    <2> HIDE DEF a
    <2> QED BY <1>1, <1>3, <1>5, ItemFacts
<1>7. WrittenUnread = Item(row, l, Unread(l.type), ShortLine)
    BY DEF WrittenUnread
<1>8. ShortLine \in Nat /\ ShortLine >= ShortLine /\ ShortLine <= Buffer
    BY BufferAssumption DEF ShortLine
<1>9. /\ WrittenUnread \in FileItems
      /\ WrittenUnread.of = row /\ WrittenUnread.name = l.name /\ WrittenUnread.type = l.type
      /\ WrittenUnread.text = Unread(l.type)
      /\ WrittenUnread.lf => WrittenUnread.cr /\ WrittenUnread.chars > 1
      /\ WrittenUnread.lf \/ WrittenUnread.chars = Buffer - 1
      /\ WrittenUnread.cr
    BY <1>1, <1>7, <1>8, UnreadFacts, ItemFacts
<1>10. CASE WriteLine(Written) /\ UNCHANGED faults
    <2>1. lost' = lost => Added(Written)
        BY <1>4, <1>6, <1>10 DEF Added
    <2> QED BY <1>10, <2>1 DEF WriteLine, WriteStep, NotAdded
<1>11. CASE WriteLine(WrittenUnread) /\ faults' = faults + 1
    <2>1. lost' = lost => Added(WrittenUnread)
        BY <1>9, <1>11 DEF Added
    <2> QED BY <1>11, <2>1 DEF WriteLine, WriteStep, NotAdded
<1>12. CASE WriteFails
    <2>1. CASE file' = file /\ lost' = lost + 1
        BY <1>12, <2>1 DEF WriteFails, WriteStep, NotAdded
    <2>2. CASE \E k \in {1, Written.chars - 1} :
                   file' = Append(file, Torn(Written, k)) /\ lost' = lost + 2
        <3>1. PICK k \in {1, Written.chars - 1} :
                   file' = Append(file, Torn(Written, k)) /\ lost' = lost + 2
            BY <2>2
        <3>2. Written.chars \in 1..(Buffer - 1)
            BY <1>6 DEF FileItems
        <3>3. Written.chars > 1
            BY <1>6, <3>2, BufferAssumption
        <3>4. k \in 1..(Buffer - 1)
            BY <3>2, <3>3, BufferAssumption
        <3> DEFINE y == Torn(Written, k)
        <3>5. /\ y \in FileItems
              /\ y.of = row /\ y.name = l.name /\ y.type = l.type /\ y.text = Text(a, l)
              /\ ~ y.lf
            BY <1>6, <3>4, TornFacts
        <3> HIDE DEF y
        <3>6. Added(y)
            BY <3>1, <3>5, <1>12 DEF Added, WriteFails
        <3> QED BY <1>12, <3>1, <3>6 DEF WriteFails, WriteStep, y
    <2> QED BY <1>12, <2>1, <2>2 DEF WriteFails
<1> QED BY <1>10, <1>11, <1>12

\* The file is cut: a prefix is left, the last of its items perhaps torn.
CutTo(m) ==
    /\ Len(file') = m /\ m <= Len(file)
    /\ \A i \in 1..m : /\ file'[i].of = file[i].of /\ file'[i].name = file[i].name
                       /\ file'[i].type = file[i].type /\ file'[i].text = file[i].text
                       /\ file'[i] = file[i] \/ (i = m /\ ~ file'[i].lf)

LEMMA CutFacts ==
    ASSUME ShapeInv, CutShort
    PROVE  file' \in Seq(FileItems) /\ \E m \in Nat : CutTo(m)
<1>1. file \in Seq(FileItems)
    BY DEF ShapeInv
<1>2. PICK n \in 0..Len(file) :
          \/ file' = SubSeq(file, 1, n)
          \/ /\ n < Len(file)
             /\ \E k \in {1, file[n + 1].chars - 1} \ {0} :
                    file' = Append(SubSeq(file, 1, n), Torn(file[n + 1], k))
    BY DEF CutShort
<1>3. /\ SubSeq(file, 1, n) \in Seq(FileItems) /\ Len(SubSeq(file, 1, n)) = n
      /\ \A i \in 1..n : SubSeq(file, 1, n)[i] = file[i]
      /\ n \in Nat /\ n <= Len(file)
    BY <1>1
<1>4. CASE file' = SubSeq(file, 1, n)
    BY <1>3, <1>4 DEF CutTo
<1>5. CASE /\ n < Len(file)
           /\ \E k \in {1, file[n + 1].chars - 1} \ {0} :
                  file' = Append(SubSeq(file, 1, n), Torn(file[n + 1], k))
    <2>1. PICK k \in {1, file[n + 1].chars - 1} \ {0} :
              file' = Append(SubSeq(file, 1, n), Torn(file[n + 1], k))
        BY <1>5
    <2>2. file[n + 1] \in FileItems /\ n + 1 \in Nat /\ n + 1 <= Len(file)
        BY <1>1, <1>5
    <2>3. file[n + 1].chars \in 1..(Buffer - 1)
        BY <2>2 DEF FileItems
    <2>4. k \in 1..(Buffer - 1)
        BY <2>3, BufferAssumption
    <2> DEFINE y == Torn(file[n + 1], k)
    <2>5. /\ y \in FileItems
          /\ y.of = file[n + 1].of /\ y.name = file[n + 1].name
          /\ y.type = file[n + 1].type /\ y.text = file[n + 1].text
          /\ ~ y.lf
        BY <2>2, <2>4, TornFacts
    <2> HIDE DEF y
    <2> DEFINE head == SubSeq(file, 1, n)
    <2>6. file' = Append(head, y)
        BY <2>1 DEF y
    <2>7. head \in Seq(FileItems) /\ Len(head) = n /\ \A i \in 1..n : head[i] = file[i]
        BY <1>3
    <2> HIDE DEF head
    <2>8. /\ file' \in Seq(FileItems) /\ Len(file') = n + 1 /\ file'[n + 1] = y
          /\ \A i \in 1..n : file'[i] = file[i]
        BY <2>5, <2>6, <2>7, <1>3
    <2>9. CutTo(n + 1)
        <3> SUFFICES ASSUME NEW i \in 1..(n + 1)
                     PROVE  /\ file'[i].of = file[i].of /\ file'[i].name = file[i].name
                            /\ file'[i].type = file[i].type /\ file'[i].text = file[i].text
                            /\ file'[i] = file[i] \/ (i = n + 1 /\ ~ file'[i].lf)
            BY <2>2, <2>8 DEF CutTo
        <3>1. i \in 1..n \/ i = n + 1
            BY <1>3
        <3> QED BY <2>5, <2>8, <3>1
    <2> QED BY <2>2, <2>8, <2>9
<1> QED BY <1>2, <1>4, <1>5

\* The next adapter of the query: without a fault it is written when it is static.
ScanStep ==
    /\ pc = "next" /\ row < Len(rows) /\ row' = row + 1
    /\ pc' \in {"next", "write"} /\ pos' = 1
    /\ faults' \in {faults, faults + 1}
    /\ faults' = faults => (pc' = "write" <=> Static(row + 1))
    /\ UNCHANGED <<net, opened, skip, file, parsed, lost, cut>>

\* The save ends, maybe early, and leaves the file as it is.
EndStep ==
    /\ pc = "next" /\ CloseFile
    /\ \/ row = Len(rows) /\ faults' = faults
       \/ faults' = faults + 1
    /\ UNCHANGED <<net, opened, file, parsed, lost, cut>>

LEMMA ScanFacts ==
    ASSUME TypeOK,
           \/ NextAdapter({})
           \/ \E p \in {"IPEnabled", "DHCPEnabled", "ServiceName"} : NextAdapter({p})
    PROVE  ScanStep
<1>1. faults \in Nat
    BY FaultsAssumption DEF TypeOK
<1>2. CASE NextAdapter({})
    <2>1. Cardinality({}) = 0
        BY FS_EmptySet
    <2>2. faults' = faults
        BY <1>1, <1>2, <2>1 DEF NextAdapter
    <2>3. Eligible(rows[row + 1], {}) <=> Static(row + 1)
        BY DEF Eligible, Static
    <2> QED BY <1>2, <2>2, <2>3 DEF NextAdapter, ScanStep
<1>3. CASE \E p \in {"IPEnabled", "DHCPEnabled", "ServiceName"} : NextAdapter({p})
    <2>1. PICK p : NextAdapter({p})
        BY <1>3
    <2>2. Cardinality({p}) = 1
        BY FS_Singleton
    <2>3. faults' = faults + 1 /\ faults' # faults
        BY <1>1, <2>1, <2>2 DEF NextAdapter
    <2> QED BY <2>1, <2>3 DEF NextAdapter, ScanStep
<1> QED BY <1>2, <1>3

\* Every step that saves is one of these.
LEMMA SaveSteps ==
    ASSUME TypeOK, Save
    PROVE  /\ \/ OpenForWriting \/ InitFails \/ QuerySucceeds \/ QueryFails
              \/ ScanStep \/ WriteStep \/ EndStep \/ CutShort
           /\ faults' \in faults..MaxFaults
           /\ net' = net
<1>1. faults \in Nat /\ MaxFaults \in Nat /\ faults <= MaxFaults
    BY FaultsAssumption DEF TypeOK
<1>2. CASE OpenForWriting \/ InitFails \/ QuerySucceeds
    BY <1>1, <1>2 DEF OpenForWriting, InitFails, QuerySucceeds, history
<1>3. CASE Faulty /\ (QueryFails \/ CutShort)
    BY <1>1, <1>3 DEF Faulty, QueryFails, CutShort
<1>4. CASE NextAdapter({})
    <2>1. Cardinality({}) = 0
        BY FS_EmptySet
    <2>2. faults' = faults /\ net' = net
        BY <1>1, <1>4, <2>1 DEF NextAdapter
    <2> QED BY <1>1, <1>4, <2>2, ScanFacts
<1>5. CASE Faulty /\ \E p \in {"IPEnabled", "DHCPEnabled", "ServiceName"} : NextAdapter({p})
    <2>1. ScanStep
        BY <1>5, ScanFacts
    <2> QED BY <1>1, <1>5, <2>1 DEF ScanStep, Faulty
<1>6. CASE WriteLine(Written) /\ UNCHANGED faults
    <2>1. WriteStep
        BY <1>6, WriteStepFacts DEF WriteLine
    <2> QED BY <1>1, <1>6, <2>1 DEF WriteStep
<1>7. CASE Faulty /\ WriteLine(WrittenUnread) /\ faults' = faults + 1
    <2>1. WriteStep
        BY <1>7, WriteStepFacts DEF WriteLine
    <2> QED BY <1>1, <1>7, <2>1 DEF WriteStep, Faulty
<1>8. CASE Faulty /\ WriteFails
    <2>1. WriteStep
        BY <1>8, WriteStepFacts DEF WriteFails
    <2> QED BY <1>1, <1>8, <2>1 DEF WriteStep, Faulty, WriteFails
<1>9. CASE SaveEnds \/ (Faulty /\ MoveNextFails)
    BY <1>1, <1>9 DEF SaveEnds, MoveNextFails, EndStep, Faulty, CloseFile, history
<1> QED BY <1>2, <1>3, <1>4, <1>5, <1>6, <1>7, <1>8, <1>9 DEF Save

\* What no step of Save touches, and what none of Restore does.
LEMMA SaveFrame ==
    ASSUME TypeOK, Save
    PROVE  UNCHANGED <<cur, adapters>> /\ ~ Reading /\ ~ Reading'
<1> USE DEF Reading
<1>1. CASE OpenForWriting \/ InitFails \/ QuerySucceeds \/ QueryFails
    BY <1>1 DEF OpenForWriting, InitFails, QuerySucceeds, QueryFails, parsed
<1>2. CASE ScanStep \/ EndStep \/ CutShort
    BY <1>2 DEF ScanStep, EndStep, CutShort, CloseFile, parsed
<1>3. CASE WriteStep
    BY <1>3 DEF WriteStep, Advance, parsed
<1> QED BY <1>1, <1>2, <1>3, SaveSteps

LEMMA RestoreFrame ==
    ASSUME Restore
    PROVE  /\ UNCHANGED <<net, row, file, faults, lost, cut>>
           /\ pc \in {"reopen", "read"} /\ pc' \in {"read", "done", "failed"}
BY DEF Restore, OpenForReading, ReadLine, ReadEnds, place, parsed, history

-------------------------------------------------------------------------------
(* Saving keeps the invariant *)

\* Two losses for each fault, of which there may be more.
LEMMA TwoForEach == \A l, f, g \in Nat : l <= 2 * f /\ f <= g => l <= 2 * g /\ l \in 0..2 * g
OBVIOUS

LEMMA SavePhase ==
    ASSUME TypeOK, PhaseInv, Save
    PROVE  PhaseInv'
<1>1. UNCHANGED <<cur, adapters>> /\ ~ Reading /\ ~ Reading'
    BY SaveFrame
<1>2. faults' \in faults..MaxFaults /\ faults \in Nat /\ lost \in Nat /\ row \in Nat /\ MaxFaults \in Nat
    BY SaveSteps, RowsFacts, FaultsAssumption DEF TypeOK
<1>3. CASE OpenForWriting \/ InitFails \/ QuerySucceeds \/ QueryFails
    BY <1>1, <1>2, <1>3
       DEF OpenForWriting, InitFails, QuerySucceeds, QueryFails, PhaseInv, Reading, Writing, Untouched,
           place, history
<1>4. CASE ScanStep
    <2>1. lost' = lost /\ lost <= 2 * faults /\ cut' = cut /\ (cut => faults > 0)
        BY <1>4 DEF ScanStep, PhaseInv
    <2>2. faults' \in Nat /\ faults <= faults'
        BY <1>2
    <2>3. lost <= 2 * faults'
        BY <1>2, <2>1, <2>2, TwoForEach
    <2>4. cut' => faults' > 0
        BY <1>2, <2>1, <2>2
    <2> QED BY <1>1, <1>4, <2>1, <2>3, <2>4 DEF ScanStep, PhaseInv, Reading, Writing, Untouched
<1>5. CASE WriteStep
    <2>1. lost' <= 2 * faults'
        BY <1>2, <1>5 DEF WriteStep, NotAdded, Added, PhaseInv
    <2>2. opened \/ lost' = lost
        BY <1>5 DEF WriteStep, NotAdded
    <2> QED BY <1>1, <1>2, <1>5, <2>1, <2>2 DEF WriteStep, Advance, PhaseInv, Reading, Writing, Untouched
<1>6. CASE EndStep
    <2>1. lost' = lost /\ lost <= 2 * faults /\ cut' = cut /\ (cut => faults > 0)
        BY <1>6 DEF EndStep, PhaseInv
    <2>2. faults' \in Nat /\ faults <= faults'
        BY <1>2
    <2>3. lost <= 2 * faults'
        BY <1>2, <2>1, <2>2, TwoForEach
    <2>4. cut' => faults' > 0
        BY <1>2, <2>1, <2>2
    <2> QED BY <1>1, <1>6, <2>1, <2>3, <2>4 DEF EndStep, CloseFile, PhaseInv, Reading, Writing, Untouched
<1>7. CASE CutShort
    BY <1>1, <1>2, <1>7 DEF CutShort, CloseFile, PhaseInv, Reading, Writing, Untouched
<1> QED BY <1>3, <1>4, <1>5, <1>6, <1>7, SaveSteps

LEMMA SaveShape ==
    ASSUME TypeOK, ShapeInv, Save
    PROVE  ShapeInv'
<1>1. UNCHANGED <<cur, adapters>>
    BY SaveFrame
<1>2. file \in Seq(FileItems)
    BY DEF ShapeInv
<1>3. file' \in Seq(FileItems)
    <2>1. CASE OpenForWriting \/ InitFails \/ QuerySucceeds \/ QueryFails \/ ScanStep \/ EndStep
        <3>1. file' = file \/ file' = << >>
            BY <2>1 DEF OpenForWriting, InitFails, QuerySucceeds, QueryFails, ScanStep, EndStep
        <3>2. << >> \in Seq(FileItems)
            OBVIOUS
        <3> QED BY <1>2, <3>1, <3>2
    <2>2. CASE WriteStep
        BY <1>2, <2>2 DEF WriteStep, NotAdded, Added
    <2>3. CASE CutShort
        BY <2>3, CutFacts
    <2> QED BY <2>1, <2>2, <2>3, SaveSteps
<1> QED BY <1>1, <1>3 DEF ShapeInv

\* While a line is being written there is an adapter, and pos is a place in its block.
LEMMA WritePlace ==
    ASSUME TypeOK, pc = "write"
    PROVE  row > 0 /\ pos \in 1..14 /\ pos \in DOMAIN Block /\ pos \in Nat
<1>1. row > 0 /\ pos \in 1..Len(Block)
    BY DEF TypeOK
<1> QED BY <1>1, BlockFacts

LEMMA SaveType ==
    ASSUME TypeOK, ShapeInv, PhaseInv, Save
    PROVE  TypeOK'
<1>1. /\ ShapeInv' /\ PhaseInv' /\ UNCHANGED <<net, cur, adapters>>
      /\ faults' \in faults..MaxFaults
    BY SaveShape, SavePhase, SaveFrame, SaveSteps
<1>2. Len(rows) \in Nat /\ rows' = rows /\ Len(Block) = 14 /\ row \in 0..Len(rows)
    BY <1>1, RowsFacts, BlockFacts DEF TypeOK, rows
<1>3. /\ pc' \in {"open", "query", "next", "write", "reopen", "read", "done", "failed"}
      /\ opened' \in BOOLEAN /\ cut' \in BOOLEAN
      /\ row' \in 0..Len(rows) /\ pos' \in Nat \ {0} /\ skip' \in 0..(Buffer - 1)
      /\ pc' = "write" => row' > 0 /\ pos' \in 1..Len(Block)
    <2>1. CASE OpenForWriting \/ InitFails \/ QuerySucceeds \/ QueryFails
        BY <2>1, <1>2 DEF OpenForWriting, InitFails, QuerySucceeds, QueryFails, place, history,
                          TypeOK
    <2>2. CASE ScanStep
        BY <2>2, <1>2 DEF ScanStep, TypeOK
    <2>3. CASE WriteStep
        <3>1. /\ opened' = opened /\ cut' = cut /\ row' = row /\ skip' = skip /\ pc = "write"
              /\ IF pos < 14 THEN pos' = pos + 1 /\ pc' = "write" ELSE pos' = pos /\ pc' = "next"
            BY <2>3, <1>2 DEF WriteStep, Advance
        <3>2. opened \in BOOLEAN /\ cut \in BOOLEAN /\ skip \in 0..(Buffer - 1)
            BY DEF TypeOK
        <3>3. row > 0 /\ pos \in 1..14
            BY <3>1, WritePlace
        <3>4. pos' \in 1..14
            BY <3>1, <3>3
        <3> QED BY <1>2, <3>1, <3>2, <3>3, <3>4
    <2>4. CASE EndStep
        BY <2>4, <1>2, BufferAssumption DEF EndStep, CloseFile, TypeOK
    <2>5. CASE CutShort
        BY <2>5, <1>2, BufferAssumption DEF CutShort, CloseFile, TypeOK
    <2> QED BY <2>1, <2>2, <2>3, <2>4, <2>5, SaveSteps
<1>4. \A i \in DOMAIN file' : file'[i].of \in 0..Len(rows)
    <2> SUFFICES ASSUME NEW i \in DOMAIN file' PROVE file'[i].of \in 0..Len(rows)
        OBVIOUS
    <2>0. file \in Seq(FileItems) /\ \A j \in DOMAIN file : file[j].of \in 0..Len(rows)
        BY DEF ShapeInv, TypeOK
    <2>1. CASE file' = file \/ file' = << >>
        BY <2>0, <2>1
    <2>2. CASE OpenForWriting \/ InitFails \/ QuerySucceeds \/ QueryFails \/ ScanStep \/ EndStep
        BY <2>1, <2>2
           DEF OpenForWriting, InitFails, QuerySucceeds, QueryFails, ScanStep, EndStep
    <2>3. CASE WriteStep
        <3>1. CASE file' # file
            <4>1. PICK x : Added(x) /\ file' = Append(file, x)
                BY <2>3, <3>1 DEF WriteStep, NotAdded
            <4>2. x.of \in 0..Len(rows) /\ x \in FileItems
                BY <1>2, <4>1 DEF Added
            <4>3. i \in DOMAIN file \/ file'[i] = x
                BY <2>0, <4>1, <4>2
            <4>4. i \in DOMAIN file => file'[i] = file[i]
                BY <2>0, <4>1, <4>2
            <4> QED BY <2>0, <4>2, <4>3, <4>4
        <3> QED BY <2>1, <3>1
    <2>4. CASE CutShort
        <3>1. PICK m \in Nat : CutTo(m) /\ file' \in Seq(FileItems)
            BY <2>4, CutFacts
        <3>2. i \in 1..m /\ i \in DOMAIN file
            BY <2>0, <3>1 DEF CutTo
        <3> QED BY <2>0, <3>1, <3>2 DEF CutTo
    <2> QED BY <2>2, <2>3, <2>4, SaveSteps
<1>5. \A i \in DOMAIN file' : file'[i].name \in Names /\ file'[i].chars \in 1..(Buffer - 1)
    <2> SUFFICES ASSUME NEW i \in DOMAIN file'
                 PROVE  file'[i].name \in Names /\ file'[i].chars \in 1..(Buffer - 1)
        OBVIOUS
    <2>1. file'[i] \in FileItems
        BY <1>1 DEF ShapeInv
    <2> QED BY <2>1 DEF FileItems
<1>6. /\ \A n \in Names : cur'[n].of \in -1..Len(rows)
      /\ \A r \in Records' : DOMAIN adapters'[r] = Names /\ Owner(r)' \in 0..Len(rows)
    BY <1>1 DEF TypeOK, Records, Owner
<1>7. faults' \in 0..MaxFaults /\ lost' \in 0..2 * MaxFaults
    <2>1. lost \in Nat /\ faults \in 0..MaxFaults /\ MaxFaults \in Nat
        BY FaultsAssumption DEF TypeOK
    <2>2. lost' \in {lost, lost + 1, lost + 2}
        <3>1. CASE OpenForWriting \/ InitFails \/ QuerySucceeds \/ QueryFails
            BY <3>1 DEF OpenForWriting, InitFails, QuerySucceeds, QueryFails, history
        <3>2. CASE ScanStep \/ EndStep \/ CutShort
            BY <3>2 DEF ScanStep, EndStep, CutShort
        <3>3. CASE WriteStep
            BY <3>3 DEF WriteStep, NotAdded, Added
        <3> QED BY <3>1, <3>2, <3>3, SaveSteps
    <2>3. lost' <= 2 * faults'
        BY <1>1 DEF PhaseInv
    <2>4. faults' \in 0..MaxFaults
        BY <1>1, <2>1
    <2>5. lost' \in Nat
        BY <2>1, <2>2
    <2>6. faults' \in Nat /\ faults' <= MaxFaults
        BY <2>1, <2>4
    <2>7. lost' \in 0..2 * MaxFaults
        BY <2>1, <2>3, <2>5, <2>6, TwoForEach
    <2> QED BY <2>4, <2>7
<1> QED BY <1>1, <1>2, <1>3, <1>4, <1>5, <1>6, <1>7 DEF TypeOK

\* Facts about ranks and sequences the next lemmas share.
LEMMA RankIn ==
    /\ \A x \in FileItems : /\ Rank(x) \in 1..14 /\ Block[Rank(x)].name = x.name
                            /\ Rank(x) \in Nat /\ x.of \in Nat
    /\ \A x, y : x.name = y.name => Rank(x) = Rank(y)
<1>1. \A x, y : x.name = y.name => Rank(x) = Rank(y)
    BY DEF Rank
<1>2. ASSUME NEW x \in FileItems
      PROVE  /\ Rank(x) \in 1..14 /\ Block[Rank(x)].name = x.name
             /\ Rank(x) \in Nat /\ x.of \in Nat
    <2>1. PICK b \in DOMAIN Block : Block[b].name = x.name
        BY DEF FileItems, Names
    <2>2. Rank(x) = b /\ b \in 1..14
        BY <2>1, RankFacts, BlockFacts
    <2>3. x.of \in Nat
        BY DEF FileItems
    <2> QED BY <2>1, <2>2, <2>3
<1> QED BY <1>1, <1>2

LEMMA AppendFacts ==
    ASSUME NEW s \in Seq(FileItems), NEW x \in FileItems
    PROVE  /\ Len(s) \in Nat /\ DOMAIN s = 1..Len(s)
           /\ Append(s, x) \in Seq(FileItems)
           /\ DOMAIN Append(s, x) = 1..(Len(s) + 1)
           /\ Append(s, x)[Len(s) + 1] = x
           /\ \A i \in 1..Len(s) : Append(s, x)[i] = s[i]
           /\ \A i \in 1..(Len(s) + 1) : i \in 1..Len(s) \/ i = Len(s) + 1
OBVIOUS

\* The steps that leave the file alone, or empty it.
KeepStep ==
    /\ OpenForWriting \/ InitFails \/ QuerySucceeds \/ QueryFails
    /\ file' = file \/ file' = << >>
    /\ row' = row /\ pos' = pos /\ lost' = lost /\ cut' = cut
    /\ pc \in {"open", "query"} /\ pc' \in {"query", "next", "reopen"}
    /\ pc' = "next" => pc = "query" /\ opened' = opened /\ file' = file

LEMMA SaveKinds ==
    ASSUME TypeOK, Save
    PROVE  KeepStep \/ ScanStep \/ WriteStep \/ EndStep \/ CutShort
<1>1. OpenForWriting => KeepStep
    BY DEF OpenForWriting, KeepStep, place, history
<1>2. InitFails \/ QuerySucceeds \/ QueryFails => KeepStep
    BY DEF InitFails, QuerySucceeds, QueryFails, KeepStep, place, history
<1> QED BY <1>1, <1>2, SaveSteps

LEMMA SaveOrder ==
    ASSUME TypeOK, ShapeInv, PhaseInv, OrderInv, Save
    PROVE  OrderInv'
<1>1. /\ file \in Seq(FileItems) /\ row \in Nat /\ pos \in Nat
      /\ \A i \in DOMAIN file : file[i] \in FileItems /\ Rank(file[i]) \in Nat /\ file[i].of \in Nat
    <2>1. file \in Seq(FileItems) /\ row \in Nat /\ pos \in Nat
        BY RowsFacts DEF ShapeInv, TypeOK
    <2>2. \A i \in DOMAIN file : file[i] \in FileItems
        BY <2>1
    <2> QED BY <2>1, <2>2, RankIn
<1>2. CASE KeepStep
    <2>1. Writing' => file' = << >>
        BY <1>2 DEF KeepStep, PhaseInv, Writing
    <2>2. Untouched
        BY <1>2 DEF KeepStep, Untouched
    <2> QED BY <1>2, <2>1, <2>2 DEF KeepStep, OrderInv
<1>3. CASE ScanStep
    <2>1. Writing' => Writing
        BY <1>3 DEF ScanStep, Writing
    <2>2. Writing => \A i \in DOMAIN file : file[i].of \in 1..(row + 1) /\ file[i].of # row + 1
        BY <1>1 DEF OrderInv
    <2>3. file' = file /\ row' = row + 1
        BY <1>3 DEF ScanStep
    <2>4. Untouched' => Untouched
        BY <1>3 DEF ScanStep, Untouched
    <2> QED BY <2>1, <2>2, <2>3, <2>4 DEF OrderInv
<1>4. CASE EndStep
    <2>1. ~ Writing' /\ ~ Untouched' /\ file' = file
        BY <1>4 DEF EndStep, CloseFile, Writing, Untouched
    <2> QED BY <2>1 DEF OrderInv
<1>5. CASE WriteStep
    <2>0. /\ opened' = opened /\ row' = row /\ pc = "write"
          /\ pc' = "write" => pos' = pos + 1
          /\ pos \in DOMAIN Block
        BY <1>5, BlockFacts DEF WriteStep, Advance, TypeOK
    <2>1. CASE NotAdded
        <3>1. file' = file /\ (Writing' => Writing) /\ (Untouched' => Untouched)
            BY <1>5, <2>0, <2>1 DEF NotAdded, Writing, Untouched, WriteStep, Advance
        <3> QED BY <1>1, <2>0, <3>1 DEF OrderInv
    <2>2. CASE ~ NotAdded
        <3>1. PICK x : Added(x) /\ file' = Append(file, x) /\ opened
            BY <1>5, <2>2 DEF WriteStep
        <3>2. /\ x \in FileItems /\ x.of = row
              /\ x.name = Block[pos].name /\ x.type = Block[pos].type /\ Rank(x) = pos
            BY <2>0, <3>1, RankFacts DEF Added
        <3>3. row > 0 /\ Writing
            BY <2>0, <3>1 DEF TypeOK, Writing
        <3> DEFINE L == Len(file)
        <3>4. /\ L \in Nat /\ DOMAIN file = 1..L /\ DOMAIN file' = 1..(L + 1)
              /\ file'[L + 1] = x
              /\ \A i \in 1..L : file'[i] = file[i]
              /\ \A i \in 1..(L + 1) : i \in 1..L \/ i = L + 1
            BY <1>1, <3>1, <3>2, AppendFacts
        <3> HIDE DEF L
        <3>5. \A i \in 1..L : file[i].of \in 1..row /\ (file[i].of = row => Rank(file[i]) < pos)
            BY <2>0, <3>3, <3>4 DEF OrderInv
        <3>6. \A i \in DOMAIN file' : \E b \in DOMAIN Block :
                  file'[i].name = Block[b].name /\ file'[i].type = Block[b].type
            BY <2>0, <3>2, <3>4 DEF OrderInv
        <3>7. ASSUME NEW i \in DOMAIN file', NEW j \in DOMAIN file', i < j
              PROVE  Before(file'[i], file'[j])
            <4>1. i \in 1..L
                BY <3>4, <3>7
            <4>2. CASE j \in 1..L
                BY <3>4, <3>7, <4>1, <4>2 DEF OrderInv
            <4>3. CASE j = L + 1
                <5>1. file'[i] = file[i] /\ file'[j] = x
                    BY <3>4, <4>1, <4>3
                <5>2. file[i].of \in 1..row /\ (file[i].of = row => Rank(file[i]) < pos)
                    BY <3>5, <4>1
                <5> QED BY <1>1, <3>2, <5>1, <5>2 DEF Before
            <4> QED BY <3>4, <4>2, <4>3
        <3>8. \A i \in DOMAIN file' : file'[i].of # 0
            BY <3>2, <3>3, <3>4, <3>5
        <3>9. \A i \in DOMAIN file' :
                  /\ file'[i].of \in 1..row'
                  /\ pc' = "write" /\ file'[i].of = row' => Rank(file'[i]) < pos'
            <4> SUFFICES ASSUME NEW i \in DOMAIN file'
                         PROVE  /\ file'[i].of \in 1..row
                                /\ pc' = "write" /\ file'[i].of = row => Rank(file'[i]) < pos + 1
                BY <2>0
            <4>1. CASE i \in 1..L
                <5>1. file'[i] = file[i] /\ i \in DOMAIN file
                    BY <3>4, <4>1
                <5> QED BY <1>1, <3>5, <4>1, <5>1
            <4>2. CASE i = L + 1
                BY <1>1, <3>2, <3>3, <3>4, <4>2
            <4> QED BY <3>4, <4>1, <4>2
        <3>10. \A i, j \in DOMAIN file' : i < j => Before(file'[i], file'[j])
            BY <3>7
        <3>11. \A i, j \in DOMAIN file' : file'[i].of = 0 => file'[j].of = 0
            BY <3>8
        <3>12. ~ Untouched'
            BY <1>5, <2>0, <3>1 DEF Untouched, WriteStep, Advance
        <3> QED BY <3>6, <3>9, <3>10, <3>11, <3>12 DEF OrderInv
    <2> QED BY <2>1, <2>2
<1>6. CASE CutShort
    <2>1. PICK m \in Nat : CutTo(m) /\ file' \in Seq(FileItems)
        BY <1>6, CutFacts
    <2>2. \A i \in DOMAIN file' : i \in DOMAIN file /\ i \in 1..m
        BY <1>1, <2>1 DEF CutTo
    <2>3. \A i \in DOMAIN file' : /\ file'[i].of = file[i].of /\ file'[i].name = file[i].name
                                  /\ file'[i].type = file[i].type
                                  /\ Rank(file'[i]) = Rank(file[i])
        BY <2>1, <2>2, RankIn DEF CutTo
    <2>4. ~ Writing' /\ ~ Untouched'
        BY <1>6 DEF CutShort, CloseFile, Writing, Untouched
    <2>5. \A i, j \in DOMAIN file' : i < j => Before(file'[i], file'[j])
        BY <2>2, <2>3 DEF OrderInv, Before
    <2> QED BY <2>2, <2>3, <2>4, <2>5 DEF OrderInv
<1> QED BY <1>2, <1>3, <1>4, <1>5, <1>6, SaveKinds

\* How the items of the next file come about: those of the file as they are, but for a
\* last one that is new or torn.
LEMMA SaveItems ==
    ASSUME TypeOK, ShapeInv, Save
    PROVE  /\ file' \in Seq(FileItems)
           /\ \A i \in DOMAIN file' :
                  \/ i \in DOMAIN file /\ file'[i] = file[i]
                  \/ /\ WriteStep /\ ~ NotAdded /\ opened /\ Added(file'[i])
                     /\ i = Len(file) + 1 /\ file' = Append(file, file'[i])
                  \/ /\ CutShort /\ i \in DOMAIN file /\ i = Len(file') /\ ~ file'[i].lf
                     /\ file'[i].of = file[i].of /\ file'[i].name = file[i].name
                     /\ file'[i].type = file[i].type /\ file'[i].text = file[i].text
<1>1. file \in Seq(FileItems) /\ file' \in Seq(FileItems)
    BY SaveShape DEF ShapeInv
<1> SUFFICES ASSUME NEW i \in DOMAIN file'
             PROVE  \/ i \in DOMAIN file /\ file'[i] = file[i]
                    \/ /\ WriteStep /\ ~ NotAdded /\ opened /\ Added(file'[i])
                       /\ i = Len(file) + 1 /\ file' = Append(file, file'[i])
                    \/ /\ CutShort /\ i \in DOMAIN file /\ i = Len(file') /\ ~ file'[i].lf
                       /\ file'[i].of = file[i].of /\ file'[i].name = file[i].name
                       /\ file'[i].type = file[i].type /\ file'[i].text = file[i].text
    BY <1>1
<1>2. CASE file' = file \/ file' = << >>
    BY <1>2
<1>3. CASE WriteStep /\ ~ NotAdded
    <2>1. PICK x : Added(x) /\ file' = Append(file, x) /\ opened
        BY <1>3 DEF WriteStep
    <2>2. x \in FileItems
        BY <2>1 DEF Added
    <2>3. i \in 1..Len(file) \/ (i = Len(file) + 1 /\ file'[i] = x)
        BY <1>1, <2>1, <2>2, AppendFacts
    <2>4. i \in 1..Len(file) => i \in DOMAIN file /\ file'[i] = file[i]
        BY <1>1, <2>1, <2>2, AppendFacts
    <2> QED BY <1>3, <2>1, <2>3, <2>4
<1>4. CASE CutShort
    <2>1. PICK m \in Nat : CutTo(m)
        BY <1>4, CutFacts
    <2>2. i \in 1..m /\ i \in DOMAIN file /\ Len(file') = m
        BY <1>1, <2>1 DEF CutTo
    <2> QED BY <1>4, <2>1, <2>2 DEF CutTo
<1>5. CASE KeepStep \/ ScanStep \/ EndStep \/ (WriteStep /\ NotAdded)
    BY <1>2, <1>5 DEF KeepStep, ScanStep, EndStep, NotAdded
<1> QED BY <1>3, <1>4, <1>5, SaveKinds

\* Losses only add up, and the file is cut by one step only.
LEMMA SaveLoses ==
    ASSUME TypeOK, Save
    PROVE  /\ lost \in Nat /\ lost' \in {lost, lost + 1, lost + 2} /\ lost <= lost'
           /\ CutShort \/ cut' = cut
<1>1. lost \in Nat
    BY DEF TypeOK
<1>2. lost' \in {lost, lost + 1, lost + 2}
    BY SaveKinds DEF KeepStep, ScanStep, EndStep, CutShort, WriteStep, NotAdded, Added
<1>3. CutShort \/ cut' = cut
    BY SaveKinds DEF KeepStep, ScanStep, EndStep, WriteStep
<1> QED BY <1>1, <1>2, <1>3

LEMMA SaveText ==
    ASSUME TypeOK, ShapeInv, OrderInv, TextInv, Save
    PROVE  TextInv'
<1>1. rows' = rows /\ faults \in Nat /\ faults' \in Nat /\ faults <= faults'
    BY SaveSteps, FaultsAssumption DEF rows, TypeOK
<1>2. file' \in Seq(FileItems)
    BY SaveItems
<1> SUFFICES ASSUME NEW i \in DOMAIN file', file'[i].of > 0
             PROVE  \/ file'[i].text = Text(rows[file'[i].of], Block[Rank(file'[i])])
                    \/ faults' > 0 /\ file'[i].text = Unread(file'[i].type)
    BY <1>1 DEF TextInv
<1>3. CASE i \in DOMAIN file /\ file'[i] = file[i]
    BY <1>1, <1>3 DEF TextInv
<1>4. CASE WriteStep /\ Added(file'[i])
    <2>1. pos \in DOMAIN Block
        BY <1>4, BlockFacts DEF WriteStep, TypeOK
    <2>2. Rank(file'[i]) = pos /\ file'[i].of = row /\ file'[i].type = Block[pos].type
        BY <1>4, <2>1, RankFacts DEF Added
    <2>3. \/ file'[i].text = Text(rows[row], Block[pos])
          \/ faults' = faults + 1 /\ file'[i].text = Unread(Block[pos].type)
        BY <1>4 DEF Added
    <2> QED BY <1>1, <2>2, <2>3
<1>5. CASE /\ i \in DOMAIN file
           /\ file'[i].of = file[i].of /\ file'[i].name = file[i].name
           /\ file'[i].type = file[i].type /\ file'[i].text = file[i].text
    <2>1. Rank(file'[i]) = Rank(file[i])
        BY <1>5, RankIn
    <2> QED BY <1>1, <1>5, <2>1 DEF TextInv
<1> QED BY <1>3, <1>4, <1>5, SaveItems

LEMMA SaveWhole ==
    ASSUME TypeOK, ShapeInv, PhaseInv, WholeInv, Save
    PROVE  WholeInv'
<1>1. lost \in Nat /\ lost' \in Nat /\ lost <= lost' /\ lost + 2 >= 2
    BY SaveLoses
<1>2. \A i \in DOMAIN file' : file'[i].lf => file'[i].cr /\ file'[i].chars > 1
    <2> SUFFICES ASSUME NEW i \in DOMAIN file', file'[i].lf
                 PROVE  file'[i].cr /\ file'[i].chars > 1
        OBVIOUS
    <2>1. (i \in DOMAIN file /\ file'[i] = file[i]) \/ Added(file'[i])
        BY SaveItems
    <2> QED BY <2>1 DEF WholeInv, Added
<1>3. ASSUME lost' < 2, NEW i \in DOMAIN file'
      PROVE  file'[i].lf \/ file'[i].chars = Buffer - 1 \/ (cut' /\ i = Len(file'))
    <2>1. lost < 2
        BY <1>1, <1>3
    <2>2. CASE CutShort /\ ~ (i \in DOMAIN file /\ file'[i] = file[i])
        <3>1. cut' /\ i = Len(file')
            BY <2>2, SaveItems DEF CutShort, CloseFile, WriteStep, Advance
        <3> QED BY <3>1
    <2>3. CASE i \in DOMAIN file /\ file'[i] = file[i]
        <3>1. CASE cut
            <4>1. lost \in Nat /\ ~ Writing /\ pc \notin {"open", "query"}
                BY <1>1, <3>1 DEF PhaseInv, Untouched
            <4>2. (pc \in {"next", "write"} /\ ~ opened) \/ pc \notin {"next", "write"}
                BY <4>1 DEF Writing
            <4>3. FALSE
                BY <3>1, <4>1, <4>2, SaveKinds
                   DEF PhaseInv, Untouched, KeepStep, ScanStep, EndStep, CutShort, WriteStep
            <4> QED BY <4>3
        <3>2. CASE ~ cut
            BY <2>1, <2>3, <3>2 DEF WholeInv
        <3> QED BY <3>1, <3>2
    <2>4. CASE Added(file'[i])
        <3>1. lost' # lost + 2
            BY <1>1, <1>3
        <3> QED BY <2>4, <3>1 DEF Added
    <2> QED BY <2>2, <2>3, <2>4, SaveItems
<1> QED BY <1>2, <1>3 DEF WholeInv

LEMMA SaveFit ==
    ASSUME TypeOK, ShapeInv, FitInv, Save
    PROVE  FitInv'
<1>1. rows' = rows
    BY SaveSteps DEF rows
<1> SUFFICES ASSUME AllFit, lost' = 0, ~ cut', NEW i \in DOMAIN file'
             PROVE  file'[i].cr
    BY <1>1 DEF FitInv, AllFit
<1>2. lost \in Nat /\ lost' \in {lost, lost + 1, lost + 2}
    BY SaveLoses
<1>3. lost = 0
    BY <1>2
<1>4. ~ CutShort /\ cut' = cut
    BY SaveLoses DEF CutShort
<1>5. CASE i \in DOMAIN file /\ file'[i] = file[i]
    BY <1>3, <1>4, <1>5 DEF FitInv
<1>6. CASE Added(file'[i])
    <2>1. lost' # lost + 2
        BY <1>3
    <2> QED BY <1>6, <2>1 DEF Added
<1> QED BY <1>4, <1>5, <1>6, SaveItems

\* After a step that keeps the file and starts no adapter, no line is passed that was
\* not passed before.
LEMMA FullKept ==
    ASSUME TypeOK, FullInv, net' = net, file' = file, lost' = lost,
           \A p \in Kin', c \in DOMAIN Block : Passed(p, c)' => p \in Kin /\ Passed(p, c)
    PROVE  FullInv'
<1>1. rows' = rows
    BY DEF rows
<1> SUFFICES ASSUME lost < 2
             PROVE  \E o \in 0..Len(rows), b \in DOMAIN Block : FullBut(o, b)'
    BY <1>1 DEF FullInv
<1>2. PICK o \in 0..Len(rows), b \in DOMAIN Block : FullBut(o, b)
    BY DEF FullInv
<1>3. FullBut(o, b)'
    <2> SUFFICES ASSUME NEW p \in Kin', NEW c \in DOMAIN Block, Passed(p, c)'
                 PROVE  Present(p, c)' \/ (lost' = 1 /\ p = o /\ c = b)
        BY DEF FullBut
    <2>1. Present(p, c) \/ (lost = 1 /\ p = o /\ c = b)
        BY <1>2 DEF FullBut
    <2> QED BY <2>1 DEF Present
<1> QED BY <1>2, <1>3

LEMMA SaveFull ==
    ASSUME TypeOK, ShapeInv, PhaseInv, OrderInv, FullInv, Save
    PROVE  FullInv'
<1>1. rows' = rows /\ net' = net /\ Len(rows) \in Nat /\ row \in 0..Len(rows) /\ row \in Nat
    BY SaveSteps, RowsFacts DEF rows, TypeOK
<1>2. /\ file \in Seq(FileItems)
      /\ \A i \in DOMAIN file : file[i] \in FileItems /\ Rank(file[i]) \in Nat /\ file[i].of \in Nat
    <2>1. file \in Seq(FileItems)
        BY DEF ShapeInv
    <2>2. \A i \in DOMAIN file : file[i] \in FileItems
        BY <2>1
    <2> QED BY <2>1, <2>2, RankIn
<1>3. lost \in Nat
    BY DEF TypeOK
<1>4. CASE KeepStep
    <2>1. ~ Writing' \/ file' = << >>
        BY <1>4 DEF KeepStep, PhaseInv, Writing
    <2>2. pc' # "write" /\ lost' = lost
        BY <1>4 DEF KeepStep
    <2>3. CASE file' = << >>
        <3>1. Kin' = {}
            BY <2>2, <2>3 DEF Kin
        <3>2. 0 \in 0..Len(rows) /\ 1 \in DOMAIN Block
            BY <1>1, BlockFacts
        <3>3. FullBut(0, 1)'
            BY <3>1 DEF FullBut
        <3> QED BY <1>1, <3>2, <3>3 DEF FullInv
    <2>4. CASE file' # << >>
        <3>1. file' = file /\ ~ Writing'
            BY <1>4, <2>1, <2>4 DEF KeepStep
        <3>2. \A p \in Kin', c \in DOMAIN Block : Passed(p, c)' => p \in Kin /\ Passed(p, c)
            BY <2>2, <3>1 DEF Kin, Passed
        <3> QED BY <1>1, <2>2, <3>1, <3>2, FullKept
    <2> QED BY <2>3, <2>4
<1>5. CASE EndStep
    <2>1. file' = file /\ ~ Writing' /\ pc' # "write" /\ lost' = lost
        BY <1>5 DEF EndStep, CloseFile, Writing
    <2>2. \A p \in Kin', c \in DOMAIN Block : Passed(p, c)' => p \in Kin /\ Passed(p, c)
        BY <2>1 DEF Kin, Passed
    <2> QED BY <1>1, <2>1, <2>2, FullKept
<1>6. CASE ScanStep
    <2>1. /\ file' = file /\ lost' = lost /\ opened' = opened /\ row' = row + 1 /\ pc = "next"
          /\ pc' = "write" => pos' = 1
        BY <1>6 DEF ScanStep
    <2>2. Writing' => Writing
        BY <1>6, <2>1 DEF Writing, ScanStep
    <2>3. ASSUME NEW p \in Kin', NEW c \in DOMAIN Block, Passed(p, c)'
          PROVE  p \in Kin /\ Passed(p, c)
        <3>1. c \in Nat /\ ~ (c < 1)
            BY BlockFacts
        <3>2. PICK i \in DOMAIN file : p = file[i].of \/ (p = row + 1 /\ pc' = "write" /\ opened)
            <4>1. CASE \E i \in DOMAIN file : p = file[i].of
                BY <4>1
            <4>2. CASE ~ \E i \in DOMAIN file : p = file[i].of
                <5>1. p = row + 1 /\ pc' = "write" /\ opened
                    BY <2>1, <4>2 DEF Kin
                <5>2. \E i \in DOMAIN file : p < file[i].of \/ (p = file[i].of /\ c <= Rank(file[i]))
                    BY <1>1, <2>1, <2>3, <3>1, <5>1 DEF Passed
                <5> QED BY <5>1, <5>2
            <4> QED BY <4>1, <4>2
        <3>3. Writing' => \A j \in DOMAIN file : file[j].of \in 1..row
            BY <2>2 DEF OrderInv
        <3>4. p = row + 1 /\ pc' = "write" /\ opened => FALSE
            <4> SUFFICES ASSUME p = row + 1, pc' = "write", opened PROVE FALSE
                OBVIOUS
            <4>1. Writing'
                BY <2>1 DEF Writing
            <4>2. ~ (p < row + 1) /\ ~ (c < pos')
                BY <1>1, <2>1, <3>1
            <4>3. PICK j \in DOMAIN file : p < file[j].of \/ p = file[j].of
                BY <2>1, <2>3, <4>1, <4>2 DEF Passed
            <4>4. file[j].of \in 1..row
                BY <3>3, <4>1
            <4> QED BY <1>1, <4>3, <4>4
        <3>5. p = file[i].of /\ p \in Kin
            BY <3>2, <3>4 DEF Kin
        <3>6. Passed(p, c)
            <4>1. CASE Writing'
                <5>1. p \in 1..row
                    BY <3>3, <3>5, <4>1
                <5>2. p < row \/ p = row
                    BY <1>1, <5>1
                <5> QED BY <2>1, <2>2, <4>1, <5>2 DEF Passed
            <4>2. CASE ~ Writing'
                BY <2>1, <2>3, <4>2 DEF Passed
            <4> QED BY <4>1, <4>2
        <3> QED BY <3>5, <3>6
    <2> QED BY <1>1, <2>1, <2>3, FullKept
<1>7. CASE WriteStep /\ NotAdded /\ ~ opened
    <2>1. file' = file /\ lost' = lost /\ ~ opened'
        BY <1>7 DEF WriteStep, NotAdded
    <2>2. \A p \in Kin', c \in DOMAIN Block : Passed(p, c)' => p \in Kin /\ Passed(p, c)
        BY <2>1 DEF Kin, Passed, Writing
    <2> QED BY <1>1, <2>1, <2>2, FullKept
<1>8. CASE WriteStep /\ opened
    <2>0. /\ opened' /\ row' = row /\ pc = "write" /\ pos \in DOMAIN Block /\ pos \in Nat
          /\ IF pos < 14 THEN pos' = pos + 1 /\ pc' = "write" ELSE pc' = "next" /\ pos = 14
        BY <1>8, WritePlace, BlockFacts DEF WriteStep, Advance
    <2>1. Writing /\ row \in Kin
        BY <1>8, <2>0 DEF Writing, Kin
    <2>2. \/ file' = file /\ lost' = lost + 1
          \/ \E x : Added(x) /\ file' = Append(file, x)
        BY <1>8 DEF WriteStep, NotAdded
    <2> SUFFICES ASSUME lost' < 2
                 PROVE  \E o \in 0..Len(rows), b \in DOMAIN Block : FullBut(o, b)'
        BY <1>1 DEF FullInv
    <2>3. lost < 2
        BY <1>3, SaveLoses
    \* The items behind are the old ones and the line just written.
    <2>4. ASSUME NEW i \in DOMAIN file'
          PROVE  \/ i \in DOMAIN file /\ file'[i] = file[i]
                 \/ file'[i].of = row /\ Rank(file'[i]) = pos
        <3>1. CASE file' = file
            BY <3>1
        <3>2. ASSUME NEW x, Added(x), file' = Append(file, x)
              PROVE  \/ i \in DOMAIN file /\ file'[i] = file[i]
                     \/ file'[i].of = row /\ Rank(file'[i]) = pos
            <4>1. x \in FileItems /\ x.of = row /\ Rank(x) = pos
                BY <2>0, <3>2, RankFacts DEF Added
            <4> QED BY <1>2, <3>2, <4>1, AppendFacts
        <3> QED BY <2>2, <3>1, <3>2
    <2>5. \A p \in Kin' : p \in Kin
        BY <2>0, <2>1, <2>4 DEF Kin
    <2>6. ASSUME NEW p \in Kin', NEW c \in DOMAIN Block, Passed(p, c)'
          PROVE  Passed(p, c) \/ (p = row /\ c = pos)
        <3>1. c \in Nat /\ c <= 14
            BY BlockFacts
        <3>2. p < row => Passed(p, c)
            BY <2>1 DEF Passed
        <3>3. p = row /\ c < pos => Passed(p, c)
            BY <2>1 DEF Passed
        <3>4. CASE \E i \in DOMAIN file' : \/ p < file'[i].of
                                           \/ p = file'[i].of /\ c <= Rank(file'[i])
            <4>1. PICK i \in DOMAIN file' : \/ p < file'[i].of
                                            \/ p = file'[i].of /\ c <= Rank(file'[i])
                BY <3>4
            <4>2. CASE i \in DOMAIN file /\ file'[i] = file[i]
                BY <4>1, <4>2 DEF Passed
            <4>3. CASE file'[i].of = row /\ Rank(file'[i]) = pos
                <5>1. p < row \/ (p = row /\ c <= pos)
                    BY <4>1, <4>3
                <5>2. c <= pos => c < pos \/ c = pos
                    BY <2>0, <3>1
                <5> QED BY <3>2, <3>3, <5>1, <5>2
            <4> QED BY <2>4, <4>2, <4>3
        <3>5. CASE p < row' \/ (p = row' /\ (pc' = "write" => c < pos'))
            <4>1. p < row \/ (p = row /\ c <= pos)
                BY <2>0, <3>1, <3>5
            <4>2. c <= pos => c < pos \/ c = pos
                BY <2>0, <3>1
            <4> QED BY <3>2, <3>3, <4>1, <4>2
        <3> QED BY <2>6, <3>4, <3>5 DEF Passed
    <2>7. ASSUME NEW p, NEW c, Present(p, c) PROVE Present(p, c)'
        <3>1. PICK i \in DOMAIN file : file[i].of = p /\ Rank(file[i]) = c
            BY <2>7 DEF Present
        <3>2. i \in DOMAIN file' /\ file'[i] = file[i]
            <4>1. CASE file' = file
                BY <4>1
            <4>2. ASSUME NEW x, Added(x), file' = Append(file, x)
                  PROVE  i \in DOMAIN file' /\ file'[i] = file[i]
                <5>1. x \in FileItems
                    BY <4>2 DEF Added
                <5> QED BY <1>2, <4>2, <5>1, AppendFacts
            <4> QED BY <2>2, <4>1, <4>2
        <3> QED BY <3>1, <3>2 DEF Present
    <2>10. PICK q \in 0..Len(rows), d \in DOMAIN Block : q = row /\ d = pos
        BY <1>1, <2>0
    <2>8. CASE file' = file /\ lost' = lost + 1
        <3>1. lost = 0 /\ lost' = 1
            BY <1>3, <2>8
        <3>2. FullBut(q, d)'
            <4> SUFFICES ASSUME NEW p \in Kin', NEW c \in DOMAIN Block, Passed(p, c)'
                         PROVE  Present(p, c)' \/ (lost' = 1 /\ p = q /\ c = d)
                BY DEF FullBut
            <4>1. CASE Passed(p, c)
                <5>1. PICK o \in 0..Len(rows), b \in DOMAIN Block : FullBut(o, b)
                    BY <2>3 DEF FullInv
                <5>2. Present(p, c)
                    BY <2>5, <3>1, <4>1, <5>1 DEF FullBut
                <5> QED BY <2>7, <5>2
            <4> QED BY <2>6, <2>10, <3>1, <4>1
        <3> QED BY <3>2
    <2>9. CASE \E x : Added(x) /\ file' = Append(file, x)
        <3>1. PICK x : Added(x) /\ file' = Append(file, x)
            BY <2>9
        <3>2. x \in FileItems /\ x.of = row /\ Rank(x) = pos
            BY <2>0, <3>1, RankFacts DEF Added
        <3>3. Present(q, d)'
            BY <1>2, <2>10, <3>1, <3>2, AppendFacts DEF Present
        <3>4. lost' = lost
            BY <1>3, <3>1 DEF Added
        <3>5. PICK o \in 0..Len(rows), b \in DOMAIN Block : FullBut(o, b)
            BY <2>3 DEF FullInv
        <3>6. FullBut(o, b)'
            <4> SUFFICES ASSUME NEW p \in Kin', NEW c \in DOMAIN Block, Passed(p, c)'
                         PROVE  Present(p, c)' \/ (lost' = 1 /\ p = o /\ c = b)
                BY DEF FullBut
            <4>1. CASE Passed(p, c)
                <5>1. Present(p, c) \/ (lost = 1 /\ p = o /\ c = b)
                    BY <2>5, <3>5, <4>1 DEF FullBut
                <5> QED BY <2>7, <3>4, <5>1
            <4> QED BY <2>6, <2>10, <3>3, <4>1
        <3> QED BY <3>5, <3>6
    <2> QED BY <2>2, <2>8, <2>9
<1>9. CASE CutShort
    <2>1. lost' = lost /\ pc' = "reopen"
        BY <1>9 DEF CutShort, CloseFile
    <2>2. PICK m \in Nat : CutTo(m) /\ file' \in Seq(FileItems)
        BY <1>9, CutFacts
    <2>3. DOMAIN file' = 1..m /\ DOMAIN file = 1..Len(file) /\ m <= Len(file) /\ Len(file) \in Nat
        BY <1>2, <2>2 DEF CutTo
    <2>4. \A i \in 1..m : i \in DOMAIN file /\ file'[i].of = file[i].of /\ Rank(file'[i]) = Rank(file[i])
        BY <2>2, <2>3, RankIn DEF CutTo
    <2> SUFFICES ASSUME lost < 2
                 PROVE  \E o \in 0..Len(rows), b \in DOMAIN Block : FullBut(o, b)'
        BY <1>1, <2>1 DEF FullInv
    <2>5. PICK o \in 0..Len(rows), b \in DOMAIN Block : FullBut(o, b)
        BY DEF FullInv
    <2>6. FullBut(o, b)'
        <3> SUFFICES ASSUME NEW p \in Kin', NEW c \in DOMAIN Block, Passed(p, c)'
                     PROVE  Present(p, c)' \/ (lost' = 1 /\ p = o /\ c = b)
            BY DEF FullBut
        <3>1. PICK i \in 1..m : p < file[i].of \/ (p = file[i].of /\ c <= Rank(file[i]))
            BY <2>1, <2>3, <2>4 DEF Passed, Writing
        <3>2. p \in Kin /\ Passed(p, c)
            BY <2>1, <2>3, <2>4, <3>1 DEF Kin, Passed
        <3>3. CASE Present(p, c)
            <4>1. PICK j \in DOMAIN file : file[j].of = p /\ Rank(file[j]) = c
                BY <3>3 DEF Present
            <4>2. j \in 1..m
                <5> SUFFICES ASSUME i < j PROVE FALSE
                    BY <2>3, <3>1, <4>1
                <5>1. Before(file[i], file[j])
                    BY <2>4, <3>1, <4>1 DEF OrderInv
                <5>2. /\ file[i].of \in Nat /\ file[j].of \in Nat
                      /\ Rank(file[i]) \in Nat /\ Rank(file[j]) \in Nat
                    BY <1>2, <2>4, <4>1
                <5> QED BY <3>1, <4>1, <5>1, <5>2 DEF Before
            <4> QED BY <2>3, <2>4, <4>1, <4>2 DEF Present
        <3>4. CASE lost = 1 /\ p = o /\ c = b
            BY <2>1, <3>4
        <3> QED BY <2>5, <3>2, <3>3, <3>4 DEF FullBut
    <2> QED BY <2>5, <2>6
<1> QED BY <1>4, <1>5, <1>6, <1>7, <1>8, <1>9, SaveKinds DEF WriteStep

LEMMA SaveSaved ==
    ASSUME TypeOK, ShapeInv, PhaseInv, OrderInv, SavedInv, Save
    PROVE  SavedInv'
<1>1. rows' = rows /\ Len(rows) \in Nat /\ DOMAIN rows = 1..Len(rows) /\ row \in Nat
    BY SaveSteps, RowsFacts DEF rows, TypeOK
<1>2. faults \in Nat /\ faults <= faults' /\ faults' \in Nat /\ faults # faults + 1
    BY SaveSteps, FaultsAssumption DEF TypeOK
<1>3. file \in Seq(FileItems)
    BY DEF ShapeInv
<1>4. \A o : Static(o)' <=> Static(o)
    BY <1>1 DEF Static
<1> SUFFICES ASSUME faults' = 0 PROVE SavedInv'
    BY DEF SavedInv
<1>5. faults = 0 /\ faults' # faults + 1
    BY <1>2
<1>6. \A i \in DOMAIN file : file[i].of > 0 => Static(file[i].of)
    BY <1>5 DEF SavedInv
<1>7. CASE KeepStep
    <2>1. pc' # "write" /\ row' = row /\ (file' = file \/ file' = << >>)
        BY <1>7 DEF KeepStep
    <2>2. Writing' => row = 0 /\ \A o : o \notin 1..row
        BY <1>7 DEF KeepStep, Writing, PhaseInv
    <2>3. \A i \in DOMAIN file' : file'[i].of = 0
        <3>1. Untouched
            BY <1>7 DEF KeepStep, Untouched
        <3> QED BY <2>1, <3>1 DEF OrderInv
    <2>4. file' # << >> => 1 \in DOMAIN file'
        BY <1>3, <2>1
    <2> QED BY <2>1, <2>2, <2>3, <2>4 DEF SavedInv
<1>8. CASE ScanStep
    <2>1. /\ file' = file /\ opened' = opened /\ row' = row + 1 /\ pc = "next"
          /\ pc' \in {"next", "write"} /\ (pc' = "write" => pos' = 1)
          /\ pc' = "write" <=> Static(row + 1)
        BY <1>5, <1>8 DEF ScanStep
    <2>2. Writing' => Writing
        BY <2>1 DEF Writing
    <2>3. \A o \in 1..(row + 1) : o \in 1..row \/ o = row + 1
        BY <1>1
    <2>4. \A b \in DOMAIN Block : ~ (b < 1)
        BY BlockFacts
    <2>5. ASSUME Writing', NEW o \in 1..row', NEW b \in DOMAIN Block,
                 Static(o), o < row' \/ (o = row' /\ (pc' = "write" => b < pos'))
          PROVE  Present(o, b)'
        <3>1. CASE o \in 1..row
            <4>1. o < row \/ o = row
                BY <1>1, <3>1
            <4>2. Present(o, b)
                BY <1>5, <2>1, <2>2, <2>5, <3>1, <4>1 DEF SavedInv
            <4> QED BY <2>1, <4>2 DEF Present
        <3>2. CASE o = row + 1
            <4>1. ~ (o < row')
                BY <1>1, <2>1, <3>2
            <4> QED BY <2>1, <2>4, <2>5, <3>2, <4>1
        <3> QED BY <2>1, <2>3, <3>1, <3>2
    <2>6. pc' = "write" => Static(row')
        BY <2>1
    <2>7. pc' \notin {"reopen", "read", "done", "failed"}
        BY <2>1
    <2> QED BY <1>4, <1>6, <2>1, <2>5, <2>6, <2>7 DEF SavedInv
<1>9. CASE WriteStep /\ NotAdded
    <2>1. /\ file' = file /\ ~ opened /\ ~ opened' /\ row' = row
          /\ pc = "write" /\ pc' \in {"next", "write"}
        BY <1>5, <1>9 DEF WriteStep, NotAdded, Advance
    <2> QED BY <1>4, <1>5, <2>1 DEF SavedInv, Writing
<1>10. CASE WriteStep /\ ~ NotAdded
    <2>1. PICK x : Added(x) /\ file' = Append(file, x)
        BY <1>10 DEF WriteStep
    <2>2. /\ opened /\ opened' /\ row' = row /\ pc = "write" /\ pos \in DOMAIN Block /\ pos \in Nat
          /\ IF pos < 14 THEN pos' = pos + 1 /\ pc' = "write" ELSE pc' = "next" /\ pos = 14
        BY <1>10, WritePlace, BlockFacts DEF WriteStep, Advance
    <2>3. x \in FileItems /\ x.of = row /\ Rank(x) = pos
        BY <2>1, <2>2, RankFacts DEF Added
    <2>4. Static(row) /\ Writing
        BY <1>5, <2>2 DEF SavedInv, Writing
    <2>5. \A i \in DOMAIN file' : (i \in DOMAIN file /\ file'[i] = file[i]) \/ file'[i].of = row
        BY <1>3, <2>1, <2>3, AppendFacts
    <2>6. \A i \in DOMAIN file' : file'[i].of > 0 => Static(file'[i].of)
        BY <1>6, <2>4, <2>5
    <2>7. ASSUME NEW o \in 1..row, NEW b \in DOMAIN Block, Static(o),
                 o < row \/ (o = row /\ (pc' = "write" => b < pos'))
          PROVE  Present(o, b)'
        <3>1. b \in Nat /\ b <= 14
            BY BlockFacts
        <3>2. o < row \/ (o = row /\ (b < pos \/ b = pos))
            BY <2>2, <2>7, <3>1
        <3>3. CASE o = row /\ b = pos
            BY <1>3, <2>1, <2>3, <3>3, AppendFacts DEF Present
        <3>4. CASE o < row \/ (o = row /\ b < pos)
            <4>1. PICK i \in DOMAIN file : file[i].of = o /\ Rank(file[i]) = b
                BY <1>5, <2>2, <2>4, <2>7, <3>4 DEF SavedInv, Present
            <4>2. i \in DOMAIN file' /\ file'[i] = file[i]
                BY <1>3, <2>1, <2>3, AppendFacts
            <4> QED BY <4>1, <4>2 DEF Present
        <3> QED BY <3>2, <3>3, <3>4
    <2>8. pc' \notin {"reopen", "read", "done", "failed"}
        BY <2>2
    <2>9. (pc = "write" => Static(row))'
        BY <1>4, <2>2, <2>4
    <2>10. (\A i \in DOMAIN file : file[i].of > 0 => Static(file[i].of))'
        BY <1>4, <2>6
    <2>11. (Writing => \A o \in 1..row : \A b \in DOMAIN Block :
               Static(o) /\ (o < row \/ (o = row /\ (pc = "write" => b < pos))) => Present(o, b))'
        BY <1>4, <2>2, <2>7
    <2>12. (Writing => \A o \in 1..row : \A b \in DOMAIN Block :
               Static(o) /\ (o < row \/ (pc = "write" => b < pos)) => Present(o, b))'
        <3>1. \A o \in 1..row' : o < row' \/ o = row'
            BY <1>1, <2>2
        <3> QED BY <2>11, <3>1
    <2> QED BY <2>8, <2>9, <2>10, <2>12 DEF SavedInv
<1>11. CASE EndStep
    <2>1. /\ pc = "next" /\ row = Len(rows) /\ file' = file /\ pc' = "reopen"
        BY <1>5, <1>11 DEF EndStep, CloseFile
    <2>2. ASSUME file # << >>, file[1].of > 0, NEW o \in DOMAIN rows, NEW b \in DOMAIN Block,
                 Static(o)
          PROVE  Present(o, b)'
        <3>1. 1 \in DOMAIN file
            BY <1>3, <2>2
        <3>2. Writing
            BY <2>1, <2>2, <3>1 DEF OrderInv, Untouched, Writing
        <3>3. o \in 1..row /\ (o < row \/ o = row)
            BY <1>1, <2>1
        <3>4. Present(o, b)
            BY <1>5, <2>1, <2>2, <3>2, <3>3 DEF SavedInv
        <3> QED BY <2>1, <3>4 DEF Present
    <2>3. ~ Writing' /\ pc' # "write"
        BY <2>1 DEF Writing
    <2> QED BY <1>1, <1>4, <1>6, <2>1, <2>2, <2>3 DEF SavedInv
<1>12. ~ CutShort
    BY <1>5 DEF CutShort
<1> QED BY <1>7, <1>8, <1>9, <1>10, <1>11, <1>12, SaveKinds

\* The steps of Restore leave the file and what is known of it.
FileInv == OrderInv /\ TextInv /\ WholeInv /\ FitInv /\ FullInv /\ SavedInv

LEMMA SaveFile ==
    ASSUME TypeOK, ShapeInv, PhaseInv, FileInv, Save
    PROVE  FileInv'
BY SaveOrder, SaveText, SaveWhole, SaveFit, SaveFull, SaveSaved DEF FileInv

LEMMA RestoreFile ==
    ASSUME TypeOK, FileInv, Restore
    PROVE  FileInv'
<1>1. /\ UNCHANGED <<net, row, file, faults, lost, cut>> /\ rows' = rows
      /\ pc \in {"reopen", "read"} /\ pc' \in {"read", "done", "failed"}
    BY RestoreFrame DEF rows
<1>2. ~ Writing /\ ~ Writing' /\ ~ Untouched /\ ~ Untouched'
    BY <1>1 DEF Writing, Untouched
<1>3. OrderInv'
    BY <1>1, <1>2 DEF FileInv, OrderInv
<1>4. TextInv' /\ WholeInv'
    BY <1>1 DEF FileInv, TextInv, WholeInv
<1>5. FitInv'
    BY <1>1 DEF FileInv, FitInv, AllFit
<1>6. FullInv'
    <2>1. \A p \in Kin', c \in DOMAIN Block : Passed(p, c)' => p \in Kin /\ Passed(p, c)
        BY <1>1, <1>2 DEF Kin, Passed
    <2> QED BY <1>1, <2>1, FullKept DEF FileInv
<1>7. SavedInv'
    <2>1. pc' # "write" /\ \A o : Static(o)' <=> Static(o)
        BY <1>1 DEF Static
    <2>2. \A o, b : Present(o, b)' <=> Present(o, b)
        BY <1>1 DEF Present
    <2> QED BY <1>1, <1>2, <2>1, <2>2 DEF FileInv, SavedInv
<1> QED BY <1>3, <1>4, <1>5, <1>6, <1>7 DEF FileInv

-------------------------------------------------------------------------------
(* Reading keeps the invariant *)

\* A string is read, and the reader goes on.  Unless a line was torn the string is the
\* item it stands at; it has no "\r" when the parser dies.
LEMMA ReadSteps ==
    ASSUME TypeOK, ShapeInv, SkipInv, WholeInv, ReadLine
    PROVE  /\ pc = "read" /\ opened /\ opened' = opened
           /\ pos \in DOMAIN file /\ pos \in Nat /\ pos <= Len(file)
           /\ pos' \in pos..(Len(file) + 1) /\ skip' \in 0..(Buffer - 1)
           /\ pos' \in DOMAIN file => skip' < file[pos'].chars
           /\ lost < 2 => skip' = 0
           /\ \/ pc' = "failed" /\ UNCHANGED <<pos, cur, adapters>> /\ (lost < 2 => ~ file[pos].cr)
              \/ pc' = "read" /\ UNCHANGED <<cur, adapters>> /\ ~ (lost < 2)
              \/ pc' = "read" /\ Take(file[pos]) /\ pos' > pos /\ (lost < 2 => pos' = pos + 1)
<1> DEFINE ahead == Ahead(Ends)
           chars == Chars(Ends, ahead)
           found == Returned(Ends, ahead, chars)
<1>1. /\ pc = "read" /\ opened /\ opened' = opened /\ pos <= Len(file)
      /\ IF found = {}
         THEN pc' = "failed" /\ UNCHANGED <<pos, skip, parsed>>
         ELSE /\ UNCHANGED pc
              /\ IF found = {pos} /\ skip = 0 THEN Take(file[pos]) ELSE UNCHANGED parsed
              /\ Consume(Ends, ahead, chars)
    BY DEF ReadLine
<1>2. /\ file \in Seq(FileItems) /\ Len(file) \in Nat /\ DOMAIN file = 1..Len(file)
      /\ pos \in Nat \ {0} /\ skip \in 0..(Buffer - 1)
    BY DEF ShapeInv, TypeOK
<1>3. pos \in DOMAIN file /\ pos \in Nat
    BY <1>1, <1>2
<1>4. skip < file[pos].chars /\ (lost < 2 => skip = 0)
    BY <1>1, <1>3 DEF SkipInv
<1>5. Standing
    <2>1. \A i \in 1..Len(file) : file[i] \in FileItems
        BY <1>2
    <2>2. \A x \in FileItems : x.chars \in 1..(Buffer - 1) /\ x.lf \in BOOLEAN /\ x.cr \in BOOLEAN
        BY DEF FileItems
    <2>3. skip \in Nat
        BY <1>2, BufferAssumption
    <2> QED BY <1>1, <1>2, <1>4, <2>1, <2>2, <2>3 DEF Standing
<1>6. lost < 2 => /\ found = {i \in {pos} : file[i].cr}
                  /\ Consume(Ends, ahead, chars) => pos' = pos + 1 /\ skip' = 0
    <2> SUFFICES ASSUME lost < 2
                 PROVE  /\ found = {i \in {pos} : file[i].cr}
                        /\ Consume(Ends, ahead, chars) => pos' = pos + 1 /\ skip' = 0
        OBVIOUS
    <2>1. file[pos].lf \/ file[pos].chars = Buffer - 1 \/ pos = Len(file)
        BY <1>3 DEF WholeInv
    <2>2. \A i \in 1..Len(file) : file[i].lf => file[i].cr /\ file[i].chars > 1
        BY <1>2 DEF WholeInv
    <2> QED BY <1>4, <1>5, <2>1, <2>2, AloneFacts
<1>7. Consume(Ends, ahead, chars) =>
          /\ pos' \in pos..(Len(file) + 1) /\ skip' \in 0..(Buffer - 1)
          /\ pos' <= Len(file) => skip' < file[pos'].chars
          /\ skip = 0 => pos' > pos
    BY <1>5, ConsumeFacts
<1> HIDE DEF ahead, chars, found
<1>8. CASE found = {}
    <2>1. lost < 2 => ~ file[pos].cr
        BY <1>6, <1>8
    <2>2. pc' = "failed" /\ UNCHANGED <<pos, skip, cur, adapters>>
        BY <1>1, <1>8 DEF parsed
    <2>3. pos' \in pos..(Len(file) + 1)
        BY <1>1, <1>2, <2>2
    <2> QED BY <1>1, <1>2, <1>3, <1>4, <2>1, <2>2, <2>3
<1>9. CASE found # {}
    <2>1. pc' = "read" /\ Consume(Ends, ahead, chars)
        BY <1>1, <1>9
    <2>2. lost < 2 => found = {pos} /\ skip = 0
        BY <1>4, <1>6, <1>9
    <2>3. pos' \in DOMAIN file => pos' <= Len(file)
        BY <1>2
    <2>4. CASE found = {pos} /\ skip = 0
        BY <1>1, <1>3, <1>6, <1>7, <1>9, <2>1, <2>3, <2>4
    <2>5. CASE ~ (found = {pos} /\ skip = 0)
        <3>1. UNCHANGED <<cur, adapters>> /\ ~ (lost < 2)
            BY <1>1, <1>9, <2>2, <2>5 DEF parsed
        <3> QED BY <1>1, <1>3, <1>7, <2>1, <2>3, <3>1
    <2> QED BY <2>4, <2>5
<1> QED BY <1>8, <1>9

\* The item at pos is one of the lines of a block.
LEMMA AtPos ==
    ASSUME TypeOK, ShapeInv, OrderInv, pos \in DOMAIN file, Take(file[pos])
    PROVE  LET x == file[pos]
               new == [cur EXCEPT ![x.name] = FieldOf(x)]
           IN  /\ x \in FileItems /\ x.name \in Names /\ x.of \in 0..Len(rows)
               /\ FieldOf(x).of = x.of /\ FieldOf(x) # Unset
               /\ new \in [Names -> Fields]
               /\ new[x.name] = FieldOf(x)
               /\ \A n \in Names \ {x.name} : new[n] = cur[n]
               /\ IF x.name = "ServiceName"
                  THEN adapters' = Append(adapters, new) /\ cur' = Fresh
                  ELSE adapters' = adapters /\ cur' = new
<1> DEFINE x == file[pos]
<1>1. x \in FileItems
    BY DEF ShapeInv
<1>2. x.of \in 0..Len(rows) /\ x.name \in Names
    BY DEF TypeOK
<1>3. PICK b \in DOMAIN Block : x.name = Block[b].name /\ x.type = Block[b].type
    BY DEF OrderInv
<1>4. FieldOf(x).of = x.of
    BY DEF FieldOf
<1>5. Unset.of = -1
    BY DEF Unset
<1>6. FieldOf(x) # Unset
    <2>1. x.of # -1
        BY <1>2, RowsFacts DEF TypeOK
    <2> QED BY <1>4, <1>5, <2>1
<1>7. Take(x)
    OBVIOUS
<1> HIDE DEF x
<1>8. LET new == [cur EXCEPT ![x.name] = FieldOf(x)]
      IN  /\ new \in [Names -> Fields]
          /\ new[x.name] = FieldOf(x)
          /\ \A n \in Names \ {x.name} : new[n] = cur[n]
          /\ IF x.name = "ServiceName"
             THEN adapters' = Append(adapters, new) /\ cur' = Fresh
             ELSE adapters' = adapters /\ cur' = new
    BY <1>1, <1>3, <1>7, TakeFacts
<1> QED BY <1>1, <1>2, <1>4, <1>6, <1>8 DEF x

LEMMA FreshFacts ==
    /\ Fresh \in [Names -> Fields] /\ \A n \in Names : Fresh[n] = Unset
    /\ Unset.of = -1 /\ "ServiceName" \in Names
<1>1. "ServiceName" \in Names
    <2>1. 14 \in DOMAIN Block /\ Block[14].name = "ServiceName"
        BY BlockFacts
    <2> QED BY <2>1, BlockFacts
<1> QED BY <1>1 DEF Fresh, Fields, Unset

LEMMA ReadSkip ==
    ASSUME TypeOK, ShapeInv, PhaseInv, SkipInv, WholeInv, Restore
    PROVE  SkipInv'
<1>1. CASE OpenForReading
    <2>1. pos' = 1 /\ skip' = 0 /\ file' = file
        BY <1>1, RestoreFrame DEF OpenForReading, PhaseInv, Reading, place
    <2>2. file \in Seq(FileItems)
        BY DEF ShapeInv
    <2>3. 1 \in DOMAIN file => 0 < file[1].chars
        <3> SUFFICES ASSUME 1 \in DOMAIN file PROVE 0 < file[1].chars
            OBVIOUS
        <3>1. file[1].chars \in 1..(Buffer - 1)
            BY DEF TypeOK
        <3> QED BY <3>1, BufferAssumption
    <2> QED BY <2>1, <2>3 DEF SkipInv
<1>2. CASE ReadLine
    <2>1. UNCHANGED <<file, lost>>
        BY RestoreFrame
    <2> QED BY <1>2, <2>1, ReadSteps DEF SkipInv
<1>3. CASE ReadEnds
    BY <1>3 DEF ReadEnds, SkipInv
<1> QED BY <1>1, <1>2, <1>3 DEF Restore

LEMMA ReadShape ==
    ASSUME TypeOK, ShapeInv, SkipInv, WholeInv, OrderInv, Restore
    PROVE  ShapeInv'
<1>0. file' = file
    BY RestoreFrame
<1>1. CASE OpenForReading \/ ReadEnds
    BY <1>0, <1>1 DEF OpenForReading, ReadEnds, parsed, ShapeInv
<1>2. CASE ReadLine /\ ~ Take(file[pos])
    <2>1. UNCHANGED <<cur, adapters>>
        BY <1>2, ReadSteps
    <2> QED BY <1>0, <2>1 DEF ShapeInv
<1>3. CASE ReadLine /\ Take(file[pos])
    <2> DEFINE new == [cur EXCEPT ![file[pos].name] = FieldOf(file[pos])]
    <2>1. /\ new \in [Names -> Fields]
          /\ \/ adapters' = Append(adapters, new) /\ cur' = Fresh
             \/ adapters' = adapters /\ cur' = new
        BY <1>3, ReadSteps, AtPos
    <2> HIDE DEF new
    <2>2. cur \in [Names -> Fields] /\ adapters \in Seq([Names -> Fields])
        BY DEF ShapeInv
    <2>3. Fresh \in [Names -> Fields]
        BY FreshFacts
    <2>4. Append(adapters, new) \in Seq([Names -> Fields])
        BY <2>1, <2>2
    <2> QED BY <1>0, <2>1, <2>2, <2>3, <2>4 DEF ShapeInv
<1> QED BY <1>1, <1>2, <1>3 DEF Restore

LEMMA ReadPhase ==
    ASSUME TypeOK, PhaseInv, Restore
    PROVE  PhaseInv'
<1>1. /\ UNCHANGED <<net, row, file, faults, lost, cut>>
      /\ pc \in {"reopen", "read"} /\ pc' \in {"read", "done", "failed"}
    BY RestoreFrame
<1> QED BY <1>1 DEF PhaseInv, Reading, Writing, Untouched

\* A new record, and what it stands for among the others.
LEMMA RecordAdded ==
    ASSUME NEW s \in Seq([Names -> Fields]), NEW new \in [Names -> Fields]
    PROVE  /\ Len(s) \in Nat /\ Len(Append(s, new)) = Len(s) + 1
           /\ Append(s, new)[Len(s) + 1] = new
           /\ \A r \in 1..Len(s) : Append(s, new)[r] = s[r] /\ r \in 1..(Len(s) + 1)
           /\ \A r \in 1..(Len(s) + 1) : r \in 1..Len(s) \/ r = Len(s) + 1
OBVIOUS

LEMMA ReadType ==
    ASSUME TypeOK, ShapeInv, SkipInv, WholeInv, OrderInv, Restore
    PROVE  TypeOK'
<1>1. /\ UNCHANGED <<net, row, file, faults, lost, cut>> /\ rows' = rows
      /\ pc' \in {"read", "done", "failed"}
    BY RestoreFrame DEF rows
<1>2. /\ opened' \in BOOLEAN /\ pos' \in Nat \ {0} /\ skip' \in 0..(Buffer - 1)
    <2>1. CASE OpenForReading \/ ReadEnds
        BY <2>1 DEF OpenForReading, ReadEnds, place, TypeOK
    <2>2. CASE ReadLine
        <3>1. pos \in Nat \ {0} /\ opened \in BOOLEAN
            BY DEF TypeOK
        <3>2. pos' \in pos..(Len(file) + 1) /\ skip' \in 0..(Buffer - 1) /\ opened' = opened
              /\ Len(file) \in Nat
            BY <2>2, ReadSteps DEF ShapeInv
        <3> QED BY <3>1, <3>2
    <2> QED BY <2>1, <2>2 DEF Restore
<1>3. /\ \A n \in Names : cur'[n].of \in -1..Len(rows)
      /\ \A r \in Records' : DOMAIN adapters'[r] = Names /\ Owner(r)' \in 0..Len(rows)
    <2>1. CASE UNCHANGED <<cur, adapters>>
        BY <2>1 DEF TypeOK, Records, Owner
    <2>2. CASE ReadLine /\ Take(file[pos])
        <3> DEFINE x == file[pos]
                   new == [cur EXCEPT ![x.name] = FieldOf(x)]
        <3>1. /\ x.of \in 0..Len(rows) /\ FieldOf(x).of = x.of /\ x.name \in Names
              /\ new \in [Names -> Fields] /\ new[x.name] = FieldOf(x)
              /\ \A n \in Names \ {x.name} : new[n] = cur[n]
              /\ IF x.name = "ServiceName"
                 THEN adapters' = Append(adapters, new) /\ cur' = Fresh
                 ELSE adapters' = adapters /\ cur' = new
            BY <2>2, ReadSteps, AtPos
        <3>2. x.of \in -1..Len(rows) /\ -1 \in -1..Len(rows)
            BY <3>1, RowsFacts DEF TypeOK
        <3> HIDE DEF x, new
        <3>3. \A n \in Names : new[n].of \in -1..Len(rows)
            BY <3>1, <3>2 DEF TypeOK
        <3>4. \A n \in Names : Fresh[n].of \in -1..Len(rows)
            BY <3>2, FreshFacts
        <3>5. \A n \in Names : cur'[n].of \in -1..Len(rows)
            BY <3>1, <3>3, <3>4
        <3>6. ASSUME NEW r \in Records'
              PROVE  DOMAIN adapters'[r] = Names /\ Owner(r)' \in 0..Len(rows)
            <4>1. CASE adapters' = adapters
                BY <4>1, <3>6 DEF TypeOK, Records, Owner
            <4>2. CASE x.name = "ServiceName" /\ adapters' = Append(adapters, new)
                <5>1. adapters \in Seq([Names -> Fields])
                    BY DEF ShapeInv
                <5>2. /\ r \in 1..Len(adapters) \/ r = Len(adapters) + 1
                      /\ adapters'[Len(adapters) + 1] = new
                      /\ \A q \in 1..Len(adapters) : adapters'[q] = adapters[q]
                    BY <3>1, <4>2, <5>1, RecordAdded DEF Records
                <5>3. CASE r \in 1..Len(adapters)
                    BY <5>2, <5>3 DEF TypeOK, Records, Owner
                <5>4. CASE r = Len(adapters) + 1
                    <6>1. DOMAIN new = Names
                        BY <3>1
                    <6> QED BY <3>1, <4>2, <5>2, <5>4, <6>1 DEF Owner
                <5> QED BY <5>2, <5>3, <5>4
            <4> QED BY <3>1, <4>1, <4>2
        <3> QED BY <3>5, <3>6
    <2>3. UNCHANGED <<cur, adapters>> \/ (ReadLine /\ Take(file[pos]))
        BY ReadSteps DEF Restore, OpenForReading, ReadEnds, parsed
    <2> QED BY <2>1, <2>2, <2>3
<1>4. pc' \in {"open", "query", "next", "write", "reopen", "read", "done", "failed"} /\ pc' # "write"
    BY <1>1
<1> QED BY <1>1, <1>2, <1>3, <1>4 DEF TypeOK

\* The step that reads a line of a record, and the steps that do not.
ReadTake ==
    /\ ReadLine /\ Take(file[pos]) /\ pos' > pos /\ pc' = "read"
    /\ lost < 2 => pos' = pos + 1
ReadOther ==
    /\ UNCHANGED <<cur, adapters>> /\ pos' \in Nat /\ pos <= pos'
    /\ \/ pc = "reopen" /\ pc' = "read" /\ pos' = pos
       \/ pc = "read" /\ pos' = pos /\ pc' \in {"done", "failed"}
       \/ pc = "read" /\ pc' = "read" /\ ~ (lost < 2)
    /\ pc' = "done" /\ opened' => pos > Len(file)
    /\ pc' = "failed" => pos \in DOMAIN file /\ (lost < 2 => ~ file[pos].cr)

LEMMA RestoreKinds ==
    ASSUME TypeOK, ShapeInv, SkipInv, WholeInv, Restore
    PROVE  (ReadTake \/ ReadOther) /\ pos \in Nat
<1>0. pos \in Nat
    BY DEF TypeOK
<1>1. CASE OpenForReading \/ ReadEnds
    BY <1>0, <1>1 DEF OpenForReading, ReadEnds, ReadOther, place, parsed
<1>2. CASE ReadLine
    <2>1. pos' \in pos..(Len(file) + 1) /\ Len(file) \in Nat
        BY <1>2, ReadSteps DEF ShapeInv
    <2>2. pos' \in Nat /\ pos <= pos'
        BY <1>0, <2>1
    <2> QED BY <1>0, <1>2, <2>2, ReadSteps DEF ReadTake, ReadOther
<1> QED BY <1>0, <1>1, <1>2 DEF Restore

\* Item p, that is x, is read; new is the record with its field.
Taken(p, x, new) ==
    /\ p \in DOMAIN file /\ p = pos /\ x = file[p] /\ file' = file /\ lost' = lost
    /\ p \in Nat /\ pos' \in Nat /\ p < pos' /\ (lost < 2 => pos' = p + 1)
    /\ x \in FileItems /\ x.name \in Names /\ x.of \in 0..Len(rows)
    /\ FieldOf(x).of = x.of /\ FieldOf(x) # Unset
    /\ new \in [Names -> Fields] /\ new[x.name] = FieldOf(x)
    /\ \A n \in Names \ {x.name} : new[n] = cur[n]
    /\ \/ x.name = "ServiceName" /\ adapters' = Append(adapters, new) /\ cur' = Fresh
       \/ x.name # "ServiceName" /\ adapters' = adapters /\ cur' = new

LEMMA TakenFacts ==
    ASSUME TypeOK, ShapeInv, OrderInv, SkipInv, WholeInv, ReadTake
    PROVE  \E p, x, new : Taken(p, x, new)
<1> DEFINE x == file[pos]
           new == [cur EXCEPT ![x.name] = FieldOf(x)]
<1>1. /\ pos \in DOMAIN file /\ pos \in Nat /\ pos' > pos /\ (lost < 2 => pos' = pos + 1)
      /\ pos' \in pos..(Len(file) + 1) /\ file' = file /\ lost' = lost
    BY ReadSteps, RestoreFrame DEF ReadTake, Restore
<1>2. /\ x \in FileItems /\ x.name \in Names /\ x.of \in 0..Len(rows)
      /\ FieldOf(x).of = x.of /\ FieldOf(x) # Unset
      /\ new \in [Names -> Fields] /\ new[x.name] = FieldOf(x)
      /\ \A n \in Names \ {x.name} : new[n] = cur[n]
      /\ IF x.name = "ServiceName"
         THEN adapters' = Append(adapters, new) /\ cur' = Fresh
         ELSE adapters' = adapters /\ cur' = new
    BY <1>1, AtPos DEF ReadTake
<1>3. pos' \in Nat
    BY <1>1 DEF ShapeInv
<1> HIDE DEF new
<1>4. Taken(pos, x, new)
    BY <1>1, <1>2, <1>3 DEF Taken
<1> QED BY <1>4

LEMMA ReadField ==
    ASSUME TypeOK, ShapeInv, PhaseInv, OrderInv, SkipInv, WholeInv, FieldInv, Restore
    PROVE  FieldInv'
<1>1. file' = file /\ pc \in {"reopen", "read"}
    BY RestoreFrame
<1>2. CASE pc = "reopen"
    <2>1. cur' = Fresh /\ adapters' = << >>
        BY <1>2, RestoreKinds DEF PhaseInv, Reading, ReadOther, ReadTake, ReadLine
    <2>2. Records' = {}
        BY <2>1 DEF Records
    <2> QED BY <2>1, <2>2, FreshFacts DEF FieldInv
<1>3. CASE pc = "read"
    <2>0. /\ \A n \in Names : cur[n] # Unset => ReadFrom(n, cur[n])
          /\ \A r \in Records : \A n \in Set(r) : ReadFrom(n, adapters[r][n])
          /\ \A r \in Records : "ServiceName" \in Set(r)
          /\ cur["ServiceName"] = Unset
        BY <1>3 DEF FieldInv, Reading
    <2>1. ASSUME pos \in Nat, pos' \in Nat, pos <= pos', NEW n, NEW field, ReadFrom(n, field)
          PROVE  ReadFrom(n, field)'
        <3>1. PICK j \in DOMAIN file : /\ j < pos /\ file[j].name = n
                                       /\ field = [of |-> file[j].of, vectors |-> Vectors(file[j])]
            BY <2>1 DEF ReadFrom
        <3>2. j \in Nat
            BY DEF ShapeInv
        <3>3. j < pos'
            BY <2>1, <3>1, <3>2
        <3> QED BY <1>1, <3>1, <3>3 DEF ReadFrom
    <2>2. CASE ReadOther
        <3>1. UNCHANGED <<cur, adapters>> /\ pos \in Nat /\ pos' \in Nat /\ pos <= pos'
            BY <2>2, RestoreKinds DEF ReadOther
        <3>2. \A n \in Names : cur[n] # Unset => ReadFrom(n, cur[n])'
            BY <2>0, <2>1, <3>1
        <3>3. \A r \in Records : \A n \in Set(r) : ReadFrom(n, adapters[r][n])'
            BY <2>0, <2>1, <3>1
        <3>4. Records' = Records /\ \A r : Set(r)' = Set(r)
            BY <3>1 DEF Records, Set
        <3> QED BY <2>0, <3>1, <3>2, <3>3, <3>4 DEF FieldInv
    <2>3. CASE ReadTake
        <3>1. PICK p, x, new : Taken(p, x, new)
            BY <2>3, TakenFacts
        <3>2. ReadFrom(x.name, FieldOf(x))'
            BY <3>1 DEF Taken, ReadFrom, FieldOf
        <3>3. pos \in Nat /\ pos' \in Nat /\ pos <= pos'
            BY <3>1 DEF Taken
        <3>4. \A n \in Names : new[n] # Unset => ReadFrom(n, new[n])'
            <4> SUFFICES ASSUME NEW n \in Names, new[n] # Unset PROVE ReadFrom(n, new[n])'
                OBVIOUS
            <4>1. CASE n = x.name
                BY <3>1, <3>2, <4>1 DEF Taken
            <4>2. CASE n # x.name
                <5>1. new[n] = cur[n] /\ ReadFrom(n, cur[n])
                    BY <2>0, <3>1, <4>2 DEF Taken
                <5>2. ReadFrom(n, new[n])
                    BY <5>1
                <5> QED BY <2>1, <3>3, <5>2
            <4> QED BY <4>1, <4>2
        <3>5. \A n, field : ReadFrom(n, field) => ReadFrom(n, field)'
            BY <2>1, <3>3
        <3>6. CASE x.name = "ServiceName" /\ adapters' = Append(adapters, new) /\ cur' = Fresh
            <4>1. adapters \in Seq([Names -> Fields]) /\ new \in [Names -> Fields]
                BY <3>1 DEF ShapeInv, Taken
            <4>2. /\ \A r \in Records' : r \in Records \/ r = Len(adapters) + 1
                  /\ adapters'[Len(adapters) + 1] = new
                  /\ \A r \in Records : adapters'[r] = adapters[r]
                BY <3>6, <4>1, RecordAdded DEF Records
            <4>3. ASSUME NEW r \in Records'
                  PROVE  /\ \A n \in Set(r)' : ReadFrom(n, adapters[r][n])'
                         /\ "ServiceName" \in Set(r)'
                <5>1. CASE r \in Records
                    <6>1. Set(r)' = Set(r) /\ adapters'[r] = adapters[r]
                        BY <4>2, <5>1 DEF Set
                    <6> QED BY <2>0, <3>5, <5>1, <6>1
                <5>2. CASE r = Len(adapters) + 1
                    <6>1. adapters'[r] = new
                        BY <4>2, <5>2
                    <6>2. Set(r)' = {n \in Names : new[n] # Unset}
                        BY <6>1 DEF Set
                    <6>3. "ServiceName" \in Set(r)'
                        BY <3>1, <3>6, <6>2 DEF Taken
                    <6> QED BY <3>4, <6>1, <6>2, <6>3
                <5> QED BY <4>2, <5>1, <5>2
            <4>4. \A n \in Names : cur'[n] = Unset
                BY <3>6, FreshFacts
            <4> QED BY <4>3, <4>4, FreshFacts DEF FieldInv
        <3>7. CASE x.name # "ServiceName" /\ adapters' = adapters /\ cur' = new
            <4>1. Records' = Records /\ \A r : Set(r)' = Set(r)
                BY <3>7 DEF Records, Set
            <4>2. cur'["ServiceName"] = Unset
                BY <2>0, <3>1, <3>7, FreshFacts DEF Taken
            <4> QED BY <2>0, <3>4, <3>5, <3>7, <4>1, <4>2 DEF FieldInv
        <3> QED BY <3>1, <3>6, <3>7 DEF Taken
    <2> QED BY <2>2, <2>3, RestoreKinds
<1> QED BY <1>1, <1>2, <1>3

\* The items are in the order of their lines, and only in that.
LEMMA OrderFacts ==
    ASSUME ShapeInv, OrderInv
    PROVE  /\ \A i \in DOMAIN file : /\ i \in Nat /\ file[i].of \in Nat /\ Rank(file[i]) \in 1..14
                                     /\ file[i].name = Block[Rank(file[i])].name
                                     /\ file[i].name = "ServiceName" <=> Rank(file[i]) = 14
           /\ \A i, j \in DOMAIN file : i < j <=> Before(file[i], file[j])
           /\ \A i, j \in DOMAIN file : file[i].name = file[j].name <=> Rank(file[i]) = Rank(file[j])
<1>1. file \in Seq(FileItems) /\ DOMAIN file = 1..Len(file) /\ Len(file) \in Nat
    BY DEF ShapeInv
<1>2. ASSUME NEW i \in DOMAIN file
      PROVE  /\ i \in Nat /\ file[i].of \in Nat /\ Rank(file[i]) \in 1..14 /\ Rank(file[i]) \in Nat
             /\ file[i].name = Block[Rank(file[i])].name
             /\ file[i].name = "ServiceName" <=> Rank(file[i]) = 14
    <2>1. i \in Nat /\ file[i] \in FileItems
        BY <1>1
    <2>2. /\ file[i].of \in Nat /\ Rank(file[i]) \in 1..14 /\ Rank(file[i]) \in Nat
          /\ file[i].name = Block[Rank(file[i])].name
        BY <2>1, RankIn
    <2> QED BY <2>1, <2>2, BlockFacts
<1>3. ASSUME NEW i \in DOMAIN file, NEW j \in DOMAIN file
      PROVE  i < j <=> Before(file[i], file[j])
    <2>1. i < j => Before(file[i], file[j])
        BY DEF OrderInv
    <2>2. j < i => Before(file[j], file[i])
        BY DEF OrderInv
    <2>3. i < j \/ j < i \/ i = j
        BY <1>1
    <2>4. Before(file[i], file[j]) => ~ Before(file[j], file[i]) /\ file[i] # file[j]
        BY <1>2 DEF Before
    <2> QED BY <2>1, <2>2, <2>3, <2>4
<1>4. \A i, j \in DOMAIN file : file[i].name = file[j].name <=> Rank(file[i]) = Rank(file[j])
    BY <1>2, RankIn
<1> QED BY <1>2, <1>3, <1>4

LEMMA ReadCur ==
    ASSUME TypeOK, ShapeInv, PhaseInv, OrderInv, SkipInv, WholeInv, CurInv, Restore
    PROVE  CurInv'
<1>1. file' = file /\ pc \in {"reopen", "read"} /\ lost' = lost /\ \A i \in DOMAIN file : i \in Nat
    BY RestoreFrame DEF ShapeInv
<1> SUFFICES ASSUME lost < 2
             PROVE  /\ \A n \in Names : cur'[n] # Unset =>
                          \E j \in DOMAIN file :
                              /\ j < pos' /\ file[j].name = n /\ file[j].of = cur'[n].of
                              /\ Since(j)'
                              /\ \A k \in (j + 1)..(pos' - 1) : file[k].name # n
                    /\ \A j \in DOMAIN file : j < pos' /\ Since(j)' => cur'[file[j].name] # Unset
    BY <1>1 DEF CurInv
<1>2. CASE pc = "reopen"
    <2>1. cur' = Fresh /\ pos' = 1
        BY <1>2, RestoreKinds DEF PhaseInv, Reading, ReadOther, ReadTake, ReadLine
    <2>2. \A j \in DOMAIN file : ~ (j < 1)
        BY DEF ShapeInv
    <2> QED BY <2>1, <2>2, FreshFacts
<1>3. CASE pc = "read" /\ ReadOther
    <2>1. UNCHANGED <<cur, pos>>
        BY <1>3 DEF ReadOther
    <2>2. \A j : Since(j)' <=> Since(j)
        BY <1>1, <2>1 DEF Since
    <2> QED BY <1>3, <2>1, <2>2 DEF CurInv, Reading
<1>4. CASE ReadTake
    <2>0. /\ \A n \in Names : cur[n] # Unset =>
                \E j \in DOMAIN file :
                    /\ j < pos /\ file[j].name = n /\ file[j].of = cur[n].of /\ Since(j)
                    /\ \A k \in (j + 1)..(pos - 1) : file[k].name # n
          /\ \A j \in DOMAIN file : j < pos /\ Since(j) => cur[file[j].name] # Unset
        BY <1>4 DEF ReadTake, ReadLine, CurInv, Reading
    <2>1. PICK p, x, new : Taken(p, x, new)
        BY <1>4, TakenFacts
    <2>2. /\ p \in DOMAIN file /\ p = pos /\ x = file[p] /\ p \in Nat /\ pos' = p + 1
          /\ x.name \in Names /\ FieldOf(x).of = x.of /\ FieldOf(x) # Unset
          /\ new[x.name] = FieldOf(x) /\ \A n \in Names \ {x.name} : new[n] = cur[n]
        BY <2>1 DEF Taken
    <2>3. \A j \in DOMAIN file : j < pos' <=> j < p \/ j = p
        BY <1>1, <2>2
    <2>4. \A j \in DOMAIN file : \A k : k \in j..(pos' - 1) <=> k \in j..(p - 1) \/ (k = p /\ j <= p)
        BY <1>1, <2>2
    <2>5. CASE x.name = "ServiceName"
        <3>1. cur' = Fresh
            BY <2>1, <2>5 DEF Taken
        <3>2. \A j \in DOMAIN file : j < pos' => ~ Since(j)'
            <4> SUFFICES ASSUME NEW j \in DOMAIN file, j < pos' PROVE ~ Since(j)'
                OBVIOUS
            <4>1. p \in j..(pos' - 1)
                BY <1>1, <2>2, <2>3
            <4> QED BY <1>1, <2>2, <2>5, <4>1 DEF Since
        <3> QED BY <3>1, <3>2, FreshFacts
    <2>6. CASE x.name # "ServiceName"
        <3>1. cur' = new
            BY <2>1, <2>6 DEF Taken
        <3>2. \A j \in DOMAIN file : j < p => (Since(j)' <=> Since(j))
            <4> SUFFICES ASSUME NEW j \in DOMAIN file, j < p PROVE Since(j)' <=> Since(j)
                OBVIOUS
            <4> QED BY <1>1, <2>2, <2>4, <2>6 DEF Since
        <3>3. Since(p)'
            <4>1. \A k \in p..(pos' - 1) : k = p
                BY <2>2
            <4> QED BY <1>1, <2>2, <2>6, <4>1 DEF Since
        <3>4. ASSUME NEW n \in Names, new[n] # Unset
              PROVE  \E j \in DOMAIN file :
                         /\ j < pos' /\ file[j].name = n /\ file[j].of = new[n].of /\ Since(j)'
                         /\ \A k \in (j + 1)..(pos' - 1) : file[k].name # n
            <4>1. CASE n = x.name
                <5>1. \A k : k \notin (p + 1)..(pos' - 1)
                    BY <2>2
                <5> QED BY <2>2, <2>3, <3>3, <4>1, <5>1
            <4>2. CASE n # x.name
                <5>1. PICK j \in DOMAIN file :
                          /\ j < pos /\ file[j].name = n /\ file[j].of = cur[n].of /\ Since(j)
                          /\ \A k \in (j + 1)..(pos - 1) : file[k].name # n
                    BY <2>0, <2>2, <3>4, <4>2
                <5>2. \A k \in (j + 1)..(pos' - 1) : k \in (j + 1)..(pos - 1) \/ k = p
                    BY <1>1, <2>2
                <5> QED BY <2>2, <2>3, <3>2, <4>2, <5>1, <5>2
            <4> QED BY <4>1, <4>2
        <3>5. ASSUME NEW j \in DOMAIN file, j < pos', Since(j)' PROVE new[file[j].name] # Unset
            <4>1. file[j].name \in Names
                BY DEF TypeOK
            <4>2. j = p \/ (j < p /\ Since(j))
                BY <2>3, <3>2, <3>5
            <4> QED BY <2>0, <2>2, <4>1, <4>2
        <3> QED BY <3>1, <3>4, <3>5
    <2> QED BY <2>5, <2>6
<1> QED BY <1>1, <1>2, <1>3, <1>4, RestoreKinds DEF ReadTake, ReadLine

\* What an item behind shows to have been passed: its adapter and the lines up to its own.
LEMMA BehindFacts ==
    ASSUME ShapeInv, OrderInv, NEW p \in DOMAIN file, NEW o, NEW b \in DOMAIN Block,
           NEW i \in DOMAIN file, file[i].of = o,
           o < file[p].of \/ (o = file[p].of /\ b <= Rank(file[p]))
    PROVE  o \in Kin /\ Passed(o, b)
BY DEF Kin, Passed

\* With fewer than two lines lost a record has the settings of one adapter: those of an
\* earlier one would be left only if its ServiceName was lost and the line of their name
\* of this one as well.
LEMMA NotMixed ==
    ASSUME TypeOK, ShapeInv, OrderInv, FullInv, CurInv, pc = "read", lost < 2,
           NEW p, NEW x, NEW new, Taken(p, x, new), x.name = "ServiceName",
           NEW n \in Names, new[n] # Unset
    PROVE  new[n].of = x.of
<1>1. /\ p \in DOMAIN file /\ p = pos /\ x = file[p] /\ p \in Nat
      /\ FieldOf(x).of = x.of /\ new[x.name] = FieldOf(x)
      /\ \A m \in Names \ {x.name} : new[m] = cur[m]
    BY DEF Taken
<1>2. CASE n = x.name
    BY <1>1, <1>2
<1>3. CASE n # x.name
    <2>1. new[n] = cur[n] /\ cur[n] # Unset
        BY <1>1, <1>3
    <2>2. PICK j \in DOMAIN file :
              /\ j < p /\ file[j].name = n /\ file[j].of = cur[n].of /\ Since(j)
              /\ \A k \in (j + 1)..(p - 1) : file[k].name # n
        BY <1>1, <2>1 DEF CurInv, Reading
    <2> DEFINE o == file[p].of
               q == file[j].of
               c == Rank(file[j])
    <2>3. /\ \A i \in DOMAIN file : /\ i \in Nat /\ file[i].of \in Nat /\ Rank(file[i]) \in 1..14
                                    /\ file[i].name = "ServiceName" <=> Rank(file[i]) = 14
          /\ \A i, k \in DOMAIN file : i < k <=> Before(file[i], file[k])
          /\ \A i, k \in DOMAIN file : file[i].name = file[k].name <=> Rank(file[i]) = Rank(file[k])
        BY OrderFacts
    <2>4. /\ Rank(file[p]) = 14 /\ c \in 1..14 /\ c # 14 /\ q \in Nat /\ o \in Nat
          /\ Before(file[j], file[p])
        BY <1>1, <1>3, <2>2, <2>3
    <2>5. q < o \/ q = o
        BY <2>4 DEF Before
    <2> SUFFICES ASSUME q < o PROVE FALSE
        BY <1>1, <2>1, <2>2, <2>5
    <2>6. ~ Present(q, 14)
        <3> SUFFICES ASSUME NEW k \in DOMAIN file, file[k].of = q, Rank(file[k]) = 14
                     PROVE  FALSE
            BY DEF Present
        <3>1. Before(file[j], file[k]) /\ Before(file[k], file[p])
            BY <2>4 DEF Before
        <3>2. j < k /\ k < p
            BY <1>1, <2>3, <3>1
        <3>3. k \in j..(pos - 1) /\ file[k].name = "ServiceName"
            BY <1>1, <2>3, <3>2
        <3> QED BY <2>2, <3>3 DEF Since
    <2>7. ~ Present(o, c)
        <3> SUFFICES ASSUME NEW k \in DOMAIN file, file[k].of = o, Rank(file[k]) = c
                     PROVE  FALSE
            BY DEF Present
        <3>1. Before(file[j], file[k]) /\ Before(file[k], file[p])
            BY <2>4 DEF Before
        <3>2. j < k /\ k < p
            BY <1>1, <2>3, <3>1
        <3>3. k \in (j + 1)..(p - 1) /\ file[k].name = n
            BY <1>1, <2>2, <2>3, <3>2
        <3> QED BY <2>2, <3>3
    <2>8. 14 \in DOMAIN Block /\ c \in DOMAIN Block
        BY <2>4, BlockFacts
    <2>9. q \in Kin /\ Passed(q, 14)
        BY <1>1, <2>8, BehindFacts
    <2>10. o \in Kin /\ Passed(o, c)
        <3>1. c <= Rank(file[p])
            BY <2>4
        <3> QED BY <1>1, <2>8, <3>1, BehindFacts
    <2>11. PICK r \in 0..Len(rows), d \in DOMAIN Block : FullBut(r, d)
        BY DEF FullInv
    <2>12. q = r /\ 14 = d
        BY <2>6, <2>8, <2>9, <2>11 DEF FullBut
    <2>13. o = r /\ c = d
        BY <2>7, <2>8, <2>10, <2>11 DEF FullBut
    <2> QED BY <2>4, <2>12, <2>13
<1> QED BY <1>2, <1>3

\* With no line lost a record has all the lines of its adapter.
LEMMA NoneMissing ==
    ASSUME TypeOK, ShapeInv, OrderInv, FullInv, CurInv, pc = "read", lost = 0,
           NEW p, NEW x, NEW new, Taken(p, x, new), x.name = "ServiceName",
           NEW n \in Names
    PROVE  new[n] # Unset
<1>1. /\ p \in DOMAIN file /\ p = pos /\ x = file[p] /\ p \in Nat
      /\ FieldOf(x) # Unset /\ new[x.name] = FieldOf(x)
      /\ \A m \in Names \ {x.name} : new[m] = cur[m]
    BY DEF Taken
<1>2. CASE n = x.name
    BY <1>1, <1>2
<1>3. CASE n # x.name
    <2>1. PICK b \in DOMAIN Block : n = Block[b].name
        BY DEF Names
    <2>2. b \in 1..14 /\ b # 14
        BY <1>3, <2>1, BlockFacts
    <2>3. /\ \A i \in DOMAIN file : /\ i \in Nat /\ file[i].of \in Nat /\ Rank(file[i]) \in 1..14
                                    /\ file[i].name = Block[Rank(file[i])].name
                                    /\ file[i].name = "ServiceName" <=> Rank(file[i]) = 14
          /\ \A i, k \in DOMAIN file : i < k <=> Before(file[i], file[k])
        BY OrderFacts
    <2> DEFINE o == file[p].of
    <2>4. Rank(file[p]) = 14 /\ o \in Nat
        BY <1>1, <2>3
    <2>5. o \in Kin /\ Passed(o, b)
        <3>1. b <= Rank(file[p])
            BY <2>2, <2>4
        <3> QED BY <1>1, <3>1, BehindFacts
    <2>6. PICK r \in 0..Len(rows), d \in DOMAIN Block : FullBut(r, d)
        BY DEF FullInv
    <2>7. PICK j \in DOMAIN file : file[j].of = o /\ Rank(file[j]) = b
        BY <2>5, <2>6 DEF FullBut, Present
    <2>8. j < p
        <3>1. Before(file[j], file[p])
            BY <2>2, <2>4, <2>7 DEF Before
        <3> QED BY <1>1, <2>3, <3>1
    <2>9. Since(j)
        <3> SUFFICES ASSUME NEW k \in j..(pos - 1), k \in DOMAIN file, file[k].name = "ServiceName"
                     PROVE  FALSE
            BY DEF Since
        <3>1. Rank(file[k]) = 14 /\ k < p /\ (j < k \/ j = k)
            BY <1>1, <2>3
        <3>2. Before(file[k], file[p])
            BY <1>1, <2>3, <3>1
        <3>3. file[k].of < o
            BY <2>3, <2>4, <3>1, <3>2 DEF Before
        <3>4. j < k
            BY <2>2, <2>7, <3>1
        <3>5. Before(file[j], file[k])
            BY <2>3, <3>4
        <3> QED BY <2>3, <2>4, <2>7, <3>3, <3>5 DEF Before
    <2>10. cur[file[j].name] # Unset
        BY <1>1, <2>8, <2>9 DEF CurInv, Reading
    <2>11. file[j].name = n
        BY <2>1, <2>3, <2>7
    <2> QED BY <1>1, <1>3, <2>10, <2>11
<1> QED BY <1>2, <1>3

\* The records after an item is read: the old ones, and the new one at a ServiceName.
LEMMA TakenRecords ==
    ASSUME ShapeInv, NEW p, NEW x, NEW new, Taken(p, x, new)
    PROVE  /\ Len(adapters) \in Nat
           /\ \A r \in Records : r \in Records' /\ adapters'[r] = adapters[r]
           /\ \A r \in Records' : \/ r \in Records
                                  \/ /\ r = Len(adapters) + 1 /\ adapters'[r] = new
                                     /\ x.name = "ServiceName"
           /\ x.name = "ServiceName" =>
                  Len(adapters) + 1 \in Records' /\ adapters'[Len(adapters) + 1] = new
<1>1. adapters \in Seq([Names -> Fields]) /\ new \in [Names -> Fields] /\ Len(adapters) \in Nat
    BY DEF ShapeInv, Taken
<1>2. CASE adapters' = adapters /\ x.name # "ServiceName"
    BY <1>1, <1>2 DEF Records
<1>3. CASE adapters' = Append(adapters, new) /\ x.name = "ServiceName"
    <2>1. Len(adapters) + 1 \in 1..(Len(adapters) + 1)
        BY <1>1
    <2> QED BY <1>1, <1>3, <2>1, RecordAdded DEF Records
<1> QED BY <1>2, <1>3 DEF Taken

LEMMA ReadRecord ==
    ASSUME TypeOK, ShapeInv, PhaseInv, OrderInv, FullInv, SkipInv, WholeInv, CurInv, RecordInv,
           Restore
    PROVE  RecordInv'
<1>1. /\ file' = file /\ pc \in {"reopen", "read"} /\ lost' = lost
      /\ \A i \in DOMAIN file : i \in Nat /\ ~ (i < 1)
    BY RestoreFrame DEF ShapeInv
<1> SUFFICES ASSUME lost < 2
             PROVE  /\ \A j \in DOMAIN file : j < pos' /\ file[j].name = "ServiceName" =>
                          \E r \in Records' : Owner(r)' = file[j].of
                    /\ lost = 0 => \A r \in Records' : Set(r)' = Names
                    /\ pc' = "done" /\ opened' => pos' > Len(file)
    BY <1>1 DEF RecordInv
<1>2. CASE pc = "reopen"
    <2>1. adapters' = << >> /\ pos' = 1 /\ pc' = "read"
        BY <1>2, RestoreKinds DEF PhaseInv, Reading, ReadOther, ReadTake, ReadLine
    <2>2. Records' = {}
        BY <2>1 DEF Records
    <2> QED BY <1>1, <2>1, <2>2
<1>3. CASE pc = "read" /\ ReadOther
    <2>1. UNCHANGED <<cur, adapters, pos>> /\ (pc' = "done" /\ opened' => pos > Len(file))
        BY <1>3 DEF ReadOther
    <2>2. Records' = Records /\ \A r : Owner(r)' = Owner(r) /\ Set(r)' = Set(r)
        BY <2>1 DEF Records, Owner, Set
    <2> QED BY <1>3, <2>1, <2>2 DEF RecordInv, Reading
<1>4. CASE ReadTake
    <2>1. PICK p, x, new : Taken(p, x, new)
        BY <1>4, TakenFacts
    <2>2. /\ p \in DOMAIN file /\ p = pos /\ x = file[p] /\ p \in Nat /\ pos' = p + 1
          /\ FieldOf(x).of = x.of /\ new[x.name] = FieldOf(x)
          /\ pc = "read" /\ pc' = "read"
        BY <1>4, <2>1 DEF Taken, ReadTake, ReadLine
    <2>3. /\ \A r \in Records : r \in Records' /\ adapters'[r] = adapters[r]
          /\ \A r \in Records' : \/ r \in Records
                                 \/ /\ r = Len(adapters) + 1 /\ adapters'[r] = new
                                    /\ x.name = "ServiceName"
          /\ x.name = "ServiceName" =>
                 Len(adapters) + 1 \in Records' /\ adapters'[Len(adapters) + 1] = new
        BY <2>1, TakenRecords
    <2>4. \A r \in Records : Owner(r)' = Owner(r) /\ Set(r)' = Set(r)
        BY <2>3 DEF Owner, Set
    <2>5. ASSUME NEW j \in DOMAIN file, j < pos', file[j].name = "ServiceName"
          PROVE  \E r \in Records' : Owner(r)' = file[j].of
        <3>1. j < p \/ j = p
            BY <1>1, <2>2, <2>5
        <3>2. CASE j < p
            BY <2>2, <2>3, <2>4, <2>5, <3>2 DEF RecordInv, Reading
        <3>3. CASE j = p
            <4>1. PICK r \in Records' : adapters'[r] = new
                BY <2>2, <2>3, <2>5, <3>3
            <4>2. Owner(r)' = file[j].of
                BY <2>2, <2>5, <3>3, <4>1 DEF Owner
            <4> QED BY <4>2
        <3> QED BY <3>1, <3>2, <3>3
    <2>6. ASSUME lost = 0, NEW r \in Records' PROVE Set(r)' = Names
        <3>1. CASE r \in Records
            BY <2>2, <2>4, <2>6, <3>1 DEF RecordInv, Reading
        <3>2. CASE adapters'[r] = new /\ x.name = "ServiceName"
            <4>1. \A n \in Names : new[n] # Unset
                BY <2>1, <2>2, <2>6, <3>2, NoneMissing
            <4> QED BY <3>2, <4>1 DEF Set
        <3> QED BY <2>3, <3>1, <3>2
    <2> QED BY <2>2, <2>5, <2>6
<1> QED BY <1>1, <1>2, <1>3, <1>4, RestoreKinds

LEMMA ReadMixing ==
    ASSUME TypeOK, ShapeInv, OrderInv, FullInv, SkipInv, WholeInv, CurInv, NoMixing, Restore
    PROVE  NoMixing'
<1>1. lost' = lost
    BY RestoreFrame
<1> SUFFICES ASSUME lost < 2, NEW r \in Records', NEW n \in Set(r)'
             PROVE  adapters'[r][n].of = Owner(r)'
    BY <1>1 DEF NoMixing
<1>2. CASE ReadOther
    BY <1>2 DEF ReadOther, NoMixing, Records, Set, Owner
<1>3. CASE ReadTake
    <2>1. PICK p, x, new : Taken(p, x, new)
        BY <1>3, TakenFacts
    <2>2. \/ r \in Records /\ adapters'[r] = adapters[r]
          \/ adapters'[r] = new /\ x.name = "ServiceName"
        BY <2>1, TakenRecords
    <2>3. CASE r \in Records /\ adapters'[r] = adapters[r]
        BY <2>3 DEF NoMixing, Set, Owner
    <2>4. CASE adapters'[r] = new /\ x.name = "ServiceName"
        <3>1. n \in Names /\ new[n] # Unset
            BY <2>4 DEF Set
        <3>2. pc = "read"
            BY <1>3 DEF ReadTake, ReadLine
        <3>3. new[n].of = x.of
            BY <2>1, <2>4, <3>1, <3>2, NotMixed
        <3>4. Owner(r)' = x.of
            BY <2>1, <2>4 DEF Owner, Taken
        <3> QED BY <2>4, <3>3, <3>4
    <2> QED BY <2>2, <2>3, <2>4
<1> QED BY <1>2, <1>3, RestoreKinds

\* The owners of the records go up, as those of the items with their ServiceNames do.
LEMMA ReadOneSave ==
    ASSUME TypeOK, ShapeInv, OrderInv, SkipInv, WholeInv, FieldInv, OneSave, Restore
    PROVE  OneSave'
<1> SUFFICES ASSUME NEW r \in Records', r > 1
             PROVE  Owner(r - 1)' < Owner(r)' /\ Owner(r - 1)' # 0
    BY DEF OneSave
<1>1. CASE ReadOther
    BY <1>1 DEF ReadOther, OneSave, Records, Owner
<1>2. CASE ReadTake
    <2>1. PICK p, x, new : Taken(p, x, new)
        BY <1>2, TakenFacts
    <2>2. /\ Len(adapters) \in Nat
          /\ \A s \in Records : adapters'[s] = adapters[s]
          /\ \/ r \in Records
             \/ r = Len(adapters) + 1 /\ adapters'[r] = new /\ x.name = "ServiceName"
        BY <2>1, TakenRecords
    <2>3. CASE r \in Records
        <3>1. r - 1 \in Records
            BY <2>2, <2>3 DEF Records
        <3> QED BY <2>2, <2>3, <3>1 DEF OneSave, Owner
    <2>4. CASE r = Len(adapters) + 1 /\ adapters'[r] = new /\ x.name = "ServiceName"
        <3>1. r - 1 \in Records /\ r - 1 = Len(adapters)
            BY <2>2, <2>4 DEF Records
        <3>2. /\ p \in DOMAIN file /\ p = pos /\ x = file[p] /\ p \in Nat
              /\ FieldOf(x).of = x.of /\ new[x.name] = FieldOf(x)
            BY <2>1 DEF Taken
        <3>3. Owner(r)' = x.of /\ Owner(r - 1)' = Owner(r - 1)
            BY <2>2, <2>4, <3>1, <3>2 DEF Owner
        <3>4. ReadFrom("ServiceName", adapters[r - 1]["ServiceName"])
            BY <1>2, <3>1 DEF FieldInv, ReadTake, ReadLine, Reading
        <3>5. PICK j \in DOMAIN file : /\ j < p /\ file[j].name = "ServiceName"
                                       /\ file[j].of = Owner(r - 1)
            BY <3>2, <3>4 DEF ReadFrom, Owner
        <3>6. /\ Before(file[j], file[p]) /\ Rank(file[j]) = 14 /\ Rank(file[p]) = 14
              /\ file[j].of \in Nat /\ file[p].of \in Nat
            BY <2>4, <3>2, <3>5, OrderFacts
        <3>7. file[j].of < file[p].of
            BY <3>6 DEF Before
        <3>8. file[j].of # 0
            BY <3>2, <3>6, <3>7 DEF OrderInv
        <3> QED BY <3>2, <3>3, <3>5, <3>7, <3>8
    <2> QED BY <2>2, <2>3, <2>4
<1> QED BY <1>1, <1>2, RestoreKinds

LEMMA ReadThrows ==
    ASSUME TypeOK, ShapeInv, SkipInv, WholeInv, FitInv, OnlyCutFilesThrow, Restore
    PROVE  OnlyCutFilesThrow'
<1>1. /\ UNCHANGED <<net, row, file, faults, lost, cut>> /\ rows' = rows
      /\ lost \in Nat
    BY RestoreFrame DEF rows, TypeOK
<1> SUFFICES ASSUME pc' = "failed", ~ cut, ~ (lost > 0), AllFit PROVE FALSE
    <2>1. SUFFICES ASSUME pc' = "failed", ~ cut, ~ (lost > 0)
                   PROVE  \E a \in Range(rows) \cup Backups : \E n \in Names : a.size[n] > Buffer
        BY <1>1, <2>1 DEF OnlyCutFilesThrow
    <2>2. \A a \in Range(rows) \cup Backups : \A n \in Names : a.size[n] \in Nat
        <3> SUFFICES ASSUME NEW a \in Range(rows) \cup Backups, NEW n \in Names
                     PROVE  a.size[n] \in Nat
            OBVIOUS
        <3>1. a \in Known
            BY DEF Known, Range, TypeOK, rows
        <3>2. WellFormed(a)
            BY <3>1, BackupsAssumption, NetworksAssumption DEF Known, Range
        <3> QED BY <3>2 DEF WellFormed
    <2> QED BY <2>1, <2>2, BufferAssumption DEF AllFit
<1>2. lost = 0 /\ lost < 2
    BY <1>1
<1>3. pos \in DOMAIN file /\ ~ file[pos].cr
    BY <1>2, RestoreKinds DEF ReadOther, ReadTake
<1> QED BY <1>2, <1>3 DEF FitInv

-------------------------------------------------------------------------------
(* The beginning *)

\* A backup has the fourteen lines of its adapter.
LEMMA BackupFacts ==
    ASSUME NEW a \in Backups
    PROVE  /\ Lines(a, 0) \in Seq(FileItems) /\ DOMAIN Lines(a, 0) = 1..14
           /\ \A i \in 1..14 :
                  LET x == Lines(a, 0)[i]
                  IN  /\ x.of = 0 /\ x.name = Block[i].name /\ x.type = Block[i].type
                      /\ Rank(x) = i
                      /\ x.lf => x.cr /\ x.chars > 1
                      /\ x.lf \/ x.chars = Buffer - 1
                      /\ AllFit => x.cr
<1>1. DOMAIN Block = 1..14 /\ 0 \in Nat /\ a \in Known
    BY BlockFacts DEF Known
<1>2. \A i \in 1..14 :
          Lines(a, 0)[i] = Item(0, Block[i], Text(a, Block[i]), a.size[Block[i].name])
    BY <1>1 DEF Lines
<1>3. ASSUME NEW i \in 1..14
      PROVE  LET x == Lines(a, 0)[i]
             IN  /\ x \in FileItems
                 /\ x.of = 0 /\ x.name = Block[i].name /\ x.type = Block[i].type
                 /\ Rank(x) = i
                 /\ x.lf => x.cr /\ x.chars > 1
                 /\ x.lf \/ x.chars = Buffer - 1
                 /\ AllFit => x.cr
    <2> DEFINE x == Lines(a, 0)[i]
    <2>1. i \in DOMAIN Block
        BY <1>1
    <2>2. /\ Text(a, Block[i]) \in Texts
          /\ a.size[Block[i].name] \in Nat /\ a.size[Block[i].name] >= ShortLine
        BY <1>1, <2>1, AdapterFacts
    <2>3. /\ x \in FileItems
          /\ x.of = 0 /\ x.name = Block[i].name /\ x.type = Block[i].type
          /\ x.lf => x.cr /\ x.chars > 1
          /\ x.lf \/ x.chars = Buffer - 1
          /\ a.size[Block[i].name] <= Buffer => x.cr
        <3>1. PICK of, text, size : /\ of = 0 /\ text = Text(a, Block[i]) /\ size = a.size[Block[i].name]
            OBVIOUS
        <3>2. x = Item(of, Block[i], text, size)
            BY <1>2, <3>1
        <3>3. of \in Nat /\ text \in Texts /\ size \in Nat /\ size >= ShortLine
            BY <2>2, <3>1
        <3> HIDE DEF x
        <3>4. /\ x \in FileItems
              /\ x.of = of /\ x.name = Block[i].name /\ x.type = Block[i].type
              /\ x.lf => x.cr /\ x.chars > 1
              /\ x.lf \/ x.chars = Buffer - 1
              /\ size <= Buffer => x.cr
            BY <2>1, <3>2, <3>3, ItemFacts
        <3> QED BY <3>1, <3>4
    <2>4. Rank(x) = i
        BY <2>1, <2>3, RankFacts
    <2>5. AllFit => a.size[Block[i].name] <= Buffer
        BY <2>1, BlockFacts DEF AllFit
    <2> HIDE DEF x
    <2>6. /\ x \in FileItems
          /\ x.of = 0 /\ x.name = Block[i].name /\ x.type = Block[i].type
          /\ Rank(x) = i
          /\ x.lf => x.cr /\ x.chars > 1
          /\ x.lf \/ x.chars = Buffer - 1
          /\ AllFit => x.cr
        BY <2>3, <2>4, <2>5
    <2> QED BY <2>6 DEF x
<1>4. DOMAIN Lines(a, 0) = 1..14 /\ Lines(a, 0) = [i \in 1..14 |-> Lines(a, 0)[i]]
    BY <1>1 DEF Lines
<1> DEFINE s == Lines(a, 0)
<1>5. \A i \in 1..14 : s[i] \in FileItems
    BY <1>3
<1>6. s = [i \in 1..14 |-> s[i]]
    BY <1>4
<1> HIDE DEF s
<1>7. s \in Seq(FileItems)
    BY <1>5, <1>6
<1> QED BY <1>3, <1>4, <1>7 DEF s

LEMMA InitInv ==
    ASSUME Init
    PROVE  ShapeInv /\ IInv
<1>1. /\ net \in DOMAIN Networks /\ pc = "open" /\ opened = FALSE
      /\ row = 0 /\ pos = 1 /\ skip = 0 /\ cur = Fresh /\ adapters = << >>
      /\ faults = 0 /\ lost = 0 /\ cut = FALSE
    BY DEF Init
<1>2. Len(rows) \in Nat /\ 0 \in 0..Len(rows) /\ DOMAIN rows = 1..Len(rows)
    BY <1>1, RowsFacts
<1>3. file = << >> \/ \E a \in Backups : file = Lines(a, 0)
    BY DEF Init
<1>4. /\ file \in Seq(FileItems)
      /\ DOMAIN file = {} \/ DOMAIN file = 1..14
      /\ \A i \in DOMAIN file : i \in 1..14
      /\ \A i \in DOMAIN file : /\ file[i].of = 0
                                /\ file[i].name = Block[i].name /\ file[i].type = Block[i].type
                                /\ Rank(file[i]) = i
                                /\ file[i].lf => file[i].cr /\ file[i].chars > 1
                                /\ file[i].lf \/ file[i].chars = Buffer - 1
                                /\ AllFit => file[i].cr
    <2>1. CASE file = << >>
        BY <2>1
    <2>2. ASSUME NEW a \in Backups, file = Lines(a, 0)
          PROVE  /\ file \in Seq(FileItems) /\ DOMAIN file = 1..14
                 /\ \A i \in DOMAIN file :
                        /\ file[i].of = 0
                        /\ file[i].name = Block[i].name /\ file[i].type = Block[i].type
                        /\ Rank(file[i]) = i
                        /\ file[i].lf => file[i].cr /\ file[i].chars > 1
                        /\ file[i].lf \/ file[i].chars = Buffer - 1
                        /\ AllFit => file[i].cr
        <3> DEFINE Whole(x, i) ==
                       /\ x.of = 0 /\ x.name = Block[i].name /\ x.type = Block[i].type
                       /\ Rank(x) = i
                       /\ x.lf => x.cr /\ x.chars > 1
                       /\ x.lf \/ x.chars = Buffer - 1
                       /\ AllFit => x.cr
        <3>1. Lines(a, 0) \in Seq(FileItems) /\ DOMAIN Lines(a, 0) = 1..14
            BY BackupFacts
        <3>2. \A i \in 1..14 : Whole(Lines(a, 0)[i], i)
            BY BackupFacts
        <3>3. /\ file \in Seq(FileItems) /\ DOMAIN file = 1..14
              /\ \A i \in 1..14 : Whole(file[i], i)
            <4> HIDE DEF Whole
            <4> QED BY <2>2, <3>1, <3>2
        <3> QED BY <3>3
    <2> QED BY <1>3, <2>1, <2>2
<1>5. Records = {} /\ ~ Reading /\ ~ Writing
    BY <1>1 DEF Records, Reading, Writing
<1>6. ShapeInv
    <2>1. << >> \in Seq([Names -> Fields])
        OBVIOUS
    <2> QED BY <1>1, <1>4, <2>1, FreshFacts DEF ShapeInv
<1>7. TypeOK
    <2>1. \A i \in DOMAIN file : /\ file[i].of \in 0..Len(rows)
                                 /\ file[i].name \in Names
                                 /\ file[i].chars \in 1..(Buffer - 1)
        <3> SUFFICES ASSUME NEW i \in DOMAIN file
                     PROVE  /\ file[i].of \in 0..Len(rows)
                            /\ file[i].name \in Names
                            /\ file[i].chars \in 1..(Buffer - 1)
            OBVIOUS
        <3>1. file[i] \in FileItems
            BY <1>4
        <3> QED BY <1>2, <1>4, <3>1 DEF FileItems
    <2>2. \A n \in Names : cur[n].of \in -1..Len(rows)
        BY <1>1, <1>2, FreshFacts
    <2>3. 0 \in 0..(Buffer - 1) /\ 0 \in 0..MaxFaults /\ 0 \in 0..2 * MaxFaults
        <3>1. 2 * MaxFaults \in Nat
            BY FaultsAssumption
        <3> QED BY <3>1, BufferAssumption, FaultsAssumption
    <2>4. opened \in BOOLEAN /\ cut \in BOOLEAN
        BY <1>1, Zenon
    <2>7. pc = "open" /\ pos \in Nat \ {0}
        BY <1>1
    <2>5. row \in 0..Len(rows) /\ skip \in 0..(Buffer - 1)
        BY <1>1, <1>2, <2>3
    <2>6. faults \in 0..MaxFaults /\ lost \in 0..2 * MaxFaults
        BY <1>1, <2>3
    <2> QED BY <1>1, <1>5, <2>1, <2>2, <2>4, <2>5, <2>6, <2>7 DEF TypeOK
<1>8. PhaseInv
    BY <1>1 DEF PhaseInv, Reading, Writing, Untouched
<1>9. OrderInv
    <2>1. \A i, j \in DOMAIN file : i < j => Before(file[i], file[j])
        BY <1>4 DEF Before
    <2>2. \A i \in DOMAIN file : i \in DOMAIN Block
        BY <1>4, BlockFacts
    <2> QED BY <1>4, <1>5, <2>1, <2>2 DEF OrderInv
<1>10. TextInv /\ WholeInv /\ FitInv
    BY <1>4 DEF TextInv, WholeInv, FitInv
<1>11. FullInv
    <2>1. 1 \in DOMAIN Block
        BY BlockFacts
    <2>2. FullBut(0, 1)
        <3> SUFFICES ASSUME NEW p \in Kin, NEW c \in DOMAIN Block, Passed(p, c)
                     PROVE  Present(p, c)
            BY DEF FullBut
        <3>1. p = 0 /\ DOMAIN file = 1..14
            BY <1>1, <1>4 DEF Kin
        <3>2. c \in DOMAIN file
            BY <3>1, BlockFacts
        <3> QED BY <1>4, <3>1, <3>2 DEF Present
    <2> QED BY <1>2, <2>1, <2>2 DEF FullInv
<1>12. SavedInv
    BY <1>1, <1>4, <1>5 DEF SavedInv
<1>13. SkipInv /\ FieldInv /\ CurInv /\ RecordInv
    BY <1>1, <1>5 DEF SkipInv, FieldInv, CurInv, RecordInv
<1>14. OneSave /\ NoMixing /\ OnlyCutFilesThrow
    BY <1>1, <1>5 DEF OneSave, NoMixing, OnlyCutFilesThrow
<1> QED BY <1>6, <1>7, <1>8, <1>9, <1>10, <1>11, <1>12, <1>13, <1>14 DEF IInv

LEMMA SaveInv ==
    ASSUME ShapeInv, IInv, Save
    PROVE  ShapeInv' /\ IInv'
<1>1. /\ TypeOK /\ PhaseInv /\ FileInv
      /\ OneSave /\ NoMixing /\ OnlyCutFilesThrow
    BY DEF IInv, FileInv
<1>2. UNCHANGED <<cur, adapters>> /\ ~ Reading /\ ~ Reading'
    BY <1>1, SaveFrame
<1>3. ShapeInv' /\ TypeOK' /\ PhaseInv' /\ FileInv'
    BY <1>1, SaveShape, SaveType, SavePhase, SaveFile
<1>4. SkipInv' /\ FieldInv' /\ CurInv' /\ RecordInv'
    BY <1>2 DEF SkipInv, FieldInv, CurInv, RecordInv, Reading
<1>5. Records' = {}
    BY <1>1, <1>2 DEF PhaseInv, Records
<1>6. OneSave' /\ NoMixing' /\ OnlyCutFilesThrow'
    BY <1>2, <1>5 DEF OneSave, NoMixing, OnlyCutFilesThrow, Reading
<1> QED BY <1>3, <1>4, <1>6 DEF IInv, FileInv

LEMMA RestoreInv ==
    ASSUME ShapeInv, IInv, Restore
    PROVE  ShapeInv' /\ IInv'
<1>1. /\ TypeOK /\ PhaseInv /\ FileInv
      /\ OrderInv /\ WholeInv /\ FitInv /\ FullInv
      /\ SkipInv /\ FieldInv /\ CurInv /\ RecordInv
      /\ OneSave /\ NoMixing /\ OnlyCutFilesThrow
    BY DEF IInv, FileInv
<1>2. ShapeInv' /\ TypeOK' /\ PhaseInv' /\ FileInv'
    BY <1>1, ReadShape, ReadType, ReadPhase, RestoreFile
<1>3. SkipInv' /\ FieldInv' /\ CurInv' /\ RecordInv'
    BY <1>1, ReadSkip, ReadField, ReadCur, ReadRecord
<1>4. OneSave' /\ NoMixing' /\ OnlyCutFilesThrow'
    BY <1>1, ReadOneSave, ReadMixing, ReadThrows
<1> QED BY <1>2, <1>3, <1>4 DEF IInv, FileInv

LEMMA StutterInv ==
    ASSUME ShapeInv, IInv, UNCHANGED vars
    PROVE  ShapeInv' /\ IInv'
<1>1. UNCHANGED <<net, pc, opened, row, pos, skip, file, cur, adapters, faults, lost, cut>>
    BY DEF vars, place, parsed, history
<1>2. rows' = rows /\ Records' = Records
    BY <1>1 DEF rows, Records
<1>3. \A r : Owner(r)' = Owner(r) /\ Set(r)' = Set(r)
    BY <1>1 DEF Owner, Set
<1>4. \A o, b : Present(o, b)' <=> Present(o, b)
    BY <1>1 DEF Present
<1>5. Reading' = Reading /\ Writing' = Writing /\ Untouched' = Untouched
    BY <1>1 DEF Reading, Writing, Untouched
<1>6. ShapeInv' /\ TypeOK' /\ PhaseInv' /\ OrderInv'
    BY <1>1, <1>2, <1>3, <1>5 DEF ShapeInv, IInv, TypeOK, PhaseInv, OrderInv
<1>7. TextInv' /\ WholeInv' /\ SkipInv' /\ FitInv'
    BY <1>1, <1>2 DEF IInv, TextInv, WholeInv, SkipInv, FitInv, AllFit
<1>8. FullInv'
    <2>1. \A p \in Kin', c \in DOMAIN Block : Passed(p, c)' => p \in Kin /\ Passed(p, c)
        BY <1>1, <1>5 DEF Kin, Passed
    <2> QED BY <1>1, <2>1, FullKept DEF IInv
<1>9. SavedInv'
    <2>1. \A o : Static(o)' <=> Static(o)
        BY <1>2 DEF Static
    <2> QED BY <1>1, <1>2, <1>4, <1>5, <2>1 DEF IInv, SavedInv
<1>10. FieldInv' /\ CurInv' /\ RecordInv'
    <2>1. \A n, field : ReadFrom(n, field)' <=> ReadFrom(n, field)
        BY <1>1 DEF ReadFrom
    <2>2. \A j : Since(j)' <=> Since(j)
        BY <1>1 DEF Since
    <2>3. FieldInv'
        BY <1>1, <1>2, <1>3, <1>5, <2>1 DEF IInv, FieldInv
    <2>4. CurInv'
        BY <1>1, <1>5, <2>2 DEF IInv, CurInv
    <2>5. RecordInv'
        BY <1>1, <1>2, <1>3, <1>5 DEF IInv, RecordInv
    <2> QED BY <2>3, <2>4, <2>5
<1>11. OneSave' /\ NoMixing' /\ OnlyCutFilesThrow'
    BY <1>1, <1>2, <1>3 DEF IInv, OneSave, NoMixing, OnlyCutFilesThrow
<1> QED BY <1>6, <1>7, <1>8, <1>9, <1>10, <1>11 DEF IInv

-------------------------------------------------------------------------------
(* What the records hold *)

ListNames == {"IPAddress", "IPSubnet", "DefaultIPGateway"}

\* The lists told apart by family are arrays, two of them those of addresses and masks.
LEMMA ListLines ==
    /\ \A b \in DOMAIN Block : Block[b].name \in ListNames => Block[b].type = "VT_ARRAY"
    /\ \E b \in DOMAIN Block : Block[b].name = "IPAddress"
    /\ \E b \in DOMAIN Block : Block[b].name = "IPSubnet"
<1>1. Block[3] = [name |-> "IPAddress", type |-> "VT_ARRAY"]
    BY DEF Block, LineOf
<1>2. Block[4] = [name |-> "IPSubnet", type |-> "VT_ARRAY"]
    BY DEF Block, LineOf
<1>3. Block[7] = [name |-> "DefaultIPGateway", type |-> "VT_ARRAY"]
    BY DEF Block, LineOf
<1>4. 3 \in DOMAIN Block /\ 4 \in DOMAIN Block /\ 7 \in DOMAIN Block
    BY BlockFacts
<1>5. ASSUME NEW b \in DOMAIN Block, Block[b].name \in ListNames
      PROVE  Block[b].type = "VT_ARRAY"
    <2>1. b = 3 \/ b = 4 \/ b = 7
        BY <1>1, <1>2, <1>3, <1>4, <1>5, BlockFacts DEF ListNames
    <2> QED BY <1>1, <1>2, <1>3, <2>1
<1>6. Block[3].name = "IPAddress" /\ Block[4].name = "IPSubnet"
    BY <1>1, <1>2
<1> QED BY <1>4, <1>5, <1>6

\* The two passes over a list: the second sees its last element only.
LEMMA SplitFacts ==
    ASSUME NEW text
    PROVE  /\ SplitByFamily(text)[1] = Only(text, IPv4)
           /\ SplitByFamily(text)[2] =
                  IF text[Len(text)] \in IPv4 THEN << >> ELSE << text[Len(text)] >>
<1> DEFINE v == text[Len(text)]
<1>1. Only(<< v >>, {v} \ IPv4) = IF v \in IPv4 THEN << >> ELSE << v >>
    <2>1. v \in {v} \ IPv4 <=> v \notin IPv4
        OBVIOUS
    <2> HIDE DEF v
    <2> QED BY <2>1, OnlyOne
<1>2. SplitByFamily(text) = << Only(text, IPv4), Only(<< v >>, {v} \ IPv4) >>
    BY DEF SplitByFamily, Last
<1> HIDE DEF v
<1>3. SplitByFamily(text)[1] = Only(text, IPv4) /\ SplitByFamily(text)[2] = Only(<< v >>, {v} \ IPv4)
    BY <1>2
<1> QED BY <1>1, <1>3 DEF v

\* A field of a record was made of the line of its name that the adapter of the record
\* has in the file.
LEMMA FieldText ==
    ASSUME ShapeInv, IInv, lost < 2, NEW r \in Records, NEW n \in Set(r), Owner(r) # 0
    PROVE  /\ Owner(r) \in 1..Len(rows) /\ rows[Owner(r)] \in Known
           /\ \E b \in DOMAIN Block, x \in FileItems :
                  /\ Block[b].name = n /\ x.name = n /\ x.type = Block[b].type
                  /\ adapters[r][n].vectors = Vectors(x)
                  /\ \/ x.text = Text(rows[Owner(r)], Block[b])
                     \/ faults > 0 /\ x.text = Unread(x.type)
<1>1. Reading
    <2>1. ~ Reading => adapters = << >>
        BY DEF IInv, PhaseInv
    <2> QED BY <2>1 DEF Records
<1>2. PICK j \in DOMAIN file :
          file[j].name = n /\ adapters[r][n] = [of |-> file[j].of, vectors |-> Vectors(file[j])]
    BY <1>1 DEF IInv, FieldInv, ReadFrom
<1>3. adapters[r][n].vectors = Vectors(file[j]) /\ adapters[r][n].of = file[j].of
    BY <1>2
<1>4. file[j].of = Owner(r)
    BY <1>3 DEF IInv, NoMixing
<1>5. Owner(r) \in 0..Len(rows) /\ Len(rows) \in Nat
    BY RowsFacts DEF IInv, TypeOK
<1>6. Owner(r) \in 1..Len(rows)
    BY <1>5
<1>7. rows[Owner(r)] \in Known
    BY <1>6, RowsFacts DEF IInv, TypeOK
<1>8. file[j] \in FileItems
    BY DEF ShapeInv
<1>9. PICK b \in DOMAIN Block : file[j].name = Block[b].name /\ file[j].type = Block[b].type
    BY DEF IInv, OrderInv
<1>10. Rank(file[j]) = b
    BY <1>9, RankFacts
<1>11. \/ file[j].text = Text(rows[file[j].of], Block[Rank(file[j])])
       \/ faults > 0 /\ file[j].text = Unread(file[j].type)
    BY <1>4, <1>5, <1>6 DEF IInv, TextInv
<1> QED BY <1>2, <1>3, <1>4, <1>6, <1>7, <1>8, <1>9, <1>10, <1>11

\* The lists of an adapter.
LEMMA ListFacts ==
    ASSUME NEW a \in Known, NEW b \in DOMAIN Block, Block[b].type = "VT_ARRAY"
    PROVE  /\ Text(a, Block[b]) = a.value[Block[b].name]
           /\ a.value[Block[b].name] \in Seq(STRING) /\ a.value[Block[b].name] # << >>
<1>1. a.value[Block[b].name] \in Seq(STRING) \ {<< >>}
    BY AdapterFacts DEF WellFormed
<1> QED BY <1>1 DEF Text

\* A list that could not be read leaves at most the empty element of either family.
LEMMA UnreadList ==
    /\ Unread("VT_ARRAY") = Empty
    /\ \A f \in 1..2 : SplitByFamily(Empty)[f] \in {<< >>, Empty}
<1>1. Unread("VT_ARRAY") = Empty
    BY DEF Unread
<1>2. Len(Empty) = 1 /\ Empty[1] = "" /\ Empty = << "" >>
    BY DEF Empty
<1>3. Only(Empty, IPv4) \in {<< >>, Empty}
    BY <1>2, OnlyOne
<1>4. SplitByFamily(Empty)[1] \in {<< >>, Empty} /\ SplitByFamily(Empty)[2] \in {<< >>, Empty}
    BY <1>2, <1>3, SplitFacts
<1> QED BY <1>1, <1>4

\* The addresses and masks of an adapter are parallel, family by family.
LEMMA ParallelFacts ==
    ASSUME NEW a \in Known
    PROVE  Alike(a.value["IPAddress"], a.value["IPSubnet"], IPv4)
<1>1. WellFormed(a)
    BY AdapterFacts, BlockFacts
<1> QED BY <1>1 DEF WellFormed, Alike

\* What the passes make of two such lists is parallel.
LEMMA SplitParallel ==
    ASSUME NEW V, NEW a \in Seq(V), NEW m \in Seq(V), Alike(a, m, IPv4), a # << >>,
           NEW f \in 1..2, SplitByFamily(a)[f] # << >>, SplitByFamily(m)[f] # << >>
    PROVE  /\ Len(SplitByFamily(a)[f]) = Len(SplitByFamily(m)[f])
           /\ \A k \in DOMAIN SplitByFamily(a)[f] : \E j \in DOMAIN a :
                  SplitByFamily(a)[f][k] = a[j] /\ SplitByFamily(m)[f][k] = m[j]
<1>1. DOMAIN a = 1..Len(a) /\ Len(a) \in DOMAIN a /\ Len(a) = Len(m)
    BY DEF Alike
<1>2. CASE f = 1
    <2>1. SplitByFamily(a)[f] = Only(a, IPv4) /\ SplitByFamily(m)[f] = Only(m, IPv4)
        BY <1>2, SplitFacts
    <2>2. /\ Len(Only(a, IPv4)) = Len(Only(m, IPv4))
          /\ \A k \in DOMAIN Only(a, IPv4) : \E j \in 1..Len(a) :
                 Only(a, IPv4)[k] = a[j] /\ Only(m, IPv4)[k] = m[j]
        BY OnlyParallel
    <2> QED BY <1>1, <2>1, <2>2
<1>3. CASE f = 2
    <2>1. /\ SplitByFamily(a)[f] = << a[Len(a)] >>
          /\ SplitByFamily(m)[f] = << m[Len(m)] >>
        BY <1>3, SplitFacts
    <2>2. \A k \in DOMAIN SplitByFamily(a)[f] : k = 1
        BY <2>1
    <2> QED BY <1>1, <2>1, <2>2
<1> QED BY <1>2, <1>3

\* A record pairs an address with its own mask.
LEMMA PairsFollow == ShapeInv /\ IInv => PairsKept
<1> SUFFICES ASSUME ShapeInv, IInv, lost < 2, NEW r \in Records,
                    "IPAddress" \in Set(r), "IPSubnet" \in Set(r), Owner(r) # 0, NEW f \in 1..2,
                    adapters[r]["IPAddress"].vectors[f] \notin {<< >>, Empty},
                    adapters[r]["IPSubnet"].vectors[f] \notin {<< >>, Empty}
             PROVE  LET addr == adapters[r]["IPAddress"].vectors[f]
                        mask == adapters[r]["IPSubnet"].vectors[f]
                        a == rows[Owner(r)].value
                    IN  /\ Len(addr) = Len(mask)
                        /\ \A k \in DOMAIN addr : \E j \in DOMAIN a["IPAddress"] :
                               addr[k] = a["IPAddress"][j] /\ mask[k] = a["IPSubnet"][j]
    BY DEF PairsKept
<1>1. Owner(r) \in 1..Len(rows) /\ rows[Owner(r)] \in Known
    BY FieldText
<1> DEFINE w == rows[Owner(r)]
           A == w.value["IPAddress"]
           M == w.value["IPSubnet"]
<1>2. ASSUME NEW n \in {"IPAddress", "IPSubnet"}
      PROVE  /\ w.value[n] \in Seq(STRING) /\ w.value[n] # << >>
             /\ adapters[r][n].vectors[f] = SplitByFamily(w.value[n])[f]
    <2>1. n \in Set(r) /\ n \in ListNames
        BY DEF ListNames
    <2>2. PICK b \in DOMAIN Block, x \in FileItems :
              /\ Block[b].name = n /\ x.name = n /\ x.type = Block[b].type
              /\ adapters[r][n].vectors = Vectors(x)
              /\ \/ x.text = Text(rows[Owner(r)], Block[b])
                 \/ faults > 0 /\ x.text = Unread(x.type)
        BY <2>1, FieldText
    <2>3. Block[b].type = "VT_ARRAY"
        BY <2>1, <2>2, ListLines
    <2>4. /\ Text(w, Block[b]) = w.value[n]
          /\ w.value[n] \in Seq(STRING) /\ w.value[n] # << >>
        BY <1>1, <2>2, <2>3, ListFacts
    <2>5. Vectors(x) = SplitByFamily(x.text)
        BY <2>1, <2>2 DEF Vectors, ListNames
    <2>6. adapters[r][n].vectors[f] \notin {<< >>, Empty}
        OBVIOUS
    <2>7. x.text # Empty
        BY <2>2, <2>5, <2>6, UnreadList
    <2>8. x.text = w.value[n]
        BY <2>2, <2>3, <2>4, <2>7, UnreadList
    <2> QED BY <2>2, <2>4, <2>5, <2>8
<1>3. /\ A \in Seq(STRING) /\ A # << >> /\ M \in Seq(STRING) /\ M # << >>
      /\ adapters[r]["IPAddress"].vectors[f] = SplitByFamily(A)[f]
      /\ adapters[r]["IPSubnet"].vectors[f] = SplitByFamily(M)[f]
    BY <1>2
<1>4. Alike(A, M, IPv4)
    BY <1>1, ParallelFacts
<1>5. SplitByFamily(A)[f] # << >> /\ SplitByFamily(M)[f] # << >>
    BY <1>3
<1> DEFINE addr == SplitByFamily(A)[f]
           mask == SplitByFamily(M)[f]
<1>6. /\ Len(addr) = Len(mask)
      /\ \A k \in DOMAIN addr : \E j \in DOMAIN A : addr[k] = A[j] /\ mask[k] = M[j]
    <2>1. A \in Seq(STRING) /\ M \in Seq(STRING) /\ A # << >>
        BY <1>3
    <2> HIDE DEF A, M
    <2> QED BY <1>4, <1>5, <2>1, SplitParallel
<1> QED BY <1>3, <1>6

\* Without faults the records are those of the static adapters, in the order of the query.
LEMMA OwnersFollow ==
    ASSUME ShapeInv, IInv, pc = "done", opened, lost = 0, faults = 0,
           file # << >>, file[1].of # 0
    PROVE  /\ [r \in Records |-> Owner(r)] = Statics
           /\ \A r \in Records : Owner(r) # 0
<1>1. net \in DOMAIN Networks /\ Reading /\ lost < 2
    BY DEF IInv, TypeOK, Reading
<1>2. Len(rows) \in Nat /\ DOMAIN rows = 1..Len(rows)
    BY <1>1, RowsFacts
<1>3. Len(adapters) \in Nat /\ Records = 1..Len(adapters)
    BY DEF ShapeInv, Records
<1>4. \A r \in Records : Owner(r) \in 0..Len(rows) /\ Owner(r) \in Nat
    BY <1>2 DEF IInv, TypeOK
<1> DEFINE P == [r \in Records |-> Owner(r)]
           S == {i \in DOMAIN rows : Static(i)}
           Q == Only(Numbers(Len(rows)), S)
<1>5. P \in Seq(Nat) /\ Len(P) = Len(adapters) /\ \A r \in Records : P[r] = Owner(r)
    BY <1>3, <1>4
<1>6. Rising(P)
    <2>1. \A r \in 2..Len(adapters) : r \in Records /\ r - 1 \in Records /\ r > 1
        BY <1>3
    <2>2. \A r \in 2..Len(adapters) : Owner(r - 1) < Owner(r)
        BY <2>1 DEF IInv, OneSave
    <2>3. \A r \in 2..Len(adapters) : P[r - 1] < P[r]
        BY <1>5, <2>1, <2>2
    <2> HIDE DEF P
    <2> QED BY <1>5, <2>3, StepsRise
\* Every record is of an item of a static adapter.
<1>7. ASSUME NEW r \in Records PROVE Owner(r) \in 1..Len(rows) /\ Static(Owner(r))
    <2>1. PICK j \in DOMAIN file : adapters[r]["ServiceName"] = [of |-> file[j].of,
                                                                vectors |-> Vectors(file[j])]
        BY <1>1 DEF IInv, FieldInv, ReadFrom
    <2>2. file[j].of = Owner(r)
        BY <2>1 DEF Owner
    <2>3. 1 \in DOMAIN file
        BY DEF ShapeInv
    <2>4. file[j].of # 0
        BY <2>3 DEF IInv, OrderInv
    <2>5. file[j].of > 0 /\ Owner(r) \in 1..Len(rows)
        BY <1>2, <1>4, <2>2, <2>4
    <2> QED BY <2>2, <2>5 DEF IInv, SavedInv
\* Every static adapter has its record.
<1>8. ASSUME NEW o \in 1..Len(rows), Static(o)
      PROVE  \E r \in Records : Owner(r) = o
    <2>1. file \in Seq(FileItems) /\ DOMAIN file = 1..Len(file) /\ Len(file) \in Nat
        BY DEF ShapeInv
    <2>2. 1 \in DOMAIN file
        BY <2>1
    <2>3. file[1].of > 0
        BY <2>1, <2>2, RankIn
    <2>4. Present(o, 14)
        BY <1>2, <1>8, <2>2, <2>3, BlockFacts DEF IInv, SavedInv
    <2>5. PICK i \in DOMAIN file : file[i].of = o /\ Rank(file[i]) = 14
        BY <2>4 DEF Present
    <2>6. file[i].name = "ServiceName"
        BY <2>5, OrderFacts DEF IInv
    <2>7. pos > Len(file) /\ pos \in Nat
        BY <1>1 DEF IInv, RecordInv, TypeOK
    <2>8. i < pos
        BY <2>1, <2>7
    <2> QED BY <1>1, <2>5, <2>6, <2>8 DEF IInv, RecordInv
<1>9. /\ Q \in Seq(Nat) /\ Rising(Q)
      /\ \A k \in 1..Len(Q) : Q[k] \in 1..Len(rows) /\ Q[k] \in S
      /\ \A v \in 1..Len(rows) : v \in S => \E k \in 1..Len(Q) : Q[k] = v
    <2>1. Len(rows) \in Nat
        BY <1>2
    <2>2. Q = Only(Numbers(Len(rows)), S)
        OBVIOUS
    <2> HIDE DEF Q, S
    <2> QED BY <2>1, <2>2, OnlyIdentity
<1>10. \A v \in 1..Len(rows) : v \in S <=> Static(v)
    BY <1>2
<1>11. Covers(Q, P)
    <2> SUFFICES ASSUME NEW r \in 1..Len(P) PROVE \E k \in 1..Len(Q) : Q[k] = P[r]
        BY DEF Covers
    <2>1. r \in Records /\ P[r] = Owner(r) /\ Owner(r) \in 1..Len(rows)
        BY <1>3, <1>5, <1>7
    <2>2. Owner(r) \in S
        BY <1>7, <1>10, <2>1
    <2>3. \E k \in 1..Len(Q) : Q[k] = Owner(r)
        <3> HIDE DEF P, Q, S
        <3> QED BY <1>9, <2>1, <2>2
    <2> HIDE DEF P, Q, S
    <2> QED BY <2>1, <2>3
<1>12. Covers(P, Q)
    <2> SUFFICES ASSUME NEW k \in 1..Len(Q) PROVE \E r \in 1..Len(P) : P[r] = Q[k]
        BY DEF Covers
    <2> HIDE DEF P, Q, S
    <2>1. Q[k] \in 1..Len(rows) /\ Static(Q[k])
        BY <1>9, <1>10
    <2>2. PICK r \in Records : Owner(r) = Q[k]
        BY <1>8, <2>1
    <2> QED BY <1>3, <1>5, <2>2
<1>13. P = Q
    <2> HIDE DEF P, Q
    <2> QED BY <1>5, <1>6, <1>9, <1>11, <1>12, SameRange
<1> QED BY <1>2, <1>7, <1>13 DEF Statics, Numbers

\* What a line that was read makes of the value that was written.
LEMMA ValueFollows ==
    ASSUME NEW a \in Known, NEW b \in DOMAIN Block, NEW x \in FileItems,
           x.name = Block[b].name, x.type = Block[b].type, x.text = Text(a, Block[b])
    PROVE  LET l == Block[b]
               v == Vectors(x)
               t == a.value[l.name]
           IN  CASE l.name \in {"IPAddress", "IPSubnet", "DefaultIPGateway"} ->
                        v[1] = ByFamily(t)[1] /\ IsSuffix(v[2], ByFamily(t)[2])
                 [] l.type = "VT_I4" -> v[1][1] = Narrow(t[1])
                 [] OTHER -> v = << t >>
<1> DEFINE l == Block[b]
           t == a.value[l.name]
<1>1. CASE l.name \in ListNames
    <2>1. l.type = "VT_ARRAY"
        BY <1>1, ListLines
    <2>2. x.text = t /\ t \in Seq(STRING) /\ t # << >>
        BY <2>1, ListFacts
    <2>3. Vectors(x) = SplitByFamily(t)
        BY <1>1, <2>2 DEF Vectors, ListNames
    <2>4. SplitByFamily(t)[1] = ByFamily(t)[1]
        BY SplitFacts DEF ByFamily
    <2>5. IsSuffix(SplitByFamily(t)[2], ByFamily(t)[2])
        <3> SUFFICES ASSUME NEW V, NEW s \in Seq(V), s # << >>
                     PROVE  IsSuffix(SplitByFamily(s)[2], ByFamily(s)[2])
            BY <2>2
        <3> DEFINE R == Range(s) \ IPv4
                   c == Only(s, R)
                   last == s[Len(s)]
        <3>1. ByFamily(s)[2] = c
            BY DEF ByFamily
        <3>2. c \in Seq(V)
            <4>1. Alike(s, s, R)
                BY DEF Alike
            <4> HIDE DEF R
            <4> QED BY <4>1, OnlyParallel
        <3>3. CASE last \in IPv4
            <4>1. SplitByFamily(s)[2] = << >>
                BY <3>3, SplitFacts
            <4> HIDE DEF c
            <4> QED BY <3>1, <3>2, <4>1, SuffixFacts
        <3>4. CASE last \notin IPv4
            <4>1. SplitByFamily(s)[2] = << last >>
                BY <3>4, SplitFacts
            <4>2. last \in R
                BY <3>4 DEF Range
            <4>3. c # << >> /\ c[Len(c)] = last
                <5> HIDE DEF R
                <5> QED BY <4>2, OnlyLast
            <4>4. IsSuffix(<< c[Len(c)] >>, c)
                <5> HIDE DEF c
                <5> QED BY <3>2, <4>3, SuffixFacts
            <4> HIDE DEF c, last
            <4> QED BY <3>1, <4>1, <4>3, <4>4
        <3> QED BY <3>3, <3>4
    <2> QED BY <1>1, <2>1, <2>3, <2>4, <2>5 DEF ListNames
<1>2. CASE l.name \notin ListNames
    <2>1. Vectors(x) = << x.text >>
        BY <1>2 DEF Vectors, ListNames
    <2>2. CASE l.type = "VT_I4"
        <3>1. x.text = << Narrow(t[1]) >>
            BY <2>2 DEF Text
        <3>2. Vectors(x)[1][1] = Narrow(t[1])
            BY <2>1, <3>1
        <3> QED BY <1>2, <2>2, <3>2 DEF ListNames
    <2>3. CASE l.type # "VT_I4"
        <3>1. x.text = t
            BY <2>3 DEF Text
        <3> QED BY <1>2, <2>1, <2>3, <3>1 DEF ListNames
    <2> QED BY <2>2, <2>3
<1> QED BY <1>1, <1>2

LEMMA RoundTripFollows == ShapeInv /\ IInv => RoundTrip
<1> SUFFICES ASSUME ShapeInv, IInv, pc = "done", opened, faults = 0, file # << >>,
                    file[1].of # 0
             PROVE  /\ [r \in Records |-> Owner(r)] = Statics
                    /\ \A r \in Records : \A i \in DOMAIN Block :
                          LET l == Block[i]
                              v == adapters[r][l.name].vectors
                              t == rows[Owner(r)].value[l.name]
                          IN  CASE l.name \in {"IPAddress", "IPSubnet", "DefaultIPGateway"} ->
                                       v[1] = ByFamily(t)[1] /\ IsSuffix(v[2], ByFamily(t)[2])
                                [] l.type = "VT_I4" -> v[1][1] = Narrow(t[1])
                                [] OTHER -> v = << t >>
    BY DEF RoundTrip
<1>1. lost = 0 /\ lost < 2
    BY FaultsAssumption DEF IInv, TypeOK, PhaseInv
<1>2. [r \in Records |-> Owner(r)] = Statics /\ \A r \in Records : Owner(r) # 0
    BY <1>1, OwnersFollow
<1>3. ASSUME NEW r \in Records, NEW i \in DOMAIN Block
      PROVE  LET l == Block[i]
                 v == adapters[r][l.name].vectors
                 t == rows[Owner(r)].value[l.name]
             IN  CASE l.name \in {"IPAddress", "IPSubnet", "DefaultIPGateway"} ->
                          v[1] = ByFamily(t)[1] /\ IsSuffix(v[2], ByFamily(t)[2])
                   [] l.type = "VT_I4" -> v[1][1] = Narrow(t[1])
                   [] OTHER -> v = << t >>
    <2>1. Block[i].name \in Set(r)
        BY <1>1, BlockFacts DEF IInv, RecordInv, Reading
    <2>2. Owner(r) # 0
        BY <1>2
    <2>3. PICK b \in DOMAIN Block, x \in FileItems :
              /\ Block[b].name = Block[i].name /\ x.name = Block[i].name /\ x.type = Block[b].type
              /\ adapters[r][Block[i].name].vectors = Vectors(x)
              /\ \/ x.text = Text(rows[Owner(r)], Block[b])
                 \/ faults > 0 /\ x.text = Unread(x.type)
        BY <1>1, <2>1, <2>2, FieldText
    <2>4. b = i
        BY <2>3, BlockFacts
    <2>5. x.text = Text(rows[Owner(r)], Block[i]) /\ rows[Owner(r)] \in Known
        BY <1>1, <2>1, <2>2, <2>3, <2>4, FieldText
    <2>6. x.name = Block[i].name /\ x.type = Block[i].type
        BY <2>3, <2>4
    <2>7. adapters[r][Block[i].name].vectors = Vectors(x)
        BY <2>3
    <2> DEFINE w == rows[Owner(r)]
    <2> HIDE DEF w
    <2>8. LET l == Block[i]
              v == Vectors(x)
              t == w.value[l.name]
          IN  CASE l.name \in {"IPAddress", "IPSubnet", "DefaultIPGateway"} ->
                       v[1] = ByFamily(t)[1] /\ IsSuffix(v[2], ByFamily(t)[2])
                [] l.type = "VT_I4" -> v[1][1] = Narrow(t[1])
                [] OTHER -> v = << t >>
        BY <2>5, <2>6, ValueFollows DEF w
    <2> QED BY <2>7, <2>8 DEF w
<1> QED BY <1>2, <1>3

-------------------------------------------------------------------------------
(* The theorems *)

\* The inductive invariant, with the types TLC does not evaluate.
THEOREM InductiveInvariant == Spec => [](ShapeInv /\ IInv)
<1>1. Init => ShapeInv /\ IInv
    BY InitInv
<1>2. ShapeInv /\ IInv /\ [Next]_vars => (ShapeInv /\ IInv)'
    BY SaveInv, RestoreInv, StutterInv DEF Next
<1> QED BY <1>1, <1>2, PTL DEF Spec

\* Every variable keeps its type, and no item outgrows what the reader takes in one
\* string, for a buffer of any size and lines of any length.
THEOREM TypeCorrect == Spec => []TypeOK
<1>1. IInv => TypeOK
    BY DEF IInv
<1> QED BY <1>1, InductiveInvariant, PTL

\* Unless two lines are lost a record holds the settings of one adapter, however many
\* adapters were saved and wherever the file was cut.
THEOREM RecordsUnmixed == Spec => []NoMixing
<1>1. IInv => NoMixing
    BY DEF IInv
<1> QED BY <1>1, InductiveInvariant, PTL

\* The records are of one save, in its order, each adapter once.
THEOREM RecordsOfOneSave == Spec => []OneSave
<1>1. IInv => OneSave
    BY DEF IInv
<1> QED BY <1>1, InductiveInvariant, PTL

\* The parser dies of no file but one that was cut, or to which a write failed, or with
\* a line too long for the buffer.
THEOREM ParserThrows == Spec => []OnlyCutFilesThrow
<1>1. IInv => OnlyCutFilesThrow
    BY DEF IInv
<1> QED BY <1>1, InductiveInvariant, PTL


\* A record pairs an address with the mask it was saved with, for lists of any length and
\* whatever line was lost or could not be read.
THEOREM PairsStayTogether == Spec => []PairsKept
<1> QED BY PairsFollow, InductiveInvariant, PTL

\* When nothing fails the records are those of the static adapters, in the order of the
\* query and complete, with the values that were saved: the IPv4 lists in full, of an IPv6
\* list its end, of a number its 16 bits.
THEOREM SettingsReturn == Spec => []RoundTrip
<1> QED BY RoundTripFollows, InductiveInvariant, PTL
===============================================================================
