----------------------------- MODULE NicConfigFile -----------------------------
(***************************************************************************)
(* viocfg.cfg from its writer to its reader: ConfigWrite::Run saves the    *)
(* static settings of the netkvm adapters, fourteen lines for each, and    *)
(* the first loop of ConfigRead::Run, possibly in another product and much *)
(* later, makes records of the lines again (ConfigClass.cpp, ConfigFile.cpp).*)
(*                                                                         *)
(* The text of a value is the sequence of its comma-separated pieces; an   *)
(* empty text is one empty piece.  Each line carries the adapter it was    *)
(* written for, which the code does not know and the properties are about. *)
(***************************************************************************)
EXTENDS Integers, Sequences, FiniteSets, SequencesExt

CONSTANTS
    Networks,     \* what the query may return: a sequence of sequences of adapters
    Backups,      \* adapters whose settings an earlier save may have left
    IPv4,         \* the pieces IsValidIPv4Address accepts
    Buffer,       \* 1024: the size of wcstr in WriteLine and of line in ReadLine
    MaxFaults     \* bound on what fails: WMI calls, reads of properties, writes

ASSUME BufferAssumption == Buffer \in Nat /\ Buffer > 2
ASSUME FaultsAssumption == MaxFaults \in Nat

Empty == << "" >>
Netkvm == << "netkvm" >>

\* The size of a line with an empty value, which fits every buffer.
ShortLine == 2

\* The lines of an adapter, in the order ConfigWrite::Run writes them.
LineOf(name, type) == [name |-> name, type |-> type]
Block ==
    << LineOf("MACAddress", "VT_BSTR"), LineOf("Description", "VT_BSTR"),
       LineOf("IPAddress", "VT_ARRAY"), LineOf("IPSubnet", "VT_ARRAY"),
       LineOf("IPConnectionMetric", "VT_I4"), LineOf("DNSDomain", "VT_BSTR"),
       LineOf("DefaultIPGateway", "VT_ARRAY"), LineOf("IPFilterSecurityEnabled", "VT_BOOL"),
       LineOf("DNSDomainSuffixSearchOrder", "VT_ARRAY"), LineOf("DNSHostName", "VT_BSTR"),
       LineOf("DNSEnabledForWINSResolution", "VT_BOOL"), LineOf("DNSServerSearchOrder", "VT_ARRAY"),
       LineOf("Index", "VT_I4"), LineOf("ServiceName", "VT_BSTR") >>
Names == {Block[i].name : i \in DOMAIN Block}

\* An adapter as WMI describes it: the values have the types of their lines, every line
\* has its "\r\n", and the lists of addresses and masks are parallel, family by family.
WellFormed(a) ==
    /\ \A i \in DOMAIN Block :
           a.value[Block[i].name] \in
               (IF Block[i].type \in {"VT_I4", "VT_BOOL"} THEN Seq(Int) ELSE Seq(STRING)) \ {<< >>}
    /\ \A n \in Names : a.size[n] \in Nat /\ a.size[n] >= ShortLine
    /\ {a.ipEnabled, a.dhcp} \subseteq BOOLEAN
    /\ Len(a.value["IPAddress"]) = Len(a.value["IPSubnet"])
    /\ \A k \in DOMAIN a.value["IPAddress"] :
           a.value["IPAddress"][k] \in IPv4 <=> a.value["IPSubnet"][k] \in IPv4

ASSUME BackupsAssumption == \A a \in Backups : WellFormed(a)
ASSUME NetworksAssumption ==
    \A n \in DOMAIN Networks :
        /\ Len(Networks[n]) \in Nat /\ DOMAIN Networks[n] = 1..Len(Networks[n])
        /\ \A i \in DOMAIN Networks[n] : WellFormed(Networks[n][i])

\* The elements of s that are in S, in their order.
Only(s, S) ==
    LET kept[i \in 0..Len(s)] == IF i = 0 THEN << >>
                                 ELSE IF s[i] \in S THEN Append(kept[i - 1], s[i])
                                 ELSE kept[i - 1]
    IN  kept[Len(s)]

VARIABLES
    net,       \* which adapters WMI returns to this save
    pc,        \* "open" | "query" | "next" | "write" | "reopen" | "read" | "done" | "failed"
    opened,    \* fileHandle # NULL
    row, pos,  \* the adapter, and its line that is written; the item that is read
    skip,      \* characters of that item already read
    file,      \* what is in the file, in items of one WriteLine each
    cur,       \* ConfigRead::cur
    adapters,  \* ConfigRead::adapters
    faults,    \* how many calls have failed
    lost,      \* history: lines that are not in the file as lines of their own
    cut        \* history: the end of what was written did not reach the file

place == <<row, pos, skip>>
parsed == <<cur, adapters>>
history == <<faults, lost, cut>>
vars == <<net, pc, opened, place, file, parsed, history>>

rows == Networks[net]

-------------------------------------------------------------------------------
(* Writing a line *)

\* GetIntProperty takes the 16-bit member of the variant.
Narrow(v) == ((v + 32768) % 65536) - 32768

\* What a property that cannot be read becomes: "", 0, false.
Unread(type) == IF type \in {"VT_I4", "VT_BOOL"} THEN << 0 >> ELSE Empty

\* The text of line l of adapter a: a list joined by commas, a number, or a string.
Text(a, l) == IF l.type = "VT_I4" THEN << Narrow(a.value[l.name][1]) >> ELSE a.value[l.name]

\* Mutant: the buffer keeps one character more.
ItemLonger(of, l, text, size) ==
    [of |-> of, name |-> l.name, type |-> l.type, text |-> text,
     chars |-> IF size <= Buffer THEN size ELSE Buffer,
     cr |-> size <= Buffer, lf |-> size <= Buffer]

\* vswprintf of a line of `size` characters, "\r\n" included: the buffer keeps one
\* less than its size, so a long line loses the "\n", or the "\r" and text as well.
Item(of, l, text, size) ==
    [of |-> of, name |-> l.name, type |-> l.type, text |-> text,
     chars |-> IF size < Buffer THEN size ELSE Buffer - 1,
     cr |-> size <= Buffer, lf |-> size < Buffer]

\* What is left of an item after its first k characters were written.
Torn(item, k) == [item EXCEPT !.chars = k, !.lf = FALSE,
                              !.cr = item.lf /\ k = item.chars - 1]

\* The condition of ConfigWrite::Run, when the properties `unread` cannot be read:
\* an unreadable DHCPEnabled counts as static.
Eligible(a, unread) ==
    /\ a.ipEnabled /\ "IPEnabled" \notin unread
    /\ ~ a.dhcp \/ "DHCPEnabled" \in unread
    /\ a.value["ServiceName"] = Netkvm /\ "ServiceName" \notin unread

\* The lines of adapter a when nothing fails, marked as those of `of`.
Lines(a, of) == [i \in DOMAIN Block |->
                    Item(of, Block[i], Text(a, Block[i]), a.size[Block[i].name])]

-------------------------------------------------------------------------------
(* Parsing a line *)

\* Mutant: the text is split anew for the IPv6 addresses, but not filtered.
SplitUnfiltered(text) == << Only(text, IPv4), text >>

\* SplitStringAsVector consumes the text: the pass for IPv6 sees the last piece only.
SplitByFamily(text) ==
    << Only(text, IPv4), Only(<< Last(text) >>, {Last(text)} \ IPv4) >>

\* Mutant: the masks are not told apart by family.
VectorsUnsplitMask(l) ==
    IF l.name \in {"IPAddress", "DefaultIPGateway"} THEN SplitByFamily(l.text)
    ELSE << l.text >>

\* The members of AdapterConfig a line is assigned to.
Vectors(l) ==
    IF l.name \in {"IPAddress", "IPSubnet", "DefaultIPGateway"} THEN SplitByFamily(l.text)
    ELSE << l.text >>

\* ProcessInteger, ProcessString, ProcessBoolean, ProcessArrayOfStrings.
Handled(type) ==
    CASE type = "VT_I4" -> {"IPConnectionMetric", "Index"}
      [] type = "VT_BSTR" -> {"MACAddress", "Description", "DNSDomain", "ServiceName", "DNSHostName"}
      [] type = "VT_BOOL" -> {"IPFilterSecurityEnabled", "DNSEnabledForWINSResolution"}
      [] type = "VT_ARRAY" -> {"IPAddress", "IPSubnet", "DefaultIPGateway",
                               "DNSDomainSuffixSearchOrder", "DNSServerSearchOrder"}

Unset == [of |-> -1, vectors |-> << >>]
Fresh == [n \in Names |-> Unset]

Assigned(l) == IF l.name \in Handled(l.type)
               THEN [cur EXCEPT ![l.name] = [of |-> l.of, vectors |-> Vectors(l)]]
               ELSE cur

\* Mutant: cur is not reset after it was pushed.
TakeKeepingCur(l) ==
    /\ cur' = Assigned(l)
    /\ adapters' = IF l.name = "ServiceName" THEN Append(adapters, cur') ELSE adapters

\* ProcessParametesAsVector, and the end of a record.
Take(l) ==
    IF l.name = "ServiceName" /\ l.name \in Handled(l.type)
    THEN adapters' = Append(adapters, Assigned(l)) /\ cur' = Fresh
    ELSE adapters' = adapters /\ cur' = Assigned(l)
-------------------------------------------------------------------------------
(* Saving *)

Init ==
    /\ net \in DOMAIN Networks
    /\ file \in {<< >>} \cup {Lines(a, 0) : a \in Backups}
    /\ pc = "open"
    /\ opened = FALSE
    /\ row = 0 /\ pos = 1 /\ skip = 0
    /\ cur = Fresh /\ adapters = << >>
    /\ faults = 0 /\ lost = 0 /\ cut = FALSE

\* Mutant: the file is opened for appending.
OpenForAppending ==
    /\ pc = "open"
    /\ pc' = "query"
    /\ opened' \in BOOLEAN
    /\ UNCHANGED <<net, place, file, parsed, history>>

\* Config::Init(false).  Open returns true also when the file could not be opened:
\* an error number is never negative.  When it could, its contents are gone.
OpenForWriting ==
    /\ pc = "open"
    /\ pc' = "query"
    /\ opened' \in BOOLEAN
    /\ file' = IF opened' THEN << >> ELSE file
    /\ UNCHANGED <<net, place, parsed, history>>

\* CoInitializeEx fails: the action ends before the file is opened.
InitFails ==
    /\ pc = "open"
    /\ pc' = "reopen"
    /\ UNCHANGED <<net, opened, place, file, parsed, history>>

\* GetInstances; when it fails Run returns true all the same.
QuerySucceeds ==
    /\ pc = "query"
    /\ pc' = "next"
    /\ UNCHANGED <<net, opened, place, file, parsed, history>>

QueryFails ==
    /\ pc = "query"
    /\ pc' = "reopen"
    /\ faults' = faults + 1
    /\ UNCHANGED <<net, opened, place, file, parsed, lost, cut>>

\* MoveNext returns an adapter, which is passed over or written.  The properties in
\* `unread` cannot be read.
NextAdapter(unread) ==
    /\ pc = "next"
    /\ row < Len(rows)
    /\ row' = row + 1
    /\ faults' = faults + Cardinality(unread)
    /\ pc' = IF Eligible(rows[row'], unread) THEN "write" ELSE "next"
    /\ pos' = 1
    /\ UNCHANGED <<net, opened, skip, file, parsed, lost, cut>>

\* The save is over, and the file closed.
CloseFile == pc' = "reopen" /\ row' = 0 /\ pos' = 1 /\ skip' = 0

\* MoveNext returns false: no adapter is left.
SaveEnds ==
    /\ pc = "next" /\ row = Len(rows)
    /\ CloseFile
    /\ UNCHANGED <<net, opened, file, parsed, history>>

\* Next fails, and the loop ends early.
MoveNextFails ==
    /\ pc = "next" /\ row < Len(rows)
    /\ CloseFile
    /\ faults' = faults + 1
    /\ UNCHANGED <<net, opened, file, parsed, lost, cut>>

\* The next line of the adapter, or the next adapter.
Advance == IF pos < Len(Block) THEN pos' = pos + 1 /\ pc' = "write"
                               ELSE pos' = pos /\ pc' = "next"

\* What the line of pos becomes when its property can, or cannot, be read.  The
\* ServiceName was read once, for the condition.
Written == LET a == rows[row]  l == Block[pos]
           IN  Item(row, l, Text(a, l), a.size[l.name])
WrittenUnread == Item(row, Block[pos], Unread(Block[pos].type), ShortLine)

\* WriteLine writes a line; without a file it does nothing.
WriteLine(item) ==
    /\ pc = "write"
    /\ Advance
    /\ file' = IF opened THEN Append(file, item) ELSE file
    /\ UNCHANGED <<net, opened, row, skip, parsed, lost, cut>>

\* _ftprintf fails and nothing, or a part of the line, gets into the file.  Run does
\* not look at what WriteLine returns.  After a part the next line has no start.
WriteFails ==
    /\ pc = "write" /\ opened
    /\ Advance
    /\ faults' = faults + 1
    /\ \/ file' = file /\ lost' = lost + 1
       \/ \E k \in {1, Written.chars - 1} :
              file' = Append(file, Torn(Written, k)) /\ lost' = lost + 2
    /\ UNCHANGED <<net, opened, row, skip, parsed, cut>>

\* The process dies, or the last lines cannot be flushed when the file is closed:
\* the file ends earlier, maybe within a line.
CutShort ==
    /\ pc \in {"next", "write"} /\ opened
    /\ CloseFile
    /\ cut' = TRUE /\ faults' = faults + 1
    /\ \E n \in 0..Len(file) :
          \/ file' = SubSeq(file, 1, n)
          \/ /\ n < Len(file)
             /\ \E k \in {1, file[n + 1].chars - 1} \ {0} :
                    file' = Append(SubSeq(file, 1, n), Torn(file[n + 1], k))
    /\ UNCHANGED <<net, opened, parsed, lost>>

-------------------------------------------------------------------------------
(* Reading *)

\* Config::Init(true), of the same or of another installation.
OpenForReading ==
    /\ pc = "reopen"
    /\ pc' = "read"
    /\ opened' \in BOOLEAN
    /\ UNCHANGED <<net, place, file, parsed, history>>

\* Where an item ends, from where the reader stands; and the items fgetws could reach:
\* those that begin before the buffer is full.
Ends == LET e[i \in (pos - 1)..Len(file)] ==
                IF i < pos THEN - skip ELSE e[i - 1] + file[i].chars
        IN  e
Ahead(ends) ==
    {i \in pos..Min({Len(file), pos + Buffer}) : ends[i - 1] < Buffer - 1}

\* fgetws reads up to a "\n", but one character less than the size of the buffer.
Chars(ends, ahead) ==
    Min({Buffer - 1, ends[Max(ahead)]} \cup {ends[i] : i \in {j \in ahead : file[j].lf}})

\* The items whose "\r" is in that string; the line ends at the last of them (rfind).
Returned(ends, ahead, chars) ==
    LET Return(i) == IF file[i].lf THEN ends[i] - 1 ELSE ends[i]
    IN  {i \in ahead : file[i].cr /\ Return(i) \in 1..chars}

\* The reader goes `chars` characters further.
Consume(ends, ahead, chars) ==
    LET over == {i \in ahead : ends[i] <= chars}
    IN  IF over = {} THEN pos' = pos /\ skip' = skip + chars
        ELSE pos' = Max(over) + 1 /\ skip' = chars - ends[Max(over)]

\* ReadLine, SplitStringAsVector and ProcessParametesAsVector of one line.  Only one
\* item by itself, from its start, has three parameters and a name that is known.
\* When rfind returns npos, erase throws std::out_of_range, which nothing catches.
ReadLine ==
    /\ pc = "read" /\ opened
    /\ pos <= Len(file)
    /\ LET ends == Ends
           ahead == Ahead(ends)
           chars == Chars(ends, ahead)
           found == Returned(ends, ahead, chars)
       IN  IF found = {}
           THEN pc' = "failed" /\ UNCHANGED <<pos, skip, parsed>>
           ELSE /\ UNCHANGED pc
                /\ IF found = {pos} /\ skip = 0 THEN Take(file[pos]) ELSE UNCHANGED parsed
                /\ Consume(ends, ahead, chars)
    /\ UNCHANGED <<net, opened, row, file, history>>

\* ReadLine returns false: the records go to the retry loop, which is NicRestore.
ReadEnds ==
    /\ pc = "read"
    /\ ~ opened \/ pos > Len(file)
    /\ pc' = "done"
    /\ UNCHANGED <<net, opened, place, file, parsed, history>>

\* A fault is left.
Faulty == faults < MaxFaults

Save ==
    \/ OpenForWriting \/ InitFails
    \/ QuerySucceeds \/ (Faulty /\ QueryFails)
    \/ NextAdapter({})
    \/ Faulty /\ \E p \in {"IPEnabled", "DHCPEnabled", "ServiceName"} : NextAdapter({p})
    \/ WriteLine(Written) /\ UNCHANGED faults
    \/ /\ Faulty /\ WriteLine(WrittenUnread)
       /\ Block[pos].name # "ServiceName" /\ faults' = faults + 1
    \/ Faulty /\ WriteFails
    \/ SaveEnds
    \/ Faulty /\ (MoveNextFails \/ CutShort)
Restore == OpenForReading \/ ReadLine \/ ReadEnds

Next == Save \/ Restore

Spec == Init /\ [][Next]_vars

-------------------------------------------------------------------------------
(* Properties *)

\* The records, after they are read, and the adapter a line or a record was written for.
Records == 1..Len(adapters)
Set(r) == {n \in Names : adapters[r][n] # Unset}
Owner(r) == adapters[r]["ServiceName"].of

\* The adapters this save should keep, in the order of the query.
Static(i) == rows[i].ipEnabled /\ ~ rows[i].dhcp /\ rows[i].value["ServiceName"] = Netkvm
Statics == Only([i \in DOMAIN rows |-> i], {i \in DOMAIN rows : Static(i)})

\* A list as the parser would have to return it, by family.
ByFamily(text) == << Only(text, IPv4), Only(text, Range(text) \ IPv4) >>

\* Every variable keeps its type, and an item never outgrows what the reader takes in
\* one string (ConfigFile.cpp:75, 89).
TypeOK ==
    /\ net \in DOMAIN Networks
    /\ pc \in {"open", "query", "next", "write", "reopen", "read", "done", "failed"}
    /\ opened \in BOOLEAN /\ cut \in BOOLEAN
    /\ row \in 0..Len(rows) /\ pos \in Nat \ {0} /\ skip \in 0..(Buffer - 1)
    /\ pc = "write" => row > 0 /\ pos \in 1..Len(Block)
    /\ \A i \in DOMAIN file : /\ file[i].of \in 0..Len(rows)
                              /\ file[i].name \in Names
                              /\ file[i].chars \in 1..(Buffer - 1)
    /\ \A n \in Names : cur[n].of \in -1..Len(rows)
    /\ \A r \in Records : DOMAIN adapters[r] = Names /\ Owner(r) \in 0..Len(rows)
    /\ faults \in 0..MaxFaults /\ lost \in 0..2 * MaxFaults

\* A record holds the settings of one adapter: what is read from several adapters is
\* never mixed, unless two lines are lost, one of them the ServiceName that ends a
\* record (ConfigClass.cpp:112, 540-544).
NoMixing ==
    lost < 2 => \A r \in Records : \A n \in Set(r) : adapters[r][n].of = Owner(r)

\* The records are all of the last save that could open the file, in its order and each
\* adapter once: a backup never adds to the one before it (ConfigFile.cpp:47).
OneSave ==
    \A r \in Records : r > 1 => Owner(r - 1) < Owner(r) /\ Owner(r - 1) # 0

\* Without faults the settings in a file of this save come back as they were: one record
\* for each static netkvm adapter, every line of it, the IPv4 lists in full.  (IPv6 lists
\* lose all but the last element, and numbers keep 16 bits.)
RoundTrip ==
    pc = "done" /\ opened /\ faults = 0 /\ file # << >> /\ file[1].of # 0 =>
        /\ [r \in Records |-> Owner(r)] = Statics
        /\ \A r \in Records : \A i \in DOMAIN Block :
              LET l == Block[i]
                  v == adapters[r][l.name].vectors
                  t == rows[Owner(r)].value[l.name]
              IN  CASE l.name \in {"IPAddress", "IPSubnet", "DefaultIPGateway"} ->
                           v[1] = ByFamily(t)[1] /\ IsSuffix(v[2], ByFamily(t)[2])
                    [] l.type = "VT_I4" -> v[1][1] = Narrow(t[1])
                    [] OTHER -> v = << t >>

\* EnableStatic passes the addresses and the masks of a family as parallel lists.  They
\* pair an address with the mask it was saved with, whatever lines were lost or could
\* not be read: else the two lists differ only in that one of them has no element.
PairsKept ==
    lost < 2 =>
        \A r \in Records : {"IPAddress", "IPSubnet"} \subseteq Set(r) /\ Owner(r) # 0 =>
            \A f \in 1..2 :
                LET addr == adapters[r]["IPAddress"].vectors[f]
                    mask == adapters[r]["IPSubnet"].vectors[f]
                    a == rows[Owner(r)].value
                IN  \/ addr \in {<< >>, Empty} \/ mask \in {<< >>, Empty}
                    \/ /\ Len(addr) = Len(mask)
                       /\ \A k \in DOMAIN addr : \E j \in DOMAIN a["IPAddress"] :
                              addr[k] = a["IPAddress"][j] /\ mask[k] = a["IPSubnet"][j]

\* The parser dies of a file only when the file was cut, or a write failed, or a line
\* did not fit the buffer with its "\r": a line that just fits is read back.
OnlyCutFilesThrow ==
    pc = "failed" =>
        \/ cut \/ lost > 0
        \/ \E a \in Range(rows) \cup Backups : \E n \in Names : a.size[n] > Buffer

\* The settings are backed up to be restored: every address that was saved comes back,
\* the IPv6 ones too (ConfigClass.cpp:243-244).
AllAddressesKept ==
    pc = "done" /\ faults = 0 =>
        \A r \in Records : Owner(r) # 0 =>
            adapters[r]["IPAddress"].vectors = ByFamily(rows[Owner(r)].value["IPAddress"])

-------------------------------------------------------------------------------
(* The inductive invariant of the proofs *)

Writing == pc \in {"next", "write"} /\ opened
Reading == pc \in {"read", "done", "failed"}
Untouched == pc \in {"open", "query"} \/ (pc \in {"next", "write"} /\ ~ opened)

\* The place of an item's line in a block; the order in which lines are written.
Rank(item) == CHOOSE b \in DOMAIN Block : Block[b].name = item.name
Before(x, y) == x.of < y.of \/ (x.of = y.of /\ Rank(x) < Rank(y))

\* What is the case before the reader begins, and before anything can be lost.
PhaseInv ==
    /\ ~ Reading => cur = Fresh /\ adapters = << >> /\ skip = 0
    /\ pc \in {"open", "query", "reopen"} => row = 0 /\ pos = 1
    /\ pc = "open" => ~ opened
    /\ pc = "query" /\ opened => file = << >>
    /\ Untouched => lost = 0 /\ ~ cut
    /\ Writing => ~ cut
    /\ lost <= 2 * faults
    /\ cut => faults > 0

\* The items are lines of a block, those of an adapter together and in their order; a
\* backup is of one save only, and of an earlier one until this save writes.
OrderInv ==
    /\ \A i \in DOMAIN file : \E b \in DOMAIN Block :
           file[i].name = Block[b].name /\ file[i].type = Block[b].type
    /\ \A i, j \in DOMAIN file : i < j => Before(file[i], file[j])
    /\ \A i, j \in DOMAIN file : file[i].of = 0 => file[j].of = 0
    /\ Untouched => \A i \in DOMAIN file : file[i].of = 0
    /\ Writing => \A i \in DOMAIN file :
           /\ file[i].of \in 1..row
           /\ pc = "write" /\ file[i].of = row => Rank(file[i]) < pos

\* The text of an item is that of its line, or what an unreadable property becomes.
TextInv ==
    \A i \in DOMAIN file : file[i].of > 0 =>
        \/ file[i].text = Text(rows[file[i].of], Block[Rank(file[i])])
        \/ faults > 0 /\ file[i].text = Unread(file[i].type)

\* Unless a line was torn the reader's strings are the items: one ends at its "\n" or
\* has all that the reader takes in.
WholeInv ==
    /\ \A i \in DOMAIN file : file[i].lf => file[i].cr /\ file[i].chars > 1
    /\ lost < 2 => \A i \in DOMAIN file :
           file[i].lf \/ file[i].chars = Buffer - 1 \/ (cut /\ i = Len(file))

\* A line that fits has its "\r".
AllFit == \A a \in Range(rows) \cup Backups : \A n \in Names : a.size[n] <= Buffer
FitInv == AllFit /\ lost = 0 /\ ~ cut => \A i \in DOMAIN file : file[i].cr

\* When one line was lost, the others of its adapter and of all adapters are there.
Present(o, b) == \E i \in DOMAIN file : file[i].of = o /\ Rank(file[i]) = b
Kin == {file[i].of : i \in DOMAIN file} \cup {o \in {row} : pc = "write" /\ opened}
Passed(o, b) ==
    \/ \E i \in DOMAIN file : \/ o < file[i].of
                              \/ o = file[i].of /\ b <= Rank(file[i])
    \/ Writing /\ (o < row \/ (o = row /\ (pc = "write" => b < pos)))
FullBut(o, b) ==
    \A p \in Kin : \A c \in DOMAIN Block :
        Passed(p, c) => Present(p, c) \/ (lost = 1 /\ p = o /\ c = b)
FullInv == lost < 2 => \E o \in 0..Len(rows), b \in DOMAIN Block : FullBut(o, b)

\* Without faults the static adapters are saved, and no others.
SavedInv ==
    faults = 0 =>
        /\ pc = "write" => Static(row)
        /\ \A i \in DOMAIN file : file[i].of > 0 => Static(file[i].of)
        /\ Writing => \A o \in 1..row : \A b \in DOMAIN Block :
               Static(o) /\ (o < row \/ (pc = "write" => b < pos)) => Present(o, b)
        /\ pc \in {"reopen", "read", "done", "failed"} /\ file # << >> /\ file[1].of > 0 =>
               \A o \in DOMAIN rows : \A b \in DOMAIN Block : Static(o) => Present(o, b)

\* What is set was read from a line of the file that lies behind the reader.
ReadFrom(n, field) ==
    \E j \in DOMAIN file : /\ j < pos /\ file[j].name = n
                           /\ field = [of |-> file[j].of, vectors |-> Vectors(file[j])]
SkipInv ==
    pc = "read" => /\ pos \in DOMAIN file => skip < file[pos].chars
                   /\ lost < 2 => skip = 0
FieldInv ==
    Reading =>
        /\ \A n \in Names : cur[n] # Unset => ReadFrom(n, cur[n])
        /\ \A r \in Records : \A n \in Set(r) : ReadFrom(n, adapters[r][n])
        /\ \A r \in Records : "ServiceName" \in Set(r)
        /\ cur["ServiceName"] = Unset

\* The record in the making has what was read since the last ServiceName, each field
\* from the last line of its name.
Since(j) == \A k \in j..(pos - 1) : k \in DOMAIN file => file[k].name # "ServiceName"
CurInv ==
    Reading /\ lost < 2 =>
        /\ \A n \in Names : cur[n] # Unset =>
               \E j \in DOMAIN file :
                   /\ j < pos /\ file[j].name = n /\ file[j].of = cur[n].of /\ Since(j)
                   /\ \A k \in (j + 1)..(pos - 1) : file[k].name # n
        /\ \A j \in DOMAIN file : j < pos /\ Since(j) => cur[file[j].name] # Unset

\* Every ServiceName behind the reader has its record, and a record is complete when
\* nothing has failed.
RecordInv ==
    Reading /\ lost < 2 =>
        /\ \A j \in DOMAIN file : j < pos /\ file[j].name = "ServiceName" =>
               \E r \in Records : Owner(r) = file[j].of
        /\ lost = 0 => \A r \in Records : Set(r) = Names
        /\ pc = "done" /\ opened => pos > Len(file)

IInv == /\ TypeOK
        /\ PhaseInv
        /\ OrderInv
        /\ TextInv
        /\ WholeInv
        /\ FitInv
        /\ FullInv
        /\ SavedInv
        /\ SkipInv
        /\ FieldInv
        /\ CurInv
        /\ RecordInv
        /\ OneSave
        /\ NoMixing
        /\ OnlyCutFilesThrow
===============================================================================
