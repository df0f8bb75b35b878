------------------------- MODULE ProvisioningProofs -------------------------
(***************************************************************************)
(* Theorems about Provisioning: the configuration file of a reporter and   *)
(* the rows of computer_table, over kills and restarts of both programs.   *)
(***************************************************************************)
EXTENDS Provisioning, WellFoundedInduction, TLAPS

-----------------------------------------------------------------------------
(* Inductive invariants *)

\* The reporter has read its file.
Running == rpc \notin {"off", "dead"}

\* Words that stand for a number.
IdWords == {to_string(n) : n \in Ids}

Numeric(w) == w \in {""} \cup IdWords

\* The file, the map and what save() has still to write.
ConfigTypes ==
    /\ file \in {NoFile} \cup Seq(Lines)
    /\ given \in Seq(Lines)
    /\ file # NoFile => \A i \in DOMAIN file : Word(file[i]) \in Words
    /\ DOMAIN config_ \subseteq ReporterKeys
    /\ \A k \in DOMAIN config_ : config_[k] \in Words
    /\ rpc \in {"off", "loaded", "connect", "handshake", "answer", "save", "up", "dead"}
    /\ todo \subseteq DOMAIN config_
    /\ Running => file # NoFile
    /\ rpc = "save" <=> todo # {}

\* Half-way through save() the file holds the lines of the keys that are done.
PartlySaved ==
    rpc = "save" =>
        /\ {file[i].key : i \in DOMAIN file} = DOMAIN config_ \ todo
        /\ \A i \in DOMAIN file : file[i] = Saved(config_, file[i].key)
        /\ "computer_id" \in DOMAIN config_

\* The tables and the faults.
ServerTypes ==
    /\ spc \in {"off", "create", "up"}
    /\ made \in -1..Len(Tables)
    /\ spc = "create" => made \in 0..(Len(Tables) - 1)
    /\ tables \subseteq Range(Tables)
    /\ damage \subseteq {"torn", "interrupted", "unwritable"}
    /\ rows \in Nat /\ lost \in Nat /\ faults \in 0..MaxFaults
    /\ lost <= faults

\* A setting is as the operator wrote it, or gone with a save that was cut short.
Kept(w, k) == w = Says(given, k) \/ (w = "" /\ "torn" \in damage)

ConfigKept ==
    \A k \in ReporterKeys \ {"computer_id"} :
        /\ file # NoFile /\ rpc # "save" => Kept(Says(file, k), k)
        /\ Running => Kept(find(config_, k), k)

\* The identifier w is that of a row.
HasRow(w) == w # "" /\ stol(w) \in 1..rows

\* The identifier in the file, in the map, and as the operator wrote it.
FileId == Says(file, "computer_id")
MapId == find(config_, "computer_id")
GivenId == Says(given, "computer_id")

\* The operator's or that of a row.
Rightful(w) == w \in {"", GivenId} \/ HasRow(w)

\* The identifiers in the file and in the map are rightful, and the answer is that
\* of a row, unless it is what the reporter had.
IdsHaveRows ==
    /\ Numeric(GivenId)
    /\ answer \in Ids
    /\ file # NoFile /\ rpc # "save" => Numeric(FileId) /\ Rightful(FileId)
    /\ Running => Numeric(MapId) /\ Rightful(MapId)
    /\ rpc = "answer" /\ Changed => answer \in 1..rows

\* The map has what the file has, or an identifier with a row that save() could
\* not write.
MapFollowsFile == Running /\ rpc # "save" => MapId = FileId \/ HasRow(MapId)

\* The reporter goes by a row, and will do so after a restart, or loses an
\* answer with what it is doing.
GoesByRow ==
    /\ file # NoFile
    /\ rpc \in {"off", "dead", "loaded", "connect", "handshake", "up"} => HasRow(FileId)
    /\ rpc \in {"loaded", "connect", "handshake", "up", "save"} => HasRow(MapId)
    /\ rpc = "answer" => answer \in 1..rows /\ (Changed \/ HasRow(FileId))

\* As many rows as answers were lost, and at most one more that is in use.
RowsCounted == rows <= lost \/ (rows <= 1 + lost /\ GoesByRow)

ProvisioningInv ==
    /\ ConfigTypes /\ PartlySaved /\ ServerTypes /\ ConfigKept /\ IdsHaveRows
    /\ MapFollowsFile /\ RowsCounted
-----------------------------------------------------------------------------
(* The map and the file *)

\* find() leaves a key in the map that a caller sees no difference of.
LEMMA FoundSame ==
    ASSUME NEW m, NEW k
    PROVE  /\ DOMAIN Found(m, k) = DOMAIN m \cup {k}
           /\ \A x : find(Found(m, k), x) = find(m, x)
           /\ \A x \in DOMAIN Found(m, k) : Found(m, k)[x] = find(m, x)
BY DEF Found, find, emplace, put

\* A set of naturals that is not empty has a least element.
LEMMA LeastElement ==
    ASSUME NEW T, T \subseteq Nat, T # {}
    PROVE  \E x \in T : \A y \in T : x <= y
<1>1. PICK x \in T : \A y \in T : <<y, x>> \notin OpToRel(<, Nat)
      BY NatLessThanWellFounded, WFMin
<1>2. \A y \in T : ~(y < x)
      BY <1>1 DEF OpToRel
<1> QED BY <1>2

\* Line i is the first of its key among the first n.
FirstOf(s, i, n) == i \in 1..n /\ \A j \in 1..n : s[j].key = s[i].key => i <= j

\* A file that has a key says of it what one of its lines does.
LEMMA SaysFirst ==
    ASSUME NEW S, NEW s \in Seq(S)
    PROVE  /\ \A i : FirstOf(s, i, Len(s)) => Says(s, s[i].key) = Word(s[i])
           /\ \A i \in 1..Len(s) : \E j \in 1..Len(s) : /\ s[j].key = s[i].key
                                                       /\ Says(s, s[i].key) = Word(s[j])
           /\ \A k : (\A i \in 1..Len(s) : s[i].key # k) => Says(s, k) = ""
<1>0. DOMAIN s = 1..Len(s) /\ Len(s) \in Nat
      OBVIOUS
<1>1. ASSUME NEW i, FirstOf(s, i, Len(s)) PROVE Says(s, s[i].key) = Word(s[i])
  <2> DEFINE at == {j \in DOMAIN s : s[j].key = s[i].key}
             least == CHOOSE x \in at : \A j \in at : x <= j
  <2>1. i \in at /\ (\A j \in at : i <= j) /\ at \subseteq Nat
        BY <1>0, <1>1 DEF FirstOf
  <2>2. Says(s, s[i].key) = Word(s[least])
        BY <2>1 DEF Says
  <2>3. least \in at /\ \A j \in at : least <= j
        BY <2>1
  <2> HIDE DEF at, least
  <2>4. least = i
        BY <2>1, <2>3
  <2> QED BY <2>2, <2>4
<1>2. ASSUME NEW i \in 1..Len(s)
      PROVE  \E j \in 1..Len(s) : s[j].key = s[i].key /\ Says(s, s[i].key) = Word(s[j])
  <2> DEFINE at == {j \in 1..Len(s) : s[j].key = s[i].key}
  <2>1. at \subseteq Nat /\ at # {}
        BY <1>0
  <2>2. PICK j \in at : \A x \in at : j <= x
    <3> HIDE DEF at
    <3> QED BY <2>1, LeastElement
  <2>3. FirstOf(s, j, Len(s)) /\ s[j].key = s[i].key
        BY <2>2 DEF FirstOf
  <2> QED BY <1>1, <2>3
<1>3. ASSUME NEW k, \A i \in 1..Len(s) : s[i].key # k PROVE Says(s, k) = ""
      BY <1>0, <1>3 DEF Says
<1> QED BY <1>1, <1>2, <1>3

\* One line of the loop of load(), as a function of the map before it.
Round(s, f, n) == IF n = 0 THEN EmptyMap ELSE emplace(f[n - 1], s[n].key, Word(s[n]))

\* The lines can be read to the last: a function follows the rounds.
LEMMA LinesRead ==
    ASSUME NEW S, NEW s \in Seq(S)
    PROVE  \A m \in 0..Len(s) : \E f : f = [n \in 0..m |-> Round(s, f, n)]
<1> DEFINE Runs(m) == \E f : f = [n \in 0..m |-> Round(s, f, n)]
           T == {m \in 0..Len(s) : ~Runs(m)}
<1>1. SUFFICES ASSUME T # {} PROVE FALSE
      BY <1>1
<1>2. PICK m \in T : \A y \in T : m <= y
  <2>1. T \subseteq Nat
        OBVIOUS
  <2> HIDE DEF T
  <2> QED BY <1>1, <2>1, LeastElement
<1>3. m \in 0..Len(s) /\ ~Runs(m)
      OBVIOUS
<1>4. CASE m = 0
  <2> DEFINE g == [n \in 0..0 |-> EmptyMap]
  <2>1. g = [n \in 0..0 |-> Round(s, g, n)]
        BY DEF Round
  <2> QED BY <1>3, <1>4, <2>1
<1>5. CASE m # 0
  <2>1. m - 1 \in 0..Len(s) /\ m - 1 \notin T
        BY <1>2, <1>3, <1>5
  <2>2. PICK f : f = [n \in 0..(m - 1) |-> Round(s, f, n)]
        BY <2>1
  <2> DEFINE g == [n \in 0..m |-> IF n = m THEN Round(s, f, m) ELSE f[n]]
  <2>3. \A n \in 0..m : Round(s, g, n) = Round(s, f, n)
        BY <1>3, <1>5 DEF Round
  <2>4. \A n \in 0..m : g[n] = Round(s, g, n)
    <3>1. \A n \in 0..m : n # m => n \in 0..(m - 1)
          BY <1>3
    <3>2. \A n \in 0..(m - 1) : f[n] = Round(s, f, n)
          BY <2>2
    <3> QED BY <2>3, <3>1, <3>2
  <2>5. g = [n \in 0..m |-> Round(s, g, n)]
        BY <2>4
  <2> QED BY <1>3, <2>5
<1> QED BY <1>4, <1>5

\* After n lines the map has their keys, each with the word of its first line.
Reads(s, m, n) ==
    /\ DOMAIN m = {s[i].key : i \in 1..n}
    /\ \A i : FirstOf(s, i, n) => m[s[i].key] = Word(s[i])

\* load() of a file of any length.
LEMMA LoadReads ==
    ASSUME NEW S, NEW s \in Seq(S)
    PROVE  Reads(s, load(s), Len(s))
<1> DEFINE Follows(f) == f = [n \in 0..Len(s) |-> Round(s, f, n)]
           config == CHOOSE f : Follows(f)
<1>1. load(s) = config[Len(s)]
      BY DEF load, Round
<1>2. Len(s) \in Nat /\ Len(s) \in 0..Len(s)
      OBVIOUS
<1>3. \E f : Follows(f)
      BY <1>2, LinesRead
<1>4. Follows(config)
      BY <1>3
<1>5. \A n \in 0..Len(s) : config[n] = Round(s, config, n)
      BY <1>4
<1> HIDE DEF config, Follows
<1> DEFINE T == {n \in 0..Len(s) : ~Reads(s, config[n], n)}
<1>6. ASSUME T # {} PROVE FALSE
  <2>1. T \subseteq Nat
        OBVIOUS
  <2>2. PICK m \in T : \A y \in T : m <= y
    <3> HIDE DEF T
    <3> QED BY <1>6, <2>1, LeastElement
  <2>a. m \in 0..Len(s) /\ m \in Nat /\ ~Reads(s, config[m], m)
        BY <1>2
  <2>3. m # 0
    <3>1. SUFFICES ASSUME m = 0 PROVE Reads(s, config[m], m)
          BY <2>a
    <3>2. config[0] = EmptyMap
          BY <1>2, <1>5 DEF Round
    <3> QED BY <3>1, <3>2 DEF Reads, FirstOf, EmptyMap
  <2>4. m - 1 \in 0..Len(s) /\ m - 1 \notin T
        BY <1>2, <2>2, <2>3, <2>a
  <2> DEFINE old == config[m - 1]
             new == config[m]
  <2>5. new = emplace(old, s[m].key, Word(s[m]))
        BY <1>5, <2>3, <2>a DEF Round
  <2>6. Reads(s, old, m - 1)
        BY <2>4
  <2> HIDE DEF T, old, new
  <2>7. /\ DOMAIN new = DOMAIN old \cup {s[m].key}
        /\ \A x \in DOMAIN old : new[x] = old[x]
        /\ s[m].key \notin DOMAIN old => new[s[m].key] = Word(s[m])
        BY <2>5 DEF emplace, put
  <2>8. 1..m = (1..(m - 1)) \cup {m}
        BY <2>3, <2>a
  <2>9. DOMAIN new = {s[i].key : i \in 1..m}
        BY <2>6, <2>7, <2>8 DEF Reads
  <2>10. ASSUME NEW i, FirstOf(s, i, m) PROVE new[s[i].key] = Word(s[i])
    <3>1. CASE i = m
      <4>1. \A j \in 1..(m - 1) : s[j].key # s[m].key
            BY <2>8, <2>10, <2>a, <3>1 DEF FirstOf
      <4> QED BY <2>6, <2>7, <3>1, <4>1 DEF Reads
    <3>2. CASE i # m
      <4>1. i \in 1..(m - 1) /\ FirstOf(s, i, m - 1)
            BY <2>8, <2>10, <3>2 DEF FirstOf
      <4> QED BY <2>6, <2>7, <4>1 DEF Reads
    <3> QED BY <3>1, <3>2
  <2>11. Reads(s, new, m)
        BY <2>9, <2>10 DEF Reads
  <2> QED BY <2>11, <2>a DEF new
<1> QED BY <1>1, <1>2, <1>6

\* load() reads a file of any length as it is meant: find() on the map it leaves
\* gives the first word of the key's first line, and "" for a key without one.
THEOREM LoadMeansFile ==
    ASSUME NEW S, NEW s \in Seq(S)
    PROVE  \A k : find(load(s), k) = Says(s, k)
<1>1. SUFFICES ASSUME NEW k PROVE find(load(s), k) = Says(s, k)
      OBVIOUS
<1>2. Reads(s, load(s), Len(s)) /\ Len(s) \in Nat
      BY LoadReads
<1>3. CASE \A i \in 1..Len(s) : s[i].key # k
  <2>1. k \notin DOMAIN load(s)
        BY <1>2, <1>3 DEF Reads
  <2> QED BY <1>3, <2>1, SaysFirst DEF find
<1>4. CASE \E i \in 1..Len(s) : s[i].key = k
  <2> DEFINE at == {j \in 1..Len(s) : s[j].key = k}
  <2>1. at \subseteq Nat /\ at # {}
        BY <1>4
  <2>2. PICK i \in at : \A x \in at : i <= x
    <3> HIDE DEF at
    <3> QED BY <2>1, LeastElement
  <2>3. FirstOf(s, i, Len(s)) /\ s[i].key = k
        BY <2>2 DEF FirstOf
  <2>4. k \in DOMAIN load(s) /\ load(s)[k] = Word(s[i])
        BY <1>2, <2>3 DEF Reads, FirstOf
  <2> QED BY <2>3, <2>4, SaysFirst DEF find
<1> QED BY <1>3, <1>4
LEMMA LinesHave ==
    ASSUME NEW l \in Lines
    PROVE  l.key \in ReporterKeys /\ l.words \in Seq(STRING) /\ Word(l) \in STRING
<1>1. l.key \in ReporterKeys /\ l.words \in Seq(STRING)
      BY DEF Lines
<1>2. \A w \in Seq(STRING) : w # <<>> => Head(w) \in STRING
      OBVIOUS
<1> QED BY <1>1, <1>2, WordsAssumption DEF Word

\* The map of a file has keys and words of the file.
LEMMA LoadTyped ==
    ASSUME NEW s \in Seq(Lines), \A i \in DOMAIN s : Word(s[i]) \in Words
    PROVE  /\ DOMAIN load(s) \subseteq ReporterKeys
           /\ \A k \in DOMAIN load(s) : load(s)[k] \in Words
<1>0. Reads(s, load(s), Len(s))
      BY LoadReads
<1>1. DOMAIN load(s) = {s[i].key : i \in 1..Len(s)} /\ DOMAIN s = 1..Len(s)
      BY <1>0 DEF Reads
<1>2. \A i \in 1..Len(s) : s[i] \in Lines /\ s[i].key \in ReporterKeys
      BY LinesHave
<1>3. ASSUME NEW k \in DOMAIN load(s) PROVE load(s)[k] \in Words
  <2>1. PICK i \in 1..Len(s) : s[i].key = k
        BY <1>1
  <2>2. \E j \in 1..Len(s) : s[j].key = s[i].key /\ Says(s, s[i].key) = Word(s[j])
        BY SaysFirst
  <2>3. Says(s, k) \in Words
        BY <1>1, <2>1, <2>2
  <2>4. find(load(s), k) = Says(s, k)
        BY LoadMeansFile
  <2> QED BY <2>3, <2>4 DEF find
<1> QED BY <1>1, <1>2, <1>3

\* What is a word, and that every word is a string.
LEMMA WordsAreStrings ==
    /\ "" \in Words
    /\ \A n \in Ids : to_string(n) \in Words
    /\ \A f \in Files : \A i \in DOMAIN f : Word(f[i]) \in Words
    /\ Words \subseteq STRING
<1> DEFINE numbers == {to_string(n) : n \in Ids}
           OfFile(f) == {Word(f[i]) : i \in DOMAIN f}
           OfFiles == UNION {OfFile(f) : f \in Files}
<1>1. Words = {""} \cup numbers \cup OfFiles
      BY DEF Words
<1>2. ASSUME NEW f \in Files, NEW i \in DOMAIN f PROVE Word(f[i]) \in STRING
  <2>1. f \in Seq(Lines)
        BY ProvisioningAssumption
  <2> QED BY <2>1, LinesHave
<1>3. numbers \subseteq STRING /\ "" \in STRING
      BY WordsAssumption
<1>4. \A f \in Files : OfFile(f) \subseteq STRING
      BY <1>2
<1>5. \A f \in Files : OfFile(f) \subseteq OfFiles
      BY Zenon
<1>6. OfFiles \subseteq STRING
  <2> HIDE DEF OfFile
  <2> QED BY <1>4
<1>7. \A f \in Files : \A i \in DOMAIN f : Word(f[i]) \in OfFiles
  <2>1. \A f \in Files : \A i \in DOMAIN f : Word(f[i]) \in OfFile(f)
        OBVIOUS
  <2> HIDE DEF OfFile, OfFiles
  <2> QED BY <1>5, <2>1
<1>8. \A n \in Ids : to_string(n) \in numbers
      OBVIOUS
<1> HIDE DEF numbers, OfFiles
<1> QED BY <1>1, <1>3, <1>6, <1>7, <1>8

\* stol() undoes std::to_string().
LEMMA StolWord ==
    /\ \A n \in Ids : stol(to_string(n)) = n /\ to_string(n) # ""
    /\ \A w \in IdWords : stol(w) \in Ids /\ to_string(stol(w)) = w /\ w # ""
<1>1. ASSUME NEW n \in Ids PROVE stol(to_string(n)) = n
  <2> DEFINE P(m) == to_string(m) = to_string(n)
  <2>1. \A m \in Ids : P(m) <=> m = n
        BY WordsAssumption
  <2>2. (CHOOSE m \in Ids : P(m)) = n
        BY <2>1
  <2> QED BY <2>2 DEF stol
<1>2. \A n \in Ids : to_string(n) # ""
      BY WordsAssumption
<1> QED BY <1>1, <1>2 DEF IdWords

\* A line that save() writes is read back as the word it was written for.
LEMMA SavedReads ==
    ASSUME NEW m, NEW k \in ReporterKeys, m[k] \in Words
    PROVE  /\ Saved(m, k) \in Lines
           /\ Saved(m, k).key = k
           /\ Word(Saved(m, k)) = m[k]
<1>1. m[k] \in STRING
      BY WordsAreStrings
<1> DEFINE ws == IF m[k] = "" THEN <<>> ELSE <<m[k]>>
<1>2. \A S : \A v \in S : <<v>> \in Seq(S) /\ <<v>> # <<>> /\ Head(<<v>>) = v
      OBVIOUS
<1>3. ws \in Seq(STRING) /\ (IF ws = <<>> THEN "" ELSE Head(ws)) = m[k]
  <2>0. \A S : <<>> \in Seq(S)
        OBVIOUS
  <2>1. CASE m[k] = ""
        BY <2>0, <2>1, Zenon
  <2>2. CASE m[k] # ""
        BY <1>1, <1>2, <2>2, Zenon
  <2> QED BY <2>1, <2>2
<1> HIDE DEF ws
<1>4. Saved(m, k) = [key |-> k, words |-> ws]
      BY DEF Saved, Line, ws
<1>5. Saved(m, k).key = k /\ Saved(m, k).words = ws
      BY <1>4
<1>6. Saved(m, k) \in Lines
  <2>1. \A K, W : \A x \in K, w \in W : [key |-> x, words |-> w] \in [key : K, words : W]
        OBVIOUS
  <2> QED BY <1>3, <1>4, <2>1, Zenon DEF Lines
<1> QED BY <1>3, <1>5, <1>6 DEF Word

\* Half-way through save() the file says what the map does, of the keys done.
LEMMA PartlySays ==
    ASSUME ConfigTypes, PartlySaved, rpc = "save"
    PROVE  \A k : Says(file, k) = IF k \in DOMAIN config_ \ todo THEN config_[k] ELSE ""
<1>1. file \in Seq(Lines) /\ DOMAIN file = 1..Len(file)
      BY DEF ConfigTypes, Running
<1>2. ASSUME NEW k \in DOMAIN config_ \ todo PROVE Says(file, k) = config_[k]
  <2>1. PICK i \in 1..Len(file) : file[i].key = k
        BY <1>1 DEF PartlySaved
  <2>2. PICK j \in 1..Len(file) : /\ file[j].key = file[i].key
                                  /\ Says(file, file[i].key) = Word(file[j])
        BY <1>1, SaysFirst
  <2>3. file[j] = Saved(config_, k) /\ Says(file, k) = Word(file[j])
        BY <1>1, <2>1, <2>2 DEF PartlySaved
  <2>4. k \in ReporterKeys /\ config_[k] \in Words
        BY DEF ConfigTypes
  <2> QED BY <2>3, <2>4, SavedReads
<1>3. ASSUME NEW k, k \notin DOMAIN config_ \ todo PROVE Says(file, k) = ""
  <2>1. \A i \in 1..Len(file) : file[i].key # k
        BY <1>1, <1>3 DEF PartlySaved
  <2> QED BY <1>1, <2>1, SaysFirst
<1> QED BY <1>2, <1>3

\* With the last line the file says what the map does.
LEMMA LastLine ==
    ASSUME ConfigTypes, PartlySaved, NEW j \in ReporterKeys, SaveLine(j), todo = {j}
    PROVE  \A k : Says(file', k) = find(config_, k)
<1>1. /\ rpc = "save" /\ file \in Seq(Lines) /\ j \in DOMAIN config_ /\ config_[j] \in Words
      /\ file' = Append(file, Saved(config_, j))
      BY DEF SaveLine, ConfigTypes, Running
<1> DEFINE l == Saved(config_, j)
<1>2. l \in Lines /\ l.key = j /\ Word(l) = config_[j]
      BY <1>1, SavedReads
<1> HIDE DEF l
<1>3. /\ file' \in Seq(Lines) /\ Len(file') = Len(file) + 1 /\ Len(file) \in Nat
      /\ \A i \in 1..Len(file) : file'[i] = file[i]
      /\ file'[Len(file) + 1] = l
      BY <1>1, <1>2 DEF l
<1>4. DOMAIN file = 1..Len(file)
      BY <1>1
<1>5. \A i \in 1..Len(file) : file[i] = Saved(config_, file[i].key)
      BY <1>1, <1>4 DEF PartlySaved
<1>6. \A i \in 1..Len(file') : file'[i] = Saved(config_, file'[i].key)
      BY <1>2, <1>3, <1>5 DEF l
<1>7. {file[i].key : i \in 1..Len(file)} = DOMAIN config_ \ {j}
      BY <1>1, <1>4 DEF PartlySaved
<1>8. {file'[i].key : i \in 1..Len(file')} = DOMAIN config_
  <2>1. {file'[i].key : i \in 1..Len(file')} = {file[i].key : i \in 1..Len(file)} \cup {j}
        BY <1>2, <1>3
  <2> QED BY <1>1, <1>7, <2>1
<1>9. ASSUME NEW k \in DOMAIN config_ PROVE Says(file', k) = config_[k]
  <2>1. PICK i \in 1..Len(file') : file'[i].key = k
        BY <1>8
  <2>2. PICK x \in 1..Len(file') : /\ file'[x].key = file'[i].key
                                   /\ Says(file', file'[i].key) = Word(file'[x])
        BY <1>3, SaysFirst
  <2>3. file'[x] = Saved(config_, k) /\ Says(file', k) = Word(file'[x])
        BY <1>6, <2>1, <2>2
  <2>4. k \in ReporterKeys /\ config_[k] \in Words
        BY DEF ConfigTypes
  <2> QED BY <2>3, <2>4, SavedReads
<1>10. ASSUME NEW k, k \notin DOMAIN config_ PROVE Says(file', k) = ""
  <2>1. \A i \in 1..Len(file') : file'[i].key # k
        BY <1>8, <1>10
  <2> QED BY <1>3, <2>1, SaysFirst
<1> QED BY <1>9, <1>10 DEF find

-----------------------------------------------------------------------------
(* Steps that change no file, map, identifier or row *)

Quiet ==
    /\ UNCHANGED <<file, config_, answer, todo, lost, rows, given>>
    /\ damage \subseteq damage'
    /\ \/ rpc' = rpc
       \/ rpc = "answer" /\ ~Changed /\ rpc' = "up"
       \/ /\ rpc \in {"loaded", "connect", "handshake", "up"}
          /\ rpc' \in {"connect", "handshake", "dead"}

LEMMA QuietSteps ==
    [Next]_vars => \/ Quiet
                   \/ Start \/ Provision \/ SaveOpen \/ SaveRefused \/ RunCommand \/ Kill
                   \/ \E k \in ReporterKeys : SaveLine(k)
<1>1. Construct \/ Connect => Quiet
      BY DEF Construct, Connect, Needs, Quiet, serverVars, restVars
<1>2. HandshakeThrows \/ ProvisionCrashes \/ Confirmed => Quiet
      BY DEF HandshakeThrows, ProvisionCrashes, Confirmed, Quiet, serverVars, restVars
<1>3. Reconnect => Quiet
      BY DEF Reconnect, Fault, Quiet, serverVars
<1>4. ServerStart \/ CreateTable \/ ServerKill => Quiet
      BY DEF ServerStart, CreateTable, ServerKill, Fault, Quiet, reporterVars, restVars
<1>5. UNCHANGED vars => Quiet
      BY DEF vars, Quiet, reporterVars, serverVars, restVars
<1> QED BY <1>1, <1>2, <1>3, <1>4, <1>5 DEF Next, Reporter, Server

-----------------------------------------------------------------------------
(* Types *)

LEMMA ConfigInit == Init => ConfigTypes /\ PartlySaved
<1> SUFFICES ASSUME Init PROVE ConfigTypes /\ PartlySaved
      OBVIOUS
<1>1. file # NoFile => file \in Files /\ file \in Seq(Lines)
      BY ProvisioningAssumption DEF Init
<1>2. given \in Seq(Lines)
      BY <1>1 DEF Init
<1>3. file # NoFile => \A i \in DOMAIN file : Word(file[i]) \in Words
      BY <1>1, WordsAreStrings
<1>4. DOMAIN config_ = {} /\ todo = {} /\ rpc = "off"
      BY DEF Init, EmptyMap
<1> QED BY <1>1, <1>2, <1>3, <1>4 DEF Init, ConfigTypes, PartlySaved, Running

\* The file and the map hold words of the operator or numbers, and a save that is
\* under way has written what it has not still to write.
LEMMA ConfigStep ==
    ConfigTypes /\ PartlySaved /\ IdsHaveRows /\ [Next]_vars => ConfigTypes' /\ PartlySaved'
<1> SUFFICES ASSUME ConfigTypes, PartlySaved, IdsHaveRows, [Next]_vars
             PROVE  ConfigTypes' /\ PartlySaved'
      OBVIOUS
<1>1. CASE Quiet
      BY <1>1 DEF Quiet, ConfigTypes, PartlySaved, Running
<1>2. CASE Start
  <2>1. UNCHANGED <<file, todo, given>> /\ rpc' # "save" /\ todo = {}
        BY <1>2 DEF Start, restVars, ConfigTypes
  <2>2. CASE file = NoFile
        BY <1>2, <2>1, <2>2 DEF Start, ConfigTypes, PartlySaved, Running
  <2>3. CASE file # NoFile
    <3>1. config_' = load(file) /\ rpc' = "loaded" /\ file \in Seq(Lines)
          BY <1>2, <2>3 DEF Start, ConfigTypes
    <3>2. /\ DOMAIN config_' \subseteq ReporterKeys
          /\ \A k \in DOMAIN config_' : config_'[k] \in Words
          BY <2>3, <3>1, LoadTyped DEF ConfigTypes
    <3> QED BY <2>1, <2>3, <3>1, <3>2 DEF ConfigTypes, PartlySaved, Running
  <2> QED BY <2>2, <2>3
<1>3. CASE Provision
      BY <1>3 DEF Provision, restVars, ConfigTypes, PartlySaved, Running
<1>4. CASE SaveOpen \/ SaveRefused
  <2>1. config_' = replace(config_, "computer_id", to_string(answer)) /\ given' = given
        BY <1>4 DEF SaveOpen, SaveRefused, restVars
  <2>2. to_string(answer) \in Words
        BY WordsAreStrings DEF IdsHaveRows
  <2>3. /\ DOMAIN config_' = DOMAIN config_ \cup {"computer_id"}
        /\ \A x \in DOMAIN config_' :
              config_'[x] = IF x = "computer_id" THEN to_string(answer) ELSE config_[x]
        BY <2>1 DEF replace, put
  <2>4. DOMAIN config_' \subseteq ReporterKeys /\ \A k \in DOMAIN config_' : config_'[k] \in Words
        BY <2>2, <2>3 DEF ConfigTypes, ReporterKeys
  <2>5. CASE SaveOpen
    <3>1. file' = <<>> /\ file' \in Seq(Lines) /\ todo' = DOMAIN config_' /\ rpc' = "save"
          BY <2>5 DEF SaveOpen
    <3>2. file' # NoFile
          BY <3>1, ProvisioningAssumption
    <3>3. {file'[i].key : i \in DOMAIN file'} = DOMAIN config_' \ todo'
          BY <3>1
    <3> QED BY <2>1, <2>3, <2>4, <3>1, <3>2, <3>3 DEF ConfigTypes, PartlySaved, Running
  <2>6. CASE SaveRefused
    <3>1. UNCHANGED <<file, todo>> /\ rpc = "answer" /\ rpc' = "up"
          BY <2>6 DEF SaveRefused
    <3> QED BY <2>1, <2>3, <2>4, <3>1 DEF ConfigTypes, PartlySaved, Running
  <2> QED BY <1>4, <2>5, <2>6
<1>5. ASSUME NEW k \in ReporterKeys, SaveLine(k) PROVE ConfigTypes' /\ PartlySaved'
  <2>1. /\ rpc = "save" /\ k \in todo /\ UNCHANGED <<config_, given>>
        /\ file' = Append(file, Saved(config_, k)) /\ todo' = todo \ {k}
        /\ rpc' = IF todo' = {} THEN "up" ELSE "save"
        BY <1>5 DEF SaveLine, restVars
  <2>2. file \in Seq(Lines) /\ k \in DOMAIN config_ /\ config_[k] \in Words
        BY <2>1 DEF ConfigTypes, Running
  <2> DEFINE l == Saved(config_, k)
  <2>3. l \in Lines /\ l.key = k /\ Word(l) = config_[k]
        BY <2>2, SavedReads
  <2> HIDE DEF l
  <2>4. /\ file' \in Seq(Lines) /\ DOMAIN file' = DOMAIN file \cup {Len(file) + 1}
        /\ \A i \in DOMAIN file : file'[i] = file[i]
        /\ file'[Len(file) + 1] = l
        BY <2>1, <2>2, <2>3 DEF l
  <2>5. file' # NoFile
        BY <2>4, ProvisioningAssumption
  <2>6. \A i \in DOMAIN file' : Word(file'[i]) \in Words
        BY <2>1, <2>2, <2>3, <2>4 DEF ConfigTypes, Running
  <2>7. todo' \subseteq DOMAIN config_' /\ (rpc' = "save" <=> todo' # {})
        BY <2>1 DEF ConfigTypes
  <2>8. ConfigTypes'
        BY <2>1, <2>4, <2>5, <2>6, <2>7 DEF ConfigTypes, Running
  <2>9. {file'[i].key : i \in DOMAIN file'} = {file[i].key : i \in DOMAIN file} \cup {k}
        BY <2>3, <2>4
  <2>10. {file'[i].key : i \in DOMAIN file'} = DOMAIN config_' \ todo'
        BY <2>1, <2>2, <2>9 DEF PartlySaved
  <2>11. \A i \in DOMAIN file' : file'[i] = Saved(config_', file'[i].key)
        BY <2>1, <2>3, <2>4 DEF PartlySaved, l
  <2> QED BY <2>1, <2>8, <2>10, <2>11 DEF PartlySaved
<1>6. CASE RunCommand
  <2>1. UNCHANGED <<file, given, rpc, todo>> /\ rpc = "up" /\ config_' = Found(config_, "shell")
        BY <1>6 DEF RunCommand, restVars
  <2>2. /\ DOMAIN config_' = DOMAIN config_ \cup {"shell"}
        /\ \A x \in DOMAIN config_' : config_'[x] = find(config_, x)
        BY <2>1, FoundSame
  <2>3. DOMAIN config_' \subseteq ReporterKeys /\ \A k \in DOMAIN config_' : config_'[k] \in Words
        BY <2>2, WordsAreStrings DEF ConfigTypes, ReporterKeys, find
  <2> QED BY <2>1, <2>2, <2>3 DEF ConfigTypes, PartlySaved, Running
<1>7. CASE Kill
  <2>1. UNCHANGED <<file, given>> /\ rpc' = "off" /\ config_' = EmptyMap /\ todo' = {}
        BY <1>7 DEF Kill
  <2> QED BY <2>1 DEF ConfigTypes, PartlySaved, Running, EmptyMap
<1> QED BY <1>1, <1>2, <1>3, <1>4, <1>5, <1>6, <1>7, QuietSteps
\* Faults are within their bound, and no more answers are lost than faults happen.
LEMMA ServerStep == ConfigTypes /\ ServerTypes /\ [Next]_vars => ServerTypes'
<1> SUFFICES ASSUME ConfigTypes, ServerTypes, [Next]_vars PROVE ServerTypes'
      OBVIOUS
<1>0. MaxFaults \in Nat
      BY ProvisioningAssumption
<1>1. Len(Tables) = 6 /\ \A n \in 0..5 : Tables[n + 1] \in Range(Tables)
  <2>1. Len(Tables) = 6
        BY DEF Tables
  <2>2. DOMAIN Tables = 1..6
        BY DEF Tables
  <2>3. \A i \in 1..6 : Tables[i] \in Range(Tables)
        BY <2>2 DEF Range
  <2>4. \A n \in 0..5 : n + 1 \in 1..6
        OBVIOUS
  <2> QED BY <2>1, <2>3, <2>4
<1> USE <1>0, <1>1 DEF ServerTypes
<1>2. CASE UNCHANGED <<serverVars, damage, faults, lost>>
      BY <1>2 DEF serverVars
<1>3. CASE Start \/ Construct \/ Connect \/ HandshakeThrows \/ Confirmed \/ SaveOpen
           \/ RunCommand \/ UNCHANGED vars \/ \E k \in ReporterKeys : SaveLine(k)
      BY <1>2, <1>3 DEF Start, Construct, Connect, Needs, HandshakeThrows, Confirmed, SaveOpen,
                        RunCommand, SaveLine, vars, serverVars, restVars, reporterVars
<1>4. CASE Provision
  <2>1. UNCHANGED <<spc, made, tables, lost, damage, faults>> /\ rows' \in {rows, rows + 1}
        BY <1>4 DEF Provision, restVars
  <2> QED BY <2>1
<1>5. CASE ProvisionCrashes
      BY <1>5 DEF ProvisionCrashes, restVars
<1>6. CASE SaveRefused
      BY <1>6 DEF SaveRefused, Fault, serverVars
<1>7. CASE Reconnect
  <2>1. UNCHANGED <<serverVars, lost>>
        BY <1>7 DEF Reconnect
  <2>2. \/ UNCHANGED <<damage, faults>>
        \/ faults < MaxFaults /\ faults' = faults + 1 /\ damage' = damage
        BY <1>7 DEF Reconnect, Fault
  <2>3. faults' \in 0..MaxFaults /\ faults <= faults'
        BY <2>2
  <2>4. damage' = damage
        BY <2>2
  <2> QED BY <2>1, <2>3, <2>4 DEF serverVars
<1>8. CASE Kill
  <2>1. lost' \in {lost, lost + 1} /\ UNCHANGED serverVars
        BY <1>8 DEF Kill
  <2>2. faults' = faults + 1 /\ faults < MaxFaults /\ damage' \subseteq damage \cup {"torn"}
        BY <1>8 DEF Kill, Fault
  <2> QED BY <2>1, <2>2 DEF serverVars
<1>9. CASE ServerStart
      BY <1>1, <1>9 DEF ServerStart, reporterVars, restVars
<1>10. CASE CreateTable
  <2>1. made \in 0..5 /\ made' = made + 1 /\ spc' = IF made' = 6 THEN "up" ELSE "create"
        BY <1>1, <1>10 DEF CreateTable
  <2>2. UNCHANGED <<rows, lost>> /\ tables' \subseteq tables \cup {Tables[made + 1]}
        BY <1>10 DEF CreateTable, reporterVars
  <2>3. \/ UNCHANGED <<damage, faults>>
        \/ /\ faults < MaxFaults /\ faults' = faults + 1
           /\ damage' = damage \cup {"interrupted"}
        BY <1>10 DEF CreateTable, Fault
  <2>4. tables' \subseteq Range(Tables)
        BY <2>1, <2>2
  <2>5. /\ faults' \in 0..MaxFaults /\ lost' \in Nat /\ lost' <= faults' /\ rows' \in Nat
        /\ damage' \subseteq {"torn", "interrupted", "unwritable"}
    <3>1. faults' \in 0..MaxFaults /\ faults <= faults'
          BY <2>3
    <3>2. damage' \subseteq {"torn", "interrupted", "unwritable"}
          BY <2>3
    <3> QED BY <2>2, <3>1, <3>2
  <2>6. CASE made' = 6
        BY <2>1, <2>4, <2>5, <2>6
  <2>7. CASE made' # 6
        BY <2>1, <2>4, <2>5, <2>7
  <2> QED BY <2>6, <2>7
<1>11. CASE ServerKill
      BY <1>11 DEF ServerKill, Fault, reporterVars
<1> QED BY <1>3, <1>4, <1>5, <1>6, <1>7, <1>8, <1>9, <1>10, <1>11 DEF Next, Reporter, Server

-----------------------------------------------------------------------------
(* The operator's settings *)

LEMMA KeptInit == Init => ConfigKept
<1> SUFFICES ASSUME Init PROVE ConfigKept
      OBVIOUS
<1>1. file # NoFile => given = file
      BY DEF Init
<1> QED BY <1>1 DEF Init, ConfigKept, Kept, Running

\* No step changes a setting: it is the operator's, or was lost with the lines
\* that a save was killed before.
LEMMA KeptStep ==
    ConfigTypes /\ PartlySaved /\ ConfigKept /\ [Next]_vars => ConfigKept'
<1> SUFFICES ASSUME ConfigTypes, PartlySaved, ConfigKept, [Next]_vars,
                    NEW k \in ReporterKeys \ {"computer_id"}
             PROVE  /\ file' # NoFile /\ rpc' # "save" => Kept(Says(file, k), k)'
                    /\ Running' => Kept(find(config_, k), k)'
      BY DEF ConfigKept
<1>0. /\ file # NoFile /\ rpc # "save" => Kept(Says(file, k), k)
      /\ Running => Kept(find(config_, k), k)
      BY DEF ConfigKept
<1>1. CASE Quiet
  <2>1. UNCHANGED <<file, config_, given>> /\ damage \subseteq damage'
        /\ (rpc' = "save" <=> rpc = "save") /\ (Running' => Running)
        BY <1>1 DEF Quiet, Running
  <2> QED BY <1>0, <2>1 DEF Kept
<1>2. CASE Start
  <2>1. UNCHANGED <<file, given, damage>> /\ rpc # "save"
        BY <1>2 DEF Start, restVars
  <2>2. CASE file = NoFile
        BY <1>2, <2>1, <2>2 DEF Start, Running
  <2>3. CASE file # NoFile
    <3>1. config_' = load(file) /\ file \in Seq(Lines)
          BY <1>2, <2>3 DEF Start, ConfigTypes
    <3>2. find(config_', k) = Says(file, k)
          BY <3>1, LoadMeansFile
    <3> QED BY <1>0, <2>1, <2>3, <3>2 DEF Kept
  <2> QED BY <2>2, <2>3
<1>3. CASE Provision
  <2>1. UNCHANGED <<file, config_, given, damage>> /\ rpc = "handshake"
        BY <1>3 DEF Provision, restVars
  <2> QED BY <1>0, <2>1 DEF Kept, Running
<1>4. CASE SaveOpen \/ SaveRefused
  <2>1. /\ config_' = replace(config_, "computer_id", to_string(answer))
        /\ given' = given /\ damage \subseteq damage' /\ rpc = "answer"
        /\ rpc' = "save" \/ file' = file
        BY <1>4 DEF SaveOpen, SaveRefused, Fault, restVars
  <2>2. find(config_', k) = find(config_, k)
        BY <2>1 DEF replace, put, find
  <2> QED BY <1>0, <2>1, <2>2 DEF Kept, Running
<1>5. ASSUME NEW j \in ReporterKeys, SaveLine(j)
      PROVE  /\ file' # NoFile /\ rpc' # "save" => Kept(Says(file, k), k)'
             /\ Running' => Kept(find(config_, k), k)'
  <2>1. /\ rpc = "save" /\ UNCHANGED <<config_, given, damage>>
        /\ rpc' = IF todo' = {} THEN "up" ELSE "save"
        BY <1>5 DEF SaveLine, restVars
  <2>2. Kept(find(config_, k), k)'
        BY <1>0, <2>1 DEF Kept, Running
  <2>3. ASSUME rpc' # "save" PROVE Kept(Says(file, k), k)'
    <3>1. todo = {j} /\ file' = Append(file, Saved(config_, j))
          BY <1>5, <2>1, <2>3 DEF SaveLine
    <3>2. Says(file', k) = find(config_, k)
          BY <1>5, <3>1, LastLine
    <3> QED BY <1>0, <2>1, <3>2 DEF Kept, Running
  <2> QED BY <2>2, <2>3
<1>6. CASE RunCommand
  <2>1. UNCHANGED <<file, given, damage, rpc>> /\ config_' = Found(config_, "shell")
        BY <1>6 DEF RunCommand, restVars
  <2>2. find(config_', k) = find(config_, k)
        BY <2>1 DEF Found, emplace, put, find
  <2> QED BY <1>0, <2>1, <2>2 DEF Kept, Running
<1>7. CASE Kill
  <2>1. UNCHANGED <<file, given>> /\ rpc' = "off" /\ Running
        BY <1>7 DEF Kill, Running
  <2>2. damage \subseteq damage' /\ (rpc = "save" => "torn" \in damage')
        BY <1>7 DEF Kill, Fault
  <2>3. CASE rpc # "save"
        BY <1>0, <2>1, <2>2, <2>3 DEF Kept, Running
  <2>4. CASE rpc = "save"
    <3>1. Says(file, k) \in {find(config_, k), ""}
          BY <2>4, PartlySays DEF find
    <3> QED BY <1>0, <2>1, <2>2, <2>4, <3>1 DEF Kept, Running
  <2> QED BY <2>3, <2>4
<1> QED BY <1>1, <1>2, <1>3, <1>4, <1>5, <1>6, <1>7, QuietSteps
-----------------------------------------------------------------------------
(* The identifier *)

\* What a restart does: the map has the identifier of the file.
LEMMA StartReads ==
    ASSUME ConfigTypes, Start
    PROVE  /\ UNCHANGED <<file, given, rows, lost, answer, FileId, GivenId>>
           /\ rpc \in {"off", "dead"}
           /\ rpc' = "dead" \/ (file # NoFile /\ rpc' = "loaded" /\ MapId' = FileId)
<1>1. UNCHANGED <<file, given, rows, lost, answer>>
      BY DEF Start, serverVars, restVars
<1>2. ASSUME file # NoFile PROVE rpc' = "loaded" /\ MapId' = FileId
  <2>1. config_' = load(file) /\ file \in Seq(Lines) /\ rpc' = "loaded"
        BY <1>2 DEF Start, ConfigTypes
  <2> QED BY <2>1, LoadMeansFile DEF MapId, FileId
<1> QED BY <1>1, <1>2 DEF Start, FileId, GivenId

\* What a save does: the identifier of the answer is in the map, and with the last
\* line in the file.
LEMMA SaveBegins ==
    ASSUME SaveOpen \/ SaveRefused
    PROVE  /\ UNCHANGED <<given, rows, answer, GivenId>>
           /\ rpc = "answer" /\ Changed /\ MapId' = to_string(answer)
           /\ \/ rpc' = "save" /\ lost' = lost
              \/ rpc' = "up" /\ file' = file /\ FileId' = FileId /\ lost' = lost + 1
<1>1. /\ UNCHANGED <<given, rows, answer>> /\ rpc = "answer" /\ Changed
      /\ config_' = replace(config_, "computer_id", to_string(answer))
      BY DEF SaveOpen, SaveRefused, restVars, serverVars
<1>2. MapId' = to_string(answer)
      BY <1>1 DEF MapId, replace, put, find
<1>3. \/ rpc' = "save" /\ lost' = lost
      \/ rpc' = "up" /\ file' = file /\ lost' = lost + 1
      BY DEF SaveOpen, SaveRefused
<1> QED BY <1>1, <1>2, <1>3 DEF GivenId, FileId

LEMMA SaveGoesOn ==
    ASSUME ConfigTypes, PartlySaved, NEW k \in ReporterKeys, SaveLine(k)
    PROVE  /\ UNCHANGED <<config_, given, rows, answer, lost, MapId, GivenId>>
           /\ rpc = "save"
           /\ \/ rpc' = "save"
              \/ rpc' = "up" /\ FileId' = MapId
<1>1. UNCHANGED <<config_, given, rows, answer, lost>> /\ rpc = "save"
      BY DEF SaveLine, restVars, serverVars
<1>2. ASSUME rpc' # "save" PROVE rpc' = "up" /\ FileId' = MapId
  <2>1. todo = {k} /\ rpc' = "up"
        BY <1>2 DEF SaveLine
  <2>2. Says(file', "computer_id") = find(config_, "computer_id")
        BY <2>1, LastLine
  <2> QED BY <2>1, <2>2 DEF FileId, MapId
<1> QED BY <1>1, <1>2 DEF MapId, GivenId

\* What the handshake does: the reporter keeps its identifier, or gets the next.
LEMMA ProvisionAnswers ==
    ASSUME ConfigTypes, ServerTypes, IdsHaveRows, Provision
    PROVE  /\ UNCHANGED <<file, config_, given, lost, FileId, MapId, GivenId>>
           /\ rpc = "handshake" /\ rpc' = "answer"
           /\ MapId \in IdWords
           /\ \/ rows' = rows /\ answer' = stol(MapId)
              \/ rows' = rows + 1 /\ answer' = rows + 1 /\ ~HasRow(MapId)
<1>1. /\ UNCHANGED <<file, config_, given, lost>> /\ rpc = "handshake" /\ rpc' = "answer"
      /\ find(config_, "computer_id") # ""
      BY DEF Provision, restVars
<1>2. MapId \in IdWords
      BY <1>1 DEF IdsHaveRows, Running, Numeric, MapId
<1> DEFINE id == stol(find(config_, "computer_id"))
           add == "computer" \in tables /\ id \notin 1..rows
<1>3. /\ rows' = IF add THEN rows + 1 ELSE rows
      /\ answer' = IF add THEN rows + 1 ELSE id
      BY DEF Provision
<1>4. id = stol(MapId)
      BY DEF MapId
<1>5. CASE add
      BY <1>1, <1>2, <1>3, <1>4, <1>5 DEF HasRow, FileId, MapId, GivenId
<1>6. CASE ~add
  <2> HIDE DEF add
  <2> QED BY <1>1, <1>2, <1>3, <1>4, <1>6 DEF FileId, MapId, GivenId
<1> QED BY <1>5, <1>6

\* A quiet step and find() leave all identifiers.
LEMMA QuietIds ==
    ASSUME Quiet \/ RunCommand
    PROVE  /\ UNCHANGED <<file, given, rows, answer, lost, FileId, MapId, GivenId>>
           /\ \/ rpc' = rpc
              \/ rpc = "answer" /\ ~Changed /\ rpc' = "up"
              \/ /\ rpc \in {"loaded", "connect", "handshake", "up"}
                 /\ rpc' \in {"connect", "handshake", "dead"}
<1>1. CASE Quiet
      BY <1>1 DEF Quiet, FileId, MapId, GivenId
<1>2. CASE RunCommand
  <2>1. UNCHANGED <<file, given, rows, answer, lost, rpc>> /\ config_' = Found(config_, "shell")
        BY <1>2 DEF RunCommand, serverVars, restVars
  <2>2. MapId' = MapId
        BY <2>1 DEF MapId, Found, emplace, put, find
  <2> QED BY <2>1, <2>2 DEF FileId, GivenId
<1> QED BY <1>1, <1>2

\* What a kill does: an answer that is not in the file is lost.
LEMMA KillLoses ==
    ASSUME ConfigTypes, PartlySaved, Kill
    PROVE  /\ UNCHANGED <<file, given, rows, answer, FileId, GivenId>>
           /\ Running /\ rpc' = "off" /\ file # NoFile
           /\ lost' \in {lost, lost + 1}
           /\ rpc = "answer" /\ Changed => lost' = lost + 1
           /\ rpc = "save" => FileId \in {"", MapId} /\ (FileId = MapId \/ lost' = lost + 1)
<1>1. UNCHANGED <<file, given, rows, answer>> /\ Running /\ rpc' = "off" /\ file # NoFile
      BY DEF Kill, serverVars, Running, ConfigTypes
<1>2. /\ lost' \in {lost, lost + 1}
      /\ (rpc = "answer" /\ Changed) \/ "computer_id" \in todo => lost' = lost + 1
      BY DEF Kill
<1>3. ASSUME rpc = "save"
      PROVE  FileId \in {"", MapId} /\ (FileId = MapId \/ lost' = lost + 1)
      BY <1>2, <1>3, PartlySays DEF FileId, MapId, find
<1> QED BY <1>1, <1>2, <1>3 DEF FileId, GivenId

LEMMA IdsInit == Init => IdsHaveRows /\ MapFollowsFile /\ RowsCounted
<1> SUFFICES ASSUME Init PROVE IdsHaveRows /\ MapFollowsFile /\ RowsCounted
      OBVIOUS
<1>1. /\ rpc = "off" /\ answer = -1 /\ rows = 0 /\ lost = 0
      /\ file # NoFile => given = file /\ file \in Files
      /\ file = NoFile => given = <<>>
      BY DEF Init
<1>2. answer \in Ids
  <2>1. MaxId \in Nat
        BY ProvisioningAssumption
  <2> QED BY <1>1, <2>1 DEF Ids
<1>3. Numeric(GivenId) /\ (file # NoFile => FileId = GivenId)
  <2>1. CASE file = NoFile
    <3>1. Says(<<>>, "computer_id") = ""
          BY DEF Says
    <3> QED BY <1>1, <2>1, <3>1 DEF Numeric, GivenId
  <2>2. CASE file # NoFile
        BY <1>1, <2>2, ProvisioningAssumption DEF Numeric, GivenId, FileId, IdWords
  <2> QED BY <2>1, <2>2
<1>4. rows <= lost
      BY <1>1
<1> QED BY <1>1, <1>2, <1>3, <1>4
        DEF IdsHaveRows, MapFollowsFile, RowsCounted, Running, Rightful

\* An identifier keeps its row.
LEMMA RowsStay ==
    ASSUME ServerTypes, ServerTypes', [Next]_vars
    PROVE  rows <= rows' /\ \A w : /\ HasRow(w) => w # "" /\ stol(w) \in 1..rows'
                                   /\ Rightful(w) => w \in {"", GivenId'} \/ stol(w) \in 1..rows'
<1>1. rows <= rows' /\ GivenId' = GivenId
  <2>1. CASE Provision
    <3>1. given' = given /\ rows' \in {rows, rows + 1}
          BY <2>1 DEF Provision, restVars
    <3> QED BY <3>1 DEF GivenId, ServerTypes
  <2>2. CASE ~Provision
    <3>1. given' = given /\ rows' = rows
          BY <2>2, QuietSteps DEF Quiet, Start, SaveOpen, SaveRefused, RunCommand, Kill, SaveLine,
                                  serverVars, restVars
    <3> QED BY <3>1 DEF GivenId, ServerTypes
  <2> QED BY <2>1, <2>2
<1>2. \A n : n \in 1..rows => n \in 1..rows'
      BY <1>1 DEF ServerTypes
<1> QED BY <1>1, <1>2 DEF HasRow, Rightful

\* No step puts an identifier without a row where the operator's was.
LEMMA IdsStep ==
    ConfigTypes /\ PartlySaved /\ ServerTypes /\ ServerTypes' /\ IdsHaveRows /\ RowsCounted
        /\ [Next]_vars => IdsHaveRows'
<1> SUFFICES ASSUME ConfigTypes, PartlySaved, ServerTypes, ServerTypes', IdsHaveRows,
                    RowsCounted, [Next]_vars
             PROVE  IdsHaveRows'
      OBVIOUS
<1> DEFINE Rightful2(w) == w \in {"", GivenId'} \/ (w # "" /\ stol(w) \in 1..rows')
<1>a. \A w : (Rightful(w) => Rightful2(w))
      BY RowsStay DEF Rightful, HasRow
<1>b. ASSUME /\ Numeric(GivenId')
             /\ answer' \in Ids
             /\ file' # NoFile /\ rpc' # "save" => Numeric(FileId') /\ Rightful2(FileId')
             /\ Running' => Numeric(MapId') /\ Rightful2(MapId')
             /\ rpc' = "answer" /\ Changed' => answer' \in 1..rows'
      PROVE  IdsHaveRows'
      BY <1>b DEF IdsHaveRows, Rightful, HasRow, Numeric
<1> HIDE DEF Rightful2
<1>1. CASE Quiet \/ RunCommand
  <2>1. Running' => Running
        BY <1>1, QuietIds DEF Running
  <2>2. Changed' = Changed
        BY <1>1, QuietIds DEF Changed, MapId
  <2>3. (rpc' # "save" => rpc # "save") /\ (rpc' = "answer" => rpc = "answer")
        BY <1>1, QuietIds
  <2> QED BY <1>1, <1>a, <1>b, <2>1, <2>2, <2>3, QuietIds DEF IdsHaveRows
<1>2. CASE Start
      BY <1>2, <1>a, <1>b, StartReads DEF IdsHaveRows, Running
<1>3. CASE SaveOpen \/ SaveRefused
  <2>1. answer \in 1..rows /\ rows' = rows /\ answer \in Ids
        BY <1>3, SaveBegins DEF IdsHaveRows
  <2>2. Numeric(MapId') /\ Rightful2(MapId')
        BY <1>3, <2>1, SaveBegins, StolWord DEF Numeric, Rightful2, IdWords
  <2> QED BY <1>3, <1>a, <1>b, <2>1, <2>2, SaveBegins DEF IdsHaveRows, Running
<1>4. ASSUME NEW k \in ReporterKeys, SaveLine(k) PROVE IdsHaveRows'
      BY <1>4, <1>a, <1>b, SaveGoesOn DEF IdsHaveRows, Running
<1>5. CASE Provision
  <2> USE <1>5
  <2>1. /\ UNCHANGED <<file, config_, given, lost, FileId, MapId, GivenId>>
        /\ rpc = "handshake" /\ rpc' = "answer" /\ MapId \in IdWords
        /\ \/ rows' = rows /\ answer' = stol(MapId)
           \/ rows' = rows + 1 /\ answer' = rows + 1 /\ ~HasRow(MapId)
        BY ProvisionAnswers
  <2>2. answer' \in Ids /\ (Changed' => answer' \in 1..rows')
    <3>1. CASE answer' = stol(MapId)
      <4>1. stol(MapId) \in Ids /\ to_string(stol(MapId)) = MapId
            BY <2>1, StolWord
      <4>2. ~Changed'
            BY <2>1, <3>1, <4>1 DEF Changed, MapId
      <4> QED BY <3>1, <4>1, <4>2
    <3>2. CASE rows' = rows + 1 /\ answer' = rows + 1 /\ ~HasRow(MapId)
      <4>0. rows <= lost
            BY <2>1, <3>2 DEF RowsCounted, GoesByRow
      <4>2. MaxId \in Nat /\ MaxFaults \in Nat /\ MaxId > MaxFaults
            BY ProvisioningAssumption
      <4>1. rows <= MaxFaults /\ rows \in Nat
            BY <4>0, <4>2 DEF ServerTypes
      <4>3. answer' \in Ids
            BY <3>2, <4>1, <4>2 DEF Ids
      <4>4. answer' \in 1..rows'
            BY <3>2, <4>1
      <4> QED BY <4>3, <4>4
    <3> QED BY <2>1, <3>1, <3>2
  <2> QED BY <1>a, <1>b, <2>1, <2>2 DEF IdsHaveRows, Running
<1>6. CASE Kill
  <2>1. CASE rpc = "save"
    <3>1. Numeric(FileId) /\ Rightful(FileId)
          BY <1>6, <2>1, KillLoses DEF IdsHaveRows, Numeric, Rightful
    <3> QED BY <1>6, <1>a, <1>b, <3>1, KillLoses DEF IdsHaveRows, Running
  <2>2. CASE rpc # "save"
        BY <1>6, <1>a, <1>b, <2>2, KillLoses DEF IdsHaveRows, Running
  <2> QED BY <2>1, <2>2
<1> QED BY <1>1, <1>2, <1>3, <1>4, <1>5, <1>6, QuietSteps

LEMMA MapStep ==
    ConfigTypes /\ PartlySaved /\ ServerTypes /\ ServerTypes' /\ IdsHaveRows /\ MapFollowsFile
        /\ [Next]_vars => MapFollowsFile'
<1> SUFFICES ASSUME ConfigTypes, PartlySaved, ServerTypes, ServerTypes', IdsHaveRows,
                    MapFollowsFile, [Next]_vars
             PROVE  MapFollowsFile'
      OBVIOUS
<1>a. \A w : HasRow(w) => w # "" /\ stol(w) \in 1..rows'
      BY RowsStay
<1>b. ASSUME Running' /\ rpc' # "save" => MapId' = FileId' \/ (MapId' # "" /\ stol(MapId') \in 1..rows')
      PROVE  MapFollowsFile'
      BY <1>b DEF MapFollowsFile, HasRow
<1>1. CASE Quiet \/ RunCommand
  <2>1. (Running' => Running) /\ (rpc' # "save" => rpc # "save")
        BY <1>1, QuietIds DEF Running
  <2> QED BY <1>1, <1>a, <1>b, <2>1, QuietIds DEF MapFollowsFile
<1>2. CASE Start
      BY <1>2, <1>b, StartReads DEF Running
<1>3. CASE SaveOpen \/ SaveRefused
  <2>1. answer \in 1..rows /\ rows' = rows /\ answer \in Ids
        BY <1>3, SaveBegins DEF IdsHaveRows
  <2> QED BY <1>3, <1>b, <2>1, SaveBegins, StolWord
<1>4. ASSUME NEW k \in ReporterKeys, SaveLine(k) PROVE MapFollowsFile'
      BY <1>4, <1>b, SaveGoesOn
<1>5. CASE Provision
      BY <1>5, <1>a, <1>b, ProvisionAnswers DEF MapFollowsFile, Running
<1>6. CASE Kill
      BY <1>6, <1>b, KillLoses DEF Running
<1> QED BY <1>1, <1>2, <1>3, <1>4, <1>5, <1>6, QuietSteps

\* A row is made only if the rows so far are all of answers that were lost.
LEMMA RowsStep ==
    ConfigTypes /\ PartlySaved /\ ServerTypes /\ ServerTypes' /\ IdsHaveRows /\ MapFollowsFile
        /\ RowsCounted /\ [Next]_vars => RowsCounted'
<1> SUFFICES ASSUME ConfigTypes, PartlySaved, ServerTypes, ServerTypes', IdsHaveRows,
                    MapFollowsFile, RowsCounted, [Next]_vars
             PROVE  RowsCounted'
      OBVIOUS
<1>0. rows \in Nat /\ rows' \in Nat /\ lost \in Nat /\ lost' \in Nat
      BY DEF ServerTypes
<1>c. ConfigTypes'
      BY ConfigStep
<1>1. CASE Quiet \/ RunCommand
  <2>1. GoesByRow => GoesByRow'
    <3>1. Changed' = Changed
          BY <1>1, QuietIds DEF Changed, MapId
    <3>2. \A w : HasRow(w) => w # "" /\ stol(w) \in 1..rows'
          BY RowsStay
    <3>3. rpc = "answer" /\ ~Changed /\ answer \in 1..rows => HasRow(MapId)
          BY StolWord DEF Changed, MapId, HasRow, IdsHaveRows
    <3>4. SUFFICES ASSUME GoesByRow PROVE GoesByRow'
          OBVIOUS
    <3> QED BY <1>1, <3>1, <3>2, <3>3, <3>4, QuietIds DEF GoesByRow, HasRow
  <2> QED BY <1>0, <1>1, <2>1, QuietIds DEF RowsCounted
<1>2. CASE Start
  <2>1. GoesByRow => GoesByRow'
        BY <1>2, StartReads DEF GoesByRow, HasRow
  <2> QED BY <1>0, <1>2, <2>1, StartReads DEF RowsCounted
<1>3. CASE SaveOpen \/ SaveRefused
  <2>1. answer \in 1..rows /\ answer \in Ids
        BY <1>3, SaveBegins DEF IdsHaveRows
  <2>2. rows <= 1 + lost
        BY <1>0 DEF RowsCounted
  <2>3. CASE rpc' = "up"
    <3>1. rows' <= lost'
          BY <1>0, <1>3, <2>2, <2>3, SaveBegins
    <3> QED BY <3>1 DEF RowsCounted
  <2>4. CASE rpc' = "save"
    <3>0. file' # NoFile
          BY <1>c, <2>4 DEF ConfigTypes, Running
    <3>1. MapId' # "" /\ stol(MapId') \in 1..rows' /\ lost' = lost /\ rows' = rows
          BY <1>3, <2>1, <2>4, SaveBegins, StolWord
    <3>2. GoesByRow'
          BY <2>4, <3>0, <3>1 DEF GoesByRow, HasRow
    <3> QED BY <2>2, <3>1, <3>2 DEF RowsCounted
  <2> QED BY <1>3, <2>3, <2>4, SaveBegins
<1>4. ASSUME NEW k \in ReporterKeys, SaveLine(k) PROVE RowsCounted'
  <2>1. file' # NoFile
        BY <1>4, <1>c, SaveGoesOn DEF ConfigTypes, Running
  <2>2. GoesByRow => GoesByRow'
        BY <1>4, <2>1, SaveGoesOn DEF GoesByRow, HasRow
  <2> QED BY <1>0, <1>4, <2>2, SaveGoesOn DEF RowsCounted
<1>5. CASE Provision
  <2> USE <1>5
  <2>1. /\ UNCHANGED <<file, config_, given, lost, FileId, MapId, GivenId>>
        /\ rpc = "handshake" /\ rpc' = "answer" /\ MapId \in IdWords
        /\ \/ rows' = rows /\ answer' = stol(MapId)
           \/ rows' = rows + 1 /\ answer' = rows + 1 /\ ~HasRow(MapId)
        BY ProvisionAnswers
  <2>2. CASE rows' = rows /\ answer' = stol(MapId)
    <3>1. GoesByRow => GoesByRow'
          BY <2>1, <2>2 DEF GoesByRow, HasRow
    <3> QED BY <1>0, <2>1, <2>2, <3>1 DEF RowsCounted
  <2>3. CASE rows' = rows + 1 /\ answer' = rows + 1 /\ ~HasRow(MapId)
    <3>1. rows <= lost
          BY <2>1, <2>3 DEF RowsCounted, GoesByRow
    <3>2. rows' <= 1 + lost' /\ answer' \in 1..rows'
          BY <1>0, <2>1, <2>3, <3>1
    <3>3. Changed' \/ HasRow(FileId)'
      <4>1. MapId = FileId
            BY <2>1, <2>3 DEF MapFollowsFile, Running
      <4>2. MapId # "" /\ stol(to_string(answer')) = answer'
            BY <2>1, StolWord, IdsStep DEF IdsHaveRows
      <4>3. ~Changed' => MapId' = to_string(answer')
            BY DEF Changed, MapId
      <4> QED BY <2>1, <3>2, <4>1, <4>2, <4>3 DEF HasRow
    <3>4. GoesByRow'
          BY <2>1, <3>2, <3>3 DEF GoesByRow, ConfigTypes, Running
    <3> QED BY <3>2, <3>4 DEF RowsCounted
  <2> QED BY <2>1, <2>2, <2>3
<1>6. CASE Kill
  <2>1. rows <= 1 + lost /\ rows' = rows /\ (lost' = lost + 1 \/ lost' = lost)
    <3>1. rows <= 1 + lost
          BY <1>0 DEF RowsCounted
    <3> QED BY <1>6, <3>1, KillLoses
  <2>2. CASE lost' = lost + 1
    <3>1. rows' <= lost'
          BY <1>0, <2>1, <2>2
    <3> QED BY <3>1 DEF RowsCounted
  <2>3. CASE lost' = lost
    <3>1. GoesByRow => HasRow(FileId)
      <4>1. lost # lost + 1
            BY <1>0
      <4> QED BY <1>6, <2>3, <4>1, KillLoses DEF GoesByRow, ConfigTypes, Running
    <3>2. GoesByRow => GoesByRow'
          BY <1>6, <3>1, KillLoses DEF GoesByRow, HasRow
    <3> QED BY <2>1, <2>3, <3>2 DEF RowsCounted
  <2> QED BY <2>1, <2>2, <2>3
<1> QED BY <1>1, <1>2, <1>3, <1>4, <1>5, <1>6, QuietSteps

-----------------------------------------------------------------------------
(* Theorems *)

LEMMA InvInit == Init => ProvisioningInv
<1>1. Init => ServerTypes
  <2>1. MaxFaults \in Nat /\ Len(Tables) = 6
        BY ProvisioningAssumption DEF Tables
  <2> QED BY <2>1 DEF Init, ServerTypes
<1> QED BY <1>1, ConfigInit, KeptInit, IdsInit DEF ProvisioningInv

LEMMA InvStep == ProvisioningInv /\ [Next]_vars => ProvisioningInv'
BY ConfigStep, ServerStep, KeptStep, IdsStep, MapStep, RowsStep DEF ProvisioningInv

\* The inductive invariant: the file, the map, the answer and the rows agree.
LEMMA InvHolds == Spec => []ProvisioningInv
BY InvInit, InvStep, PTL DEF Spec

\* The file and the map hold words of the operator or numbers, counters keep their
\* bounds, and identifiers never run past MaxId.
THEOREM ProvisioningTypes == Spec => []TypeOK
<1>1. ProvisioningInv => TypeOK
  <2> SUFFICES ASSUME ProvisioningInv PROVE TypeOK
        OBVIOUS
  <2>1. MaxFaults \in Nat /\ MaxId \in Nat /\ MaxId > MaxFaults
        BY ProvisioningAssumption
  <2>2. rows \in 0..MaxId /\ {lost, faults} \subseteq 0..MaxFaults
    <3>1. rows <= 1 + lost
          BY DEF ProvisioningInv, RowsCounted, ServerTypes
    <3> QED BY <2>1, <3>1 DEF ProvisioningInv, ServerTypes
  <2>3. file = NoFile \/ \A i \in DOMAIN file : /\ file[i].key \in ReporterKeys
                                                /\ Word(file[i]) \in Words
    <3>1. file # NoFile => file \in Seq(Lines)
          BY DEF ProvisioningInv, ConfigTypes
    <3> QED BY <3>1, LinesHave DEF ProvisioningInv, ConfigTypes
  <2>4. todo \subseteq ReporterKeys /\ answer \in Ids
        BY DEF ProvisioningInv, ConfigTypes, IdsHaveRows
  <2> QED BY <2>2, <2>3, <2>4 DEF ProvisioningInv, ConfigTypes, ServerTypes, TypeOK
<1> QED BY <1>1, InvHolds, PTL

LEMMA StoredIsSaid ==
    ASSUME ConfigTypes, file # NoFile
    PROVE  \A k : Stored(k) = Says(file, k)
<1>1. file \in Seq(Lines)
      BY DEF ConfigTypes
<1> QED BY <1>1, LoadMeansFile DEF Stored

\* Over any number of kills, restarts and saves the file says of every setting
\* what the operator wrote, or nothing after a save that was cut short.
THEOREM SettingsStay == Spec => []SettingsKept
<1>1. ProvisioningInv => SettingsKept
  <2> SUFFICES ASSUME ProvisioningInv, file # NoFile, NEW k \in ReporterKeys \ {"computer_id"}
               PROVE  \/ Stored(k) = Says(given, k)
                      \/ Stored(k) = "" /\ (rpc = "save" \/ "torn" \in damage)
        BY DEF SettingsKept
  <2>1. Stored(k) = Says(file, k)
        BY StoredIsSaid DEF ProvisioningInv
  <2>2. CASE rpc = "save"
    <3>1. Says(file, k) \in {find(config_, k), ""}
          BY <2>2, PartlySays DEF find, ProvisioningInv
    <3>2. Kept(find(config_, k), k)
          BY <2>2 DEF ProvisioningInv, ConfigKept, Running
    <3> QED BY <2>1, <2>2, <3>1, <3>2 DEF Kept
  <2>3. CASE rpc # "save"
        BY <2>1, <2>3 DEF ProvisioningInv, ConfigKept, Kept
  <2> QED BY <2>2, <2>3
<1> QED BY <1>1, InvHolds, PTL

\* The identifier in the file is the operator's or that of a row, wherever either
\* program is killed.
THEOREM IdentifiersHaveRows == Spec => []IdentifierHasRow
<1>1. ProvisioningInv => IdentifierHasRow
  <2> SUFFICES ASSUME ProvisioningInv, file # NoFile, Stored("computer_id") # ""
               PROVE  \/ Stored("computer_id") = Says(given, "computer_id")
                      \/ stol(Stored("computer_id")) \in 1..rows
        BY DEF IdentifierHasRow
  <2>1. Stored("computer_id") = FileId
        BY StoredIsSaid DEF ProvisioningInv, FileId
  <2>2. CASE rpc = "save"
    <3>1. FileId \in {MapId, ""}
          BY <2>2, PartlySays DEF find, ProvisioningInv, FileId, MapId
    <3> QED BY <2>1, <2>2, <3>1
            DEF ProvisioningInv, IdsHaveRows, Running, Rightful, HasRow, GivenId
  <2>3. CASE rpc # "save"
        BY <2>1, <2>3 DEF ProvisioningInv, IdsHaveRows, Rightful, HasRow, GivenId
  <2> QED BY <2>2, <2>3
<1> QED BY <1>1, InvHolds, PTL

\* A reporter makes one row, and one more for each answer that did not reach its
\* file, whatever the number of restarts and reconnections.
THEOREM NoRowForNothing == Spec => []RowPerLostAnswer
<1>1. ProvisioningInv => RowPerLostAnswer
      BY DEF ProvisioningInv, RowsCounted, ServerTypes, RowPerLostAnswer
<1> QED BY <1>1, InvHolds, PTL
=============================================================================
