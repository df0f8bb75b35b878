------------------------------ MODULE RmsConfig ------------------------------
(***************************************************************************)
(* RmsConfig (common/src/rms_config.cpp): a map from keys to words and the *)
(* text file it is loaded from and saved to. A line of the file is a key   *)
(* and the words after it; the map keeps one word per key. "" is the empty *)
(* std::string.                                                            *)
(***************************************************************************)
EXTENDS Naturals, Sequences, SequencesExt

\* Keys of the reporter's file.
ReporterKeys == {"shell", "server_port", "server_ip", "computer_id", "timeout",
                 "ping_timeout"}

Line(k, ws) == [key |-> k, words |-> ws]

\* config_[key] = value
put(m, k, v) == [x \in DOMAIN m \cup {k} |-> IF x = k THEN v ELSE m[x]]

\* Variant: the last line of a key counts.
emplaceLast(m, k, v) == put(m, k, v)

\* std::unordered_map::emplace(): a key that is there keeps its value.
emplace(m, k, v) == IF k \in DOMAIN m THEN m ELSE put(m, k, v)

\* operator>> into a string: the first word, and nothing if there is none.
Word(line) == IF line.words = <<>> THEN "" ELSE Head(line.words)

EmptyMap == <<>>

\* load(): one line after the other.
load(lines) ==
    LET config[n \in 0..Len(lines)] ==
            IF n = 0 THEN EmptyMap
            ELSE emplace(config[n - 1], lines[n].key, Word(lines[n]))
    IN  config[Len(lines)]

\* find(): the value the caller sees, and the map it leaves, with the key in it.
find(m, k) == IF k \in DOMAIN m THEN m[k] ELSE ""
Found(m, k) == emplace(m, k, "")

\* Variant: a key that is there keeps its value.
replaceNew(m, k, v) == emplace(m, k, v)

\* replace()
replace(m, k, v) == put(m, k, v)

\* Variant: no blank after the key.
SavedGlued(m, k) == Line(k \o m[k], <<>>)

\* The line save() writes for a key: "key word", or "key " if the word is empty.
Saved(m, k) == Line(k, IF m[k] = "" THEN <<>> ELSE <<m[k]>>)

\* Reference: what a file says of a key is the first word of its first line.
Says(lines, k) ==
    LET at == {i \in DOMAIN lines : lines[i].key = k}
    IN  IF at = {} THEN "" ELSE Word(lines[CHOOSE i \in at : \A j \in at : i <= j])
=============================================================================
