---------------------------- MODULE ConfigFiles ----------------------------
(***************************************************************************)
(* The configuration files of a server's volume that a deploy merges the     *)
(* panel's values into: the parsers of wings/server/config.go.  A file is a  *)
(* sequence of lines, a tree of keys or a text of words; between two deploys *)
(* the game server or a member writes it anew.                              *)
(***************************************************************************)
EXTENDS SequencesExt, Naturals

CONSTANTS
  Names,      \* of keys and sections, and words of a text; ordered
  Odd,        \* keys of a YAML map that are no strings: numbers, booleans, null
  Values,     \* texts that the panel substitutes and files contain
  NotFinite,  \* numbers that JSON cannot write: "inf" and "nan"
  Plain,      \* what coerce makes of a text, as it is written
  Reread,     \* a value of a tree, read and written back: a number is a float64
  Nothing,
  MaxLines, MaxDepth, MaxAsked   \* bounds: of a file, of a path, of replacements

Scalars == Values \cup NotFinite

ASSUME ConfigAssumption ==
  /\ Names \subseteq Nat \ {0} /\ Odd \cap Names = {}
  /\ Plain \in [Scalars -> Scalars]
  /\ Reread \in [Scalars -> Scalars] /\ \A v \in Scalars : Reread[Reread[v]] = Reread[v]
  /\ Nothing \notin Scalars

VARIABLES parser, config, replace
configVars == <<parser, config, replace>>

(***************************************************************************)
(* Lines: an entry, the header of a section, or a comment or blank line.    *)
(***************************************************************************)
KeyLine(k, v) == [is |-> "entry", key |-> k, val |-> v]
Header(s) == [is |-> "section", key |-> s, val |-> Nothing]
Other == [is |-> "other", key |-> 0, val |-> Nothing]
Lines == {KeyLine(k, v) : k \in Names, v \in Values} \cup {Header(s) : s \in Names} \cup {Other}

\* sortedKeys: the elements of S, none of them after one that it comes before.
Ordered(S, Before(_, _)) ==
  CHOOSE s \in SetToSeqs(S) : \A i, j \in DOMAIN s : i < j => ~Before(s[j], s[i])
Smaller(a, b) == a < b
Earlier(a, b) == a[1] < b[1] \/ (a[1] = b[1] /\ a[2] < b[2])
Shorter(p, q) == Len(p) < Len(q)

\* mutation: no line is rewritten
MergePropertiesAppended(lines, asked) ==
  lines \o LET ks == Ordered(DOMAIN asked, Smaller) IN [i \in DOMAIN ks |-> KeyLine(ks[i], asked[ks[i]])]

\* mergeProperties: every line of an asked key is rewritten in place, the keys
\* that are in no line are appended.
MergeProperties(lines, asked) ==
  LET missing == DOMAIN asked \ {l.key : l \in {k \in ToSet(lines) : k.is = "entry"}}
      Rewritten(l) == IF l.is = "entry" /\ l.key \in DOMAIN asked THEN KeyLine(l.key, asked[l.key]) ELSE l
      Appended(k) == KeyLine(k, asked[k])
  IN [i \in DOMAIN lines |-> Rewritten(lines[i])] \o
     LET ks == Ordered(missing, Smaller) IN [i \in DOMAIN ks |-> Appended(ks[i])]

\* A reader of properties takes the last line of a key.
ReadProperties(lines, k) ==
  LET i == SelectLastInSeq(lines, LAMBDA l : l.is = "entry" /\ l.key = k)
  IN IF i = 0 THEN Nothing ELSE lines[i].val

(***************************************************************************)
(* mergeINI: the sections in order, each with its entries; 0 is "".          *)
(***************************************************************************)
NoSections == [cur |-> 0, order |-> <<0>>, data |-> [s \in Names \cup {0} |-> <<>>]]
TakeLine(ini, l) ==
  CASE l.is = "section" -> [ini EXCEPT !.cur = l.key,
                                       !.order = IF l.key \in ToSet(@) THEN @ ELSE Append(@, l.key)]
    [] l.is = "entry" -> [ini EXCEPT !.data[ini.cur] = Append(@, l)]
    [] OTHER -> ini
Parsed(lines) == FoldLeft(TakeLine, NoSections, lines)

Found(entries, k) == SelectInSeq(entries, LAMBDA e : e.key = k)

\* mutation: the entry is always a new one
SetEntryAtEnd(ini, s, e) ==
  [ini EXCEPT !.order = IF s \in ToSet(@) THEN @ ELSE Append(@, s), !.data[s] = Append(@, e)]

\* set: the first entry of the key, or a new one at the end.
SetEntry(ini, s, e) ==
  LET i == Found(ini.data[s], e.key) IN
  [ini EXCEPT !.order = IF s \in ToSet(@) THEN @ ELSE Append(@, s),
              !.data[s] = IF i = 0 THEN Append(@, e) ELSE [@ EXCEPT ![i] = e]]

\* Empty sections and comments are not written back.
Section(ini, s) ==
  IF ini.data[s] = <<>> THEN <<>> ELSE (IF s = 0 THEN <<>> ELSE <<Header(s)>>) \o ini.data[s]
Emitted(ini) == FlattenSeq([i \in DOMAIN ini.order |-> Section(ini, ini.order[i])])

\* An asked key is <<section, key>>, in the order of the dotted texts.
SetAll(ini, asked) ==
  LET Set(x, d) == SetEntry(x, d[1], KeyLine(d[2], asked[d]))
  IN FoldLeft(Set, ini, Ordered(DOMAIN asked, Earlier))
MergeINI(lines, asked) == Emitted(SetAll(Parsed(lines), asked))

\* Of the lines of a key in a section some readers take the first and some the last.
FirstINI(lines, d) ==
  LET entries == Parsed(lines).data[d[1]]
      i == Found(entries, d[2])
  IN IF i = 0 THEN Nothing ELSE entries[i].val
LastINI(lines, d) ==
  LET entries == Parsed(lines).data[d[1]]
      i == SelectLastInSeq(entries, LAMBDA e : e.key = d[2])
  IN IF i = 0 THEN Nothing ELSE entries[i].val
Repeats(lines, d) ==
  LET entries == Parsed(lines).data[d[1]]
  IN \E i, j \in DOMAIN entries : i # j /\ entries[i].key = d[2] /\ entries[j].key = d[2]

(***************************************************************************)
(* mergeJSON and mergeYAML: a tree is its leaves, a function of paths.       *)
(***************************************************************************)
Few(S, n) == {T \in SUBSET S : IsFiniteSet(T) /\ Cardinality(T) <= n}
PathsOf(S) == UNION {[1..n -> S] : n \in 1..MaxDepth}
Dotted == PathsOf(Names)
Related(p, q) == IsPrefix(p, q) \/ IsPrefix(q, p)
Trees(P) == UNION {[S -> Values] : S \in {T \in Few(P, MaxLines) :
                     \A p \in T, q \in T : Related(p, q) => p = q}}

\* Leaf l is under the first n keys of a path.
Below(l, path, n) == Len(l) > n /\ \A i \in 1..n : l[i] = path[i]
\* What is under them has keys that are no strings, so that it is read as no
\* map[string]any; the root is always one.
Mixed(tree, path, n) == \E l \in DOMAIN tree : Below(l, path, n) /\ l[n + 1] \in Odd
Swept(tree, path, l) == \E n \in 1..(Len(path) - 1) : Below(l, path, n) /\ Mixed(tree, path, n)

\* setDotted: what is on the way and is no map[string]any becomes an empty one,
\* the leaf replaces what it was.
SetDotted(tree, path, val) ==
  [p \in {q \in DOMAIN tree : ~Related(q, path) /\ ~Swept(tree, path, q)} \cup {path} |->
     IF p = path THEN val ELSE tree[p]]

\* Every value goes through the decoder and the encoder.
Decoded(tree) == [p \in DOMAIN tree |-> Reread[tree[p]]]

\* A path comes before those it is a prefix of; others do not meet.
MergeTree(tree, asked) ==
  LET Set(t, p) == SetDotted(t, p, Plain[asked[p]])
  IN FoldLeft(Set, Decoded(tree), Ordered(DOMAIN asked, Shorter))

\* json.MarshalIndent refuses it: the deploy is aborted and the file stays.
Unwritable(tree) == \E p \in DOMAIN tree : tree[p] \in NotFinite
MergeJSON(tree, asked) ==
  LET t == MergeTree(tree, asked) IN IF Unwritable(t) THEN tree ELSE t

ReadTree(tree, p) == IF p \in DOMAIN tree THEN tree[p] ELSE Nothing

(***************************************************************************)
(* mergeFile: each key in turn is replaced wherever the text has it.         *)
(***************************************************************************)
MergeFile(words, asked) ==
  LET InText(ws, k) == [i \in DOMAIN ws |-> IF ws[i] = k THEN asked[k] ELSE ws[i]]
  IN FoldLeft(InText, words, Ordered(DOMAIN asked, Smaller))

MergeConfig(p, f, asked) ==
  CASE p = "properties" -> MergeProperties(f, asked)
    [] p = "ini" -> MergeINI(f, asked)
    [] p = "json" -> MergeJSON(f, asked)
    [] p = "yaml" -> MergeTree(f, asked)
    [] p = "file" -> MergeFile(f, asked)

(***************************************************************************)
(* Files and replacements of a parser.                                      *)
(***************************************************************************)
Maps(D, R) == UNION {[S -> R] : S \in Few(D, MaxAsked) \ {{}}}
FilesOf(p) ==
  CASE p = "properties" -> SeqOf({l \in Lines : l.is # "section"}, MaxLines)
    [] p = "ini" -> SeqOf(Lines, MaxLines)
    [] p = "json" -> Trees(Dotted)
    [] p = "yaml" -> Trees({q \in PathsOf(Names \cup Odd) : q[1] \in Names})
    [] p = "file" -> SeqOf(Names, MaxLines)
AskedOf(p) ==
  CASE p = "properties" -> Maps(Names, Values)
    [] p = "ini" -> Maps((Names \cup {0}) \X Names, Values)
    [] p \in {"json", "yaml"} -> Maps(Dotted, Scalars)
    [] p = "file" -> Maps(Names, Names)

ConfigInit ==
  /\ parser \in {"properties", "ini", "json", "yaml", "file"}
  /\ config \in FilesOf(parser)
  /\ replace \in AskedOf(parser)

\* applyConfigFiles, for one file that can be read.
ApplyConfigFile ==
  /\ config' = MergeConfig(parser, config, replace)
  /\ UNCHANGED <<parser, replace>>

ConfigNext == ApplyConfigFile
ConfigSpec == ConfigInit /\ [][ConfigNext]_configVars

\* After a merge the program reads every asked value and, of every other key,
\* what it read before.  Of the lines of a section that repeat an asked key only
\* the first is rewritten.  In a tree the longer of two asked paths wins, what
\* lies on the way of one is lost, and so is a map with odd keys that one goes
\* through; values are as the decoder reads them.  In a text no value may be a key.
ReadsAsAsked ==
  LET merged == MergeConfig(parser, config, replace)
      asked == DOMAIN replace
  IN CASE parser = "properties" -> \A k \in Names :
            ReadProperties(merged, k) = IF k \in asked THEN replace[k] ELSE ReadProperties(config, k)
       [] parser = "ini" -> \A d \in (Names \cup {0}) \X Names :
            /\ FirstINI(merged, d) = IF d \in asked THEN replace[d] ELSE FirstINI(config, d)
            /\ d \notin asked => LastINI(merged, d) = LastINI(config, d)
            /\ d \in asked /\ ~Repeats(config, d) => LastINI(merged, d) = replace[d]
       [] parser \in {"json", "yaml"} ->
            \/ parser = "json" /\ Unwritable(MergeTree(config, replace)) /\ merged = config
            \/ \A p \in PathsOf(Names \cup Odd) :
                 /\ p \in asked /\ (\A q \in asked : IsPrefix(p, q) => p = q) => ReadTree(merged, p) = Plain[replace[p]]
                 /\ (\A q \in asked : ~Related(p, q) /\ ~Swept(config, q, p)) =>
                      ReadTree(merged, p) = ReadTree(Decoded(config), p)
       [] parser = "file" -> asked \cap Range(replace) = {} => \A i \in DOMAIN config :
            merged[i] = IF config[i] \in asked THEN replace[config[i]] ELSE config[i]

\* A second deploy with the same values leaves the file as the first one made it.
MergedOnce ==
  LET merged == MergeConfig(parser, config, replace) IN
  \/ parser = "file" /\ DOMAIN replace \cap Range(replace) # {}
  \/ MergeConfig(parser, merged, replace) = merged
=============================================================================
