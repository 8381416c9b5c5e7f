--------------------------- MODULE SimulationsFile ---------------------------
(***************************************************************************)
(* The files that describe simulation cases (tools/SimulationsFile.cpp):   *)
(* sections that inherit from others, whose keys have several values each, *)
(* and the cases that come of them, one for each combination.              *)
(*                                                                         *)
(* A text is a string.  A value is a text, a reference ${key}, a choice    *)
(* ${key=a|b|c}, or an interval a-step-b or a^step^b whose ends may be     *)
(* references.  Left out: values with more than one of them, or one within *)
(* another, intervals with an empty part, which are intervals in the code, *)
(* and the comments and wrong lines that the reader skips.                 *)
(***************************************************************************)
EXTENDS Integers, Sequences, FiniteSets, SequencesExt

CONSTANT Numbers   \* the texts that are numbers, and what they are

ASSUME NumbersAssumption == \A s \in DOMAIN Numbers : Numbers[s] \in Nat

Text(t)                == [kind |-> "text", text |-> t]
Reference(key)         == [kind |-> "reference", key |-> key]
Choice(key, options)   == [kind |-> "choice", key |-> key, options |-> options]
Interval(delim, a, step, b) ==
  [kind |-> "interval", delim |-> delim, start |-> a, step |-> step, end |-> b]

IsNumber(t) == t \in DOMAIN Numbers
Numeral(n) == CHOOSE t \in DOMAIN Numbers : Numbers[t] = n

\* What a value is when the properties p are known.
Subst(p, v) ==
  CASE v.kind = "text" -> v.text
    [] v.kind = "reference" -> IF v.key \in DOMAIN p THEN p[v.key] ELSE ""
    [] v.kind = "choice" ->
         IF v.key \in DOMAIN p /\ IsNumber(p[v.key])
         THEN v.options[IF Numbers[p[v.key]] < Len(v.options) THEN Numbers[p[v.key]] + 1
                                                              ELSE Len(v.options)]
         ELSE ""
    [] v.kind = "interval" -> "not an interval"

\* getInterval: the three parts are numbers.
IsInterval(p, v) ==
  v.kind = "interval" /\ \A part \in {v.start, v.step, v.end} : IsNumber(Subst(p, part))

\* The terms of a progression, in their order.  A step of 0, or of 1 in a
\* geometric one, would give no end of them.
Progression(v, start, step, end) ==
  LET terms[n \in Nat] ==
        IF n > end THEN <<>>
        ELSE <<Numeral(n)>> \o terms[IF v.delim = "-" THEN n + step ELSE n * step]
  IN  terms[start]

Values(p, v) ==
  IF IsInterval(p, v)
  THEN Progression(v, Numbers[Subst(p, v.start)], Numbers[Subst(p, v.step)],
                   Numbers[Subst(p, v.end)])
  ELSE <<Subst(p, v)>>

-----------------------------------------------------------------------------
(* A section is its keys with their values, in the order in which they     *)
(* came first.                                                             *)

Has(section, key) == \E i \in DOMAIN section : section[i].key = key

\* Section::operator[] and what is done with the list.
SetValues(section, key, values) ==
  IF Has(section, key)
  THEN [i \in DOMAIN section |->
          IF section[i].key = key THEN [section[i] EXCEPT !.values = values] ELSE section[i]]
  ELSE Append(section, [key |-> key, values |-> values])

\* The names of a section are its own, whatever else it inherits.
Inherit(section, case, name, super) ==
  SetValues(SetValues(SetValues(section, "case_name", <<Text(case)>>),
                      "section_name", <<Text(name)>>),
            "super_name", <<Text(super)>>)

\* A section of the file read after the sections of s; s.unnamed is
\* sectionNumber.  One with the name of another is skipped.
ReadSection(s, header) ==
  LET name == IF header.name = "" THEN <<"unnamed1", "unnamed2", "unnamed3">>[s.unnamed]
                                  ELSE header.name
      num == IF header.name = "" THEN s.unnamed + 1 ELSE s.unnamed
      base == IF header.super \in DOMAIN s.sections THEN s.sections[header.super] ELSE <<>>
      own == FoldLeft(LAMBDA sec, line : SetValues(sec, line.key, line.values),
                      Inherit(base, header.case, name, header.super), header.lines)
  IN  IF name \in DOMAIN s.sections THEN [s EXCEPT !.unnamed = num]
      ELSE [sections |-> [n \in DOMAIN s.sections \cup {name} |->
                            IF n = name THEN own ELSE s.sections[n]],
            order |-> Append(s.order, name), unnamed |-> num]

Sections(file) ==
  FoldLeft(ReadSection, [sections |-> [n \in {} |-> <<>>], order |-> <<>>, unnamed |-> 1], file)

WithValue(p, key, t) == [k \in DOMAIN p \cup {key} |-> IF k = key THEN t ELSE p[k]]

\* Every case so far with every value of the next key.
Extend(cases, kv) ==
  LET values(p) == FlattenSeq([i \in DOMAIN kv.values |-> Values(p, kv.values[i])])
      with(p)   == [i \in DOMAIN values(p) |-> WithValue(p, kv.key, values(p)[i])]
  IN  FlattenSeq([j \in DOMAIN cases |-> with(cases[j])])

Combinations(section) == FoldLeft(Extend, << [k \in {} |-> ""] >>, section)

GetPropertiesList(file) ==
  LET s == Sections(file) IN
  FlattenSeq([i \in DOMAIN s.order |-> Combinations(s.sections[s.order[i]])])

-----------------------------------------------------------------------------
(* What the cases of a file are, said without the order of the reading.    *)

\* The sections that have their father before them, and names of their own.
WellFormed(file) ==
  /\ \A i \in DOMAIN file : file[i].name # ""
  /\ \A i, j \in DOMAIN file : file[i].name = file[j].name => i = j

Above(file, i) == {j \in 1 .. i - 1 : file[j].name = file[i].super}

\* The lines in force for section i: its own, and those of its ancestors for
\* the keys that it does not set.
Lines(file, i) ==
  LET last(l, key) == CHOOSE j \in DOMAIN l : /\ l[j].key = key
                                             /\ \A k \in DOMAIN l : l[k].key = key => k <= j
      own(k) == [key \in {file[k].lines[j].key : j \in DOMAIN file[k].lines} |->
                   ToSet(file[k].lines[last(file[k].lines, key)].values)]
      inForce[k \in 1 .. i] ==
        LET up == IF Above(file, k) = {} THEN [key \in {} |-> {}]
                  ELSE inForce[CHOOSE j \in Above(file, k) : TRUE]
        IN  [key \in DOMAIN up \cup DOMAIN own(k) |->
               IF key \in DOMAIN own(k) THEN own(k)[key] ELSE up[key]]
  IN  inForce[i]

\* A case of section i has, for each key in force, one of its values; it
\* refers to other keys of the same case, or to nothing.
IsCaseOf(p, file, i) ==
  LET lines == Lines(file, i)
      means(v) == UNION {ToSet(Values(q, v)) : q \in {p, [k \in {} |-> ""]}}
  IN  /\ DOMAIN p = DOMAIN lines \cup {"case_name", "section_name", "super_name"}
      /\ p["case_name"] = file[i].case /\ p["section_name"] = file[i].name
      /\ p["super_name"] = file[i].super
      /\ \A key \in DOMAIN lines : \E v \in lines[key] : p[key] \in means(v)

\* How many cases section i has when no value of it is an interval.
NumCases(file, i) ==
  LET lines == Lines(file, i)
      count(keys) == FoldLeft(LAMBDA n, key : n * Cardinality(lines[key]), 1, keys)
  IN  count(SetToSeq(DOMAIN lines))

Plain(file, i) == \A key \in DOMAIN Lines(file, i) : \A v \in Lines(file, i)[key] : v.kind = "text"

\* Every case in the list is one of its section, a section gives as many as
\* there are ways to choose its values, and no case comes twice.
CombinationsAreAll(file) ==
  WellFormed(file) =>
    LET list == GetPropertiesList(file)
        of(i) == {n \in DOMAIN list : list[n]["section_name"] = file[i].name}
    IN  /\ \A i \in DOMAIN file :
             /\ \A n \in of(i) : IsCaseOf(list[n], file, i)
             /\ Plain(file, i) => Cardinality(of(i)) = NumCases(file, i)
        /\ \A n \in DOMAIN list : \E i \in DOMAIN file : n \in of(i)
        /\ \A n, k \in DOMAIN list : list[n] = list[k] => n = k
=============================================================================
