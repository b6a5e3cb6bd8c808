----------------------------- MODULE ByteTables -----------------------------
(* The byte tables of the model machine (cx/core/bytes.cx): blobtable, interned *)
(* strings and the cache of resources asked of the host, as core_run of     *)
(* cx/core/execute.cx sets them up.  The files behind the host may change   *)
(* while a model runs.  Capacity and allocation failures end the program    *)
(* and are left out.                                                        *)
EXTENDS Integers, Sequences, SequencesExt

CONSTANTS Bytes,     \* byte strings
          Empty,     \* the empty one
          Hash,      \* Hash[b]: hbytes
          Name,      \* byte strings the host takes for names
          FirstCap,  \* 1024
          MaxCap, MaxTableBlobs, MaxChanges   \* bounds of the model

Absent == "none"

ASSUME TablesAssumption ==
    /\ Empty \in Bytes /\ Absent \notin Bytes
    /\ Hash \in [Bytes -> Nat]
    /\ FirstCap \in Nat \ {0, 1} /\ MaxCap \in Nat /\ MaxTableBlobs \in Nat /\ MaxChanges \in Nat

VARIABLES blobtable,      \* CxBlobs: blobtable[id + 1]
          strings,    \* CxIntern
          resources,  \* CxResources, in the order of the first find
          host,       \* host[p]: what core_host_fetch gives, or Absent
          answers,    \* history: what was asked for and the number it got
          changes

tablevars == <<blobtable, strings, resources, host, answers, changes>>

\* b = Absent: the slot is free.
EmptyTable(cap) == [cap |-> cap, n |-> 0, b |-> [k \in 0 .. cap - 1 |-> Absent],
                v |-> [k \in 0 .. cap - 1 |-> 0]]

\* core_run puts the empty blob first and the name of the source second.
TablesInit ==
    /\ \E src \in Bytes : blobtable = <<Empty, src>>
    /\ strings = EmptyTable(0)
    /\ resources = <<>>
    /\ host \in [Name -> Bytes \union {Absent}]
    /\ answers = {}
    /\ changes = 0

-----------------------------------------------------------------------------
\* The first slot from the hash on, around the end, that holds one of stops.
Search(t, b, stops) ==
    LET At(d) == (Hash[b] + d) % t.cap
        d == CHOOSE e \in 0 .. t.cap - 1 :
                 t.b[At(e)] \in stops /\ \A f \in 0 .. e - 1 : t.b[At(f)] \notin stops
    IN At(d)

\* The strings are numbered anew as they are moved.
GrownRenumbers(t) ==
    FoldLeft(LAMBDA new, k :
                 IF t.b[k] = Absent THEN new
                 ELSE LET to == Search(new, t.b[k], {Absent}) IN
                      [new EXCEPT !.b[to] = t.b[k], !.v[to] = new.n + 1, !.n = @ + 1],
             EmptyTable(IF t.cap = 0 THEN FirstCap ELSE 2 * t.cap),
             [j \in 1 .. t.cap |-> j - 1])

\* Growth moves the strings in use, in slot order, with their numbers.
Grown(t) ==
    FoldLeft(LAMBDA new, k :
                 IF t.b[k] = Absent THEN new
                 ELSE LET to == Search(new, t.b[k], {Absent}) IN
                      [new EXCEPT !.b[to] = t.b[k], !.v[to] = t.v[k]],
             [EmptyTable(IF t.cap = 0 THEN FirstCap ELSE 2 * t.cap) EXCEPT !.n = t.n],
             [j \in 1 .. t.cap |-> j - 1])

Roomy(t) == IF (t.n + 1) * 2 > t.cap THEN Grown(t) ELSE t

Add(b) == blobtable' = Append(blobtable, b)

core_blob_add(b) ==
    /\ Len(blobtable) < MaxTableBlobs
    /\ Add(b)
    /\ UNCHANGED <<strings, resources, host, answers, changes>>

core_string_intern(b) ==
    LET t == Roomy(strings)
        k == Search(t, b, {Absent, b})
        v == IF t.b[k] = b THEN t.v[k] ELSE t.n + 1
    IN
    /\ t.cap <= MaxCap
    /\ strings' = [t EXCEPT !.b[k] = b, !.v[k] = v, !.n = IF t.b[k] = b THEN @ ELSE @ + 1]
    /\ answers' = answers \union {<<"intern", b, v>>}
    /\ UNCHANGED <<blobtable, resources, host, changes>>

\* Only what the host has is remembered.
FindForgetsAbsent(p) ==
    LET known == {j \in DOMAIN resources : resources[j].p = p}
        id == IF known # {} THEN resources[CHOOSE j \in known : TRUE].id
              ELSE IF host[p] = Absent THEN 0 ELSE Len(blobtable)
    IN
    /\ IF known # {} \/ host[p] = Absent
          THEN UNCHANGED <<blobtable, resources>>
          ELSE /\ Len(blobtable) < MaxTableBlobs /\ Add(host[p])
               /\ resources' = Append(resources, [p |-> p, id |-> id])
    /\ answers' = answers \union {<<"find", p, id>>}
    /\ UNCHANGED <<strings, host, changes>>

\* The host is asked once for a name, and its answer is kept whatever it was.
core_resource_find(p) ==
    LET known == {j \in DOMAIN resources : resources[j].p = p}
        id == IF known # {} THEN resources[CHOOSE j \in known : TRUE].id
              ELSE IF host[p] = Absent THEN 0 ELSE Len(blobtable)
    IN
    /\ IF known # {}
          THEN UNCHANGED <<blobtable, resources>>
          ELSE /\ IF host[p] = Absent THEN UNCHANGED blobtable
                                    ELSE Len(blobtable) < MaxTableBlobs /\ Add(host[p])
               /\ resources' = Append(resources, [p |-> p, id |-> id])
    /\ answers' = answers \union {<<"find", p, id>>}
    /\ UNCHANGED <<strings, host, changes>>

\* The files behind the host change.
HostChanges(p) ==
    /\ changes < MaxChanges /\ changes' = changes + 1
    /\ \E b \in Bytes \union {Absent} : host' = [host EXCEPT ![p] = b]
    /\ UNCHANGED <<blobtable, strings, resources, answers>>

TablesNext ==
    \/ \E b \in Bytes : core_blob_add(b) \/ core_string_intern(b)
    \/ \E p \in Name : core_resource_find(p) \/ HostChanges(p)

TablesSpec == TablesInit /\ [][TablesNext]_tablevars

-----------------------------------------------------------------------------
(* Properties.                                                              *)

Answers(kind) == {a \in answers : a[1] = kind}

\* Two strings have the same number exactly when they are the same, over the
\* whole run and every growth of the table: the models compare names by these
\* numbers (INTERN, SBINTERN).
InternExact == \A a, b \in Answers("intern") : a[2] = b[2] <=> a[3] = b[3]

\* A model asks for a resource as often as it likes and always gets the same
\* answer, though the file appears, changes or goes away meanwhile.
FindStable == \A a, b \in Answers("find") : a[2] = b[2] => a[3] = b[3]
=============================================================================
