----------------------------- MODULE Dictionary -----------------------------
(***************************************************************************)
(* The dictionaries of afl-fuzz (DAFL/afl-fuzz.c): the user's extras,      *)
(* which load_extras() reads once and sorts by length, and the auto        *)
(* extras, which maybe_add_auto() learns from the bit flips of fuzz_one(), *)
(* ranks by use and evicts when the table is full, which save_auto()       *)
(* writes to queue/.state/auto_extras and load_auto() reads back after an  *)
(* in-place resume.  The process may be killed at any point.               *)
(*                                                                         *)
(* A token is a sequence of bytes.  The text of a dictionary file is       *)
(* abstracted to what its lines yield: a token, nothing, or FATAL().       *)
(***************************************************************************)
EXTENDS Words, FiniteSets, FiniteSetsExt, SequencesExt

CONSTANTS
  MAX_AUTO_EXTRAS,  \* size of the table (500)
  USE_AUTO_EXTRAS,  \* how many of them are used and saved (50)
  MIN_AUTO_EXTRA,   \* lengths of an auto extra (3 and 32)
  MAX_AUTO_EXTRA,
  MAX_DICT_FILE,    \* longest user extra (128)
  ToLower,          \* tolower() on bytes
  UserTokens,       \* tokens the user's dictionary may hold
  AutoTokens,       \* tokens the bit flips may come up with
  MaxExtras,        \* bound: tokens in the user's dictionary
  MaxAdds,          \* bound: tokens counted or added by all processes together
  MaxDeaths         \* bound: how often the process ends

ASSUME DictionaryAssumption ==
  /\ MAX_AUTO_EXTRAS \in Nat \ {0} /\ USE_AUTO_EXTRAS \in Nat \ {0}
  /\ USE_AUTO_EXTRAS <= MAX_AUTO_EXTRAS \div 2
  /\ MIN_AUTO_EXTRA \in Nat \ {0} /\ MAX_AUTO_EXTRA >= MIN_AUTO_EXTRA
  /\ ToLower \in [Byte -> Byte]
  /\ UserTokens \cup AutoTokens \subseteq Seq(Byte)
  /\ MaxExtras \in Nat

VARIABLES
  phase,         \* "load_auto", "load_extras", "run", "fatal" or "dead"
  extras,        \* the user's tokens
  a_extras,      \* the auto extras: records of data and hit_cnt
  auto_changed,  \* is a_extras newer than the files?
  auto_files,    \* queue/.state/auto_extras: the contents of auto_0, auto_1...
  resume_files,  \* the same directory of _resume/, or <<>> if there is none
  loaded,        \* files load_auto() has read
  adds, deaths   \* counters for the bounds

dictTables == <<extras, a_extras, auto_changed>>
dictFiles  == <<auto_files, resume_files, loaded>>
dictVars   == <<phase, dictTables, dictFiles, adds, deaths>>

----------------------------------------------------------------------------
(* Recognising a token that is not worth keeping. *)

\* memcmp_nocase(), on tokens of any length.
SameToken(a, b) ==
  Len(a) = Len(b) /\ \A k \in 1 .. Len(a) : ToLower[a[k]] = ToLower[b[k]]

Uniform(mem) == \A k \in 1 .. Len(mem) : mem[k] = mem[1]

\* The two-byte comparison promotes interesting_16[i] to a signed int, so
\* that a negative value is recognised in swapped form only.
IsInteresting(mem) ==
  \/ /\ Len(mem) = 2
     /\ \E k \in 1 .. Len(interesting_16) :
          LET v == interesting_16[k]
          IN  (v >= 0 /\ mem = Bytes(v, 2)) \/ mem = Reverse(Bytes(v, 2))
  \/ /\ Len(mem) = 4
     /\ \E k \in 1 .. Len(interesting_32) :
          mem \in {Bytes(interesting_32[k], 4), Reverse(Bytes(interesting_32[k], 4))}

\* The search in extras starts at the first token that is long enough and ends
\* at the first one that is longer: it relies on the order of the table.
MatchesExtra(mem) ==
  LET from == {k \in 1 .. Len(extras) : Len(extras[k]) >= Len(mem)}
  IN  \E k \in from : /\ \A m \in Min(from) .. k : Len(extras[m]) = Len(mem)
                      /\ SameToken(extras[k], mem)

----------------------------------------------------------------------------
(* The table of auto extras. *)

\* The results of an unstable qsort(): the rearrangements of s that Ordered
\* accepts.
Orders == [n \in 0 .. Max({MAX_AUTO_EXTRAS, MaxExtras}) |-> SetToSeqs(1 .. n)]
Rearrangements(s) == {[k \in 1 .. Len(s) |-> s[p[k]]] : p \in Orders[Len(s)]}
Sorts(s, Ordered(_)) == {t \in Rearrangements(s) : Ordered(t)}

ByLength(t) == \A k, m \in 1 .. Len(t) : k < m => Len(t[k]) <= Len(t[m])

\* Number of auto extras that are in use, and what the two sorts at
\* sort_a_extras establish: those come first and have been hit most often, and
\* they are in order of their length, the others in order of their hits.
Used(t) == IF Len(t) < USE_AUTO_EXTRAS THEN Len(t) ELSE USE_AUTO_EXTRAS
ByUseThenLength(t) ==
  \A k, m \in 1 .. Len(t) : k < m =>
    IF m <= Used(t) THEN Len(t[k].data) <= Len(t[m].data)
                    ELSE t[k].hit_cnt >= t[m].hit_cnt

Fresh(mem) == [data |-> mem, hit_cnt |-> 0]
Matching(mem) == {k \in 1 .. Len(a_extras) : SameToken(a_extras[k].data, mem)}

Evictable_anywhere == 1 .. MAX_AUTO_EXTRAS

\* The slots of which one is drawn for eviction.
Evictable ==
  {MAX_AUTO_EXTRAS \div 2 + r + 1 : r \in 0 .. ((MAX_AUTO_EXTRAS + 1) \div 2) - 1}

\* The table before it is sorted again: a token that is there is counted, a
\* new one appended, or put in the place of one of the bottom half.
Inserted(mem) ==
  IF Matching(mem) # {}
  THEN {[a_extras EXCEPT ![Min(Matching(mem))].hit_cnt = @ + 1]}
  ELSE IF Len(a_extras) < MAX_AUTO_EXTRAS
       THEN {Append(a_extras, Fresh(mem))}
       ELSE {[a_extras EXCEPT ![k] = Fresh(mem)] : k \in Evictable}

\* A hit is not taken for a change.
maybe_add_auto_hit_unnoticed(mem) ==
  IF Uniform(mem) \/ IsInteresting(mem) \/ MatchesExtra(mem)
  THEN UNCHANGED <<a_extras, auto_changed>>
  ELSE /\ auto_changed' = (auto_changed \/ Matching(mem) = {})
       /\ \E t \in Inserted(mem) : a_extras' \in Sorts(t, ByUseThenLength)

maybe_add_auto(mem) ==
  IF Uniform(mem) \/ IsInteresting(mem) \/ MatchesExtra(mem)
  THEN UNCHANGED <<a_extras, auto_changed>>
  ELSE /\ auto_changed' = TRUE
       /\ \E t \in Inserted(mem) : a_extras' \in Sorts(t, ByUseThenLength)

----------------------------------------------------------------------------
(* The life of a process. *)

DictInit ==
  /\ phase = "load_auto" /\ loaded = 0
  /\ extras = <<>> /\ a_extras = <<>> /\ auto_changed = FALSE
  /\ auto_files = <<>> /\ resume_files = <<>>
  /\ adds = 0 /\ deaths = 0

\* One turn of the loop of load_auto(), which reads at most USE_AUTO_EXTRAS
\* files and skips those of a wrong length.
load_auto_file ==
  /\ phase = "load_auto" /\ loaded < USE_AUTO_EXTRAS /\ loaded < Len(resume_files)
  /\ loaded' = loaded + 1
  /\ LET mem == resume_files[loaded + 1]
     IN  IF Len(mem) \in MIN_AUTO_EXTRA .. MAX_AUTO_EXTRA
         THEN maybe_add_auto(mem) ELSE UNCHANGED <<a_extras, auto_changed>>
  /\ UNCHANGED <<phase, extras, auto_files, resume_files, adds, deaths>>

\* The end of load_auto(), and pivot_inputs(), which removes _resume/.
pivot_inputs ==
  /\ phase = "load_auto"
  /\ loaded = USE_AUTO_EXTRAS \/ loaded >= Len(resume_files)
  /\ resume_files' = <<>> /\ phase' = "load_extras"
  /\ UNCHANGED <<dictTables, auto_files, loaded, adds, deaths>>

\* A line of a dictionary file, or a file of a dictionary directory, that
\* holds a token; one that is too long is a fatal error.
load_extra ==
  /\ phase = "load_extras" /\ Len(extras) < MaxExtras
  /\ \E mem \in UserTokens :
       IF Len(mem) > MAX_DICT_FILE
       THEN phase' = "fatal" /\ UNCHANGED extras
       ELSE phase' = phase /\ extras' = Append(extras, mem)
  /\ UNCHANGED <<a_extras, auto_changed, dictFiles, adds, deaths>>

sort_extras_unsorted ==
  /\ phase = "load_extras"
  /\ IF extras = <<>> THEN phase' = "fatal" ELSE phase' = "run"
  /\ UNCHANGED <<dictTables, dictFiles, adds, deaths>>

\* check_and_sort; a dictionary without a single token is a fatal error.
sort_extras ==
  /\ phase = "load_extras"
  /\ IF extras = <<>>
     THEN phase' = "fatal" /\ UNCHANGED extras
     ELSE phase' = "run" /\ extras' \in Sorts(extras, ByLength)
  /\ UNCHANGED <<a_extras, auto_changed, dictFiles, adds, deaths>>

\* There is no -x option.
no_extras_dir ==
  /\ phase = "load_extras" /\ extras = <<>> /\ phase' = "run"
  /\ UNCHANGED <<dictTables, dictFiles, adds, deaths>>

\* The first bit-flipping stage has isolated a token.
learn ==
  /\ phase = "run" /\ adds < MaxAdds
  /\ \E mem \in AutoTokens : maybe_add_auto(mem)
  /\ adds' = IF a_extras' = a_extras THEN adds ELSE adds + 1
  /\ UNCHANGED <<phase, extras, dictFiles, deaths>>

\* Each of the files is overwritten, and none is ever removed.
WriteOver(files, t) ==
  [k \in 1 .. Max({Len(files), Used(t)}) |-> IF k <= Used(t) THEN t[k].data ELSE files[k]]

save_auto ==
  /\ phase = "run" /\ auto_changed
  /\ auto_changed' = FALSE
  /\ auto_files' = WriteOver(auto_files, a_extras)
  /\ UNCHANGED <<phase, extras, a_extras, resume_files, loaded, adds, deaths>>

\* Everything in memory is gone.
Die ==
  /\ phase' = "dead"
  /\ extras' = <<>> /\ a_extras' = <<>> /\ auto_changed' = FALSE
  /\ loaded' = 0
  /\ UNCHANGED <<resume_files, adds, deaths>>

\* The process exits, having called save_auto(), or is killed.
die == phase # "dead" /\ Die /\ UNCHANGED auto_files

\* It is killed in the middle of save_auto(): n files are new, the next one is
\* truncated, and the others are old.
die_saving ==
  /\ phase = "run" /\ auto_changed
  /\ \E n \in 0 .. Used(a_extras) - 1 :
       LET new == WriteOver(auto_files, SubSeq(a_extras, 1, n + 1))
       IN  auto_files' = [new EXCEPT ![n + 1] = <<>>]
  /\ Die

\* The next process renames queue/ to _resume/ unless an earlier one left that
\* behind: then queue/ is deleted instead.
restart ==
  /\ phase = "dead" /\ deaths < MaxDeaths
  /\ phase' = "load_auto" /\ deaths' = deaths + 1
  /\ resume_files' = IF resume_files # <<>> THEN resume_files ELSE auto_files
  /\ auto_files' = <<>>
  /\ UNCHANGED <<dictTables, loaded, adds>>

DictNext ==
  \/ load_auto_file \/ pivot_inputs
  \/ load_extra \/ sort_extras \/ no_extras_dir
  \/ learn \/ save_auto
  \/ die \/ die_saving \/ restart

DictSpec == DictInit /\ [][DictNext]_dictVars

----------------------------------------------------------------------------
(* Properties. *)

Tokens(t) == {t[k].data : k \in 1 .. Len(t)}

\* Whenever auto_changed is off, the files hold exactly the tokens in use, in
\* their order: hits that change the ranking are noticed as well as new tokens,
\* and no file of a token that fell out of use stays behind.
AutoFilesCurrent ==
  phase = "run" /\ ~auto_changed =>
    auto_files = [k \in 1 .. Used(a_extras) |-> a_extras[k].data]

\* maybe_add_auto() takes in a token only if no user extra and no auto extra
\* equals it up to case, although it searches the sorted extras only where it
\* expects the length, and the auto extras move about.
NewTokensAreNew ==
  [][\A new \in Tokens(a_extras') \ Tokens(a_extras) :
       \A old \in Tokens(a_extras) \cup ToSet(extras) : ~SameToken(old, new)]_dictVars

\* A running process never gives up a token in use, nor one that was hit more
\* often than any of the better half of the table.
OnlyRareTokensEvicted ==
  [][phase' # "dead" =>
       \A k \in 1 .. Len(a_extras) : a_extras[k].data \notin Tokens(a_extras') =>
         /\ k > USE_AUTO_EXTRAS
         /\ \A m \in 1 .. MAX_AUTO_EXTRAS \div 2 :
              a_extras[m].hit_cnt >= a_extras[k].hit_cnt]_dictVars

=============================================================================
