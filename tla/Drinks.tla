---------------------------------- MODULE Drinks ----------------------------------
(***************************************************************************)
(* src/drinks.c with src/util/dynamic_array.c: one call of                 *)
(* drinks_io_read_ingredients or drinks_io_read_recipes, from the open     *)
(* file to the array the GUI works with.  A file is a sequence of symbols: *)
(* words, numbers, the two separators and the newline.  strtok works on    *)
(* what is left of the line; NULL is the empty token.                      *)
(***************************************************************************)
EXTENDS Integers, SequencesExt

CONSTANTS IdMod,        \* ids are uint16_t: 65536
          CountMod,     \* counts are uint8_t: 256
          BufferSize,   \* BUFFER_SIZE of fgets: 256
          InitialSize,  \* VLA_INITIAL_SIZE: 5
          Numbers,      \* the numbers written in a file
          MaxPairs, MaxLines  \* bounds: pairs in a line, lines in a file

ASSUME WidthAssumption == IdMod \in Nat \ {0} /\ CountMod \in Nat \ {0}
ASSUME SizeAssumption == BufferSize \in Nat \ {0, 1} /\ InitialSize \in Nat \ {0}
ASSUME FileAssumption == Numbers \subseteq Nat /\ MaxPairs \in Nat /\ MaxLines \in Nat

--------------------------------------------------------------------------------
(* What someone may write into a file *)

Kinds == {"word", "number", ";", "-", "\n"}
Symbol == [kind : Kinds, val : Nat]
Sep(kind) == [kind |-> kind, val |-> 0]
Number(n) == [kind |-> "number", val |-> n]
Word == Sep("word")

Pair == [id : Numbers, count : Numbers]
Names == {<<Word>>, <<Word, Sep("-"), Word>>}

(* The shape of a line: as the shipped files have it, without its last ";", *)
(* without its newline (only the last line), without an id, or blank.       *)
Shapes == {"shipped", "bare", "unended", "nameOnly", "blank"}
Line ==
    [name : Names, id : Numbers, pairs : BoundedSeq(Pair, MaxPairs),
     shape : {"shipped", "bare", "unended"}]
    \cup [name : Names, id : {0}, pairs : {<<>>}, shape : {"nameOnly", "blank"}]

PairText(p) == <<Number(p.id), Sep("-"), Number(p.count), Sep(";")>>
Fields(l) ==
    l.name \o <<Sep(";"), Number(l.id), Sep(";")>>
        \o FlattenSeq([i \in DOMAIN l.pairs |-> PairText(l.pairs[i])])

Text(l) ==
    CASE l.shape = "shipped"  -> Fields(l) \o <<Sep("\n")>>
      [] l.shape = "bare"     -> Front(Fields(l)) \o <<Sep("\n")>>
      [] l.shape = "unended"  -> Fields(l)
      [] l.shape = "nameOnly" -> l.name \o <<Sep("\n")>>
      [] l.shape = "blank"    -> <<Sep("\n")>>

Files ==
    {f \in BoundedSeq(Line, MaxLines) :
        \A i \in DOMAIN f : f[i].shape = "unended" => i = Len(f)}

Contents(f) == FlattenSeq([i \in DOMAIN f |-> Text(f[i])])

--------------------------------------------------------------------------------
VARIABLES lines,       \* the file as it was written; never changes
          kind,        \* which of the two files it is
          file,        \* what fgets has not read yet
          rest,        \* what strtok has not returned yet
          part,        \* part_str
          rec,         \* the Ingredient or Recipe being made
          used, size, data,  \* the dynamic array
          pc

vars == <<lines, kind, file, rest, part, rec, used, size, data, pc>>
array == <<used, size, data>>

NoRecord == [name |-> <<>>, id |-> 0, pairs |-> <<>>]

Init ==
    /\ lines \in Files
    /\ kind \in {"ingredients", "recipes"}
    /\ file = Contents(lines)
    /\ rest = <<>> /\ part = <<>> /\ rec = NoRecord
    /\ used = 0 /\ size = InitialSize /\ data = <<>>
    /\ pc = "fgets"

--------------------------------------------------------------------------------
(* The C library *)

(* The place of the first symbol of one of these kinds, 0 if there is none. *)
First(s, kinds) == SelectInSeq(s, LAMBDA c : c.kind \in kinds)

(* strtok skips separators, then takes what comes before the next one,      *)
(* which it overwrites.                                                     *)
Strtok(s, sep) ==
    LET start == First(s, Kinds \ {sep})
        body == SubSeq(s, start, Len(s))
        end == First(body, {sep})
    IN  IF start = 0 THEN [token |-> <<>>, rest |-> <<>>]
        ELSE IF end = 0 THEN [token |-> body, rest |-> <<>>]
        ELSE [token |-> SubSeq(body, 1, end - 1), rest |-> SubSeq(body, end + 1, Len(body))]

(* atoi, whose int is then stored in a narrower field. *)
Atoi(token) == IF Head(token).kind = "number" THEN Head(token).val ELSE 0

(* How much of s one fgets takes: up to a newline or a full buffer. *)
FgetsLength(s) ==
    LET newline == First(s, {"\n"})
        line == IF newline = 0 THEN Len(s) ELSE newline
    IN  IF line < BufferSize THEN line ELSE BufferSize - 1

--------------------------------------------------------------------------------
(* Each record starts from an initializer of zeros. *)
BugNewRecord == rec
NewRecord == NoRecord

ReadLine ==
    /\ pc = "fgets" /\ file # <<>>
    /\ rest' = SubSeq(file, 1, FgetsLength(file))
    /\ file' = SubSeq(file, FgetsLength(file) + 1, Len(file))
    /\ rec' = NewRecord
    /\ pc' = "create"
    /\ UNCHANGED <<lines, kind, part, array>>

EndOfFile ==
    /\ pc = "fgets" /\ file = <<>>
    /\ pc' = "done"
    /\ UNCHANGED <<lines, kind, file, rest, part, rec, array>>

NameToken == Strtok(rest, ";")
IdToken == Strtok(NameToken.rest, ";")

(* ingredient_create: a missing id stays 0. *)
BugIngredientId == IF IdToken.token = <<>> THEN 0 ELSE Atoi(IdToken.token)
IngredientId == IF IdToken.token = <<>> THEN 0 ELSE Atoi(IdToken.token) % IdMod

IngredientCreate ==
    /\ pc = "create" /\ kind = "ingredients"
    /\ rec' = [rec EXCEPT !.name = NameToken.token, !.id = IngredientId]
    /\ pc' = "append"
    /\ UNCHANGED <<lines, kind, file, rest, part, array>>

(* The pairs of a recipe have a separator of their own. *)
BugPairToken(s) == Strtok(s, ";")
PairToken(s) == Strtok(s, "-")

(* recipe_create up to its loop: strncpy and atoi do not look for NULL. *)
RecipeHead ==
    /\ pc = "create" /\ kind = "recipes"
    /\ NameToken.token # <<>> /\ IdToken.token # <<>>
    /\ rec' = [rec EXCEPT !.name = NameToken.token, !.id = Atoi(IdToken.token) % IdMod]
    /\ LET first == PairToken(IdToken.rest)
       IN  part' = first.token /\ rest' = first.rest
    /\ pc' = "loop"
    /\ UNCHANGED <<lines, kind, file, array>>

HeadIsNull ==
    /\ pc = "create" /\ kind = "recipes"
    /\ NameToken.token = <<>> \/ IdToken.token = <<>>
    /\ pc' = "crashed"
    /\ UNCHANGED <<lines, kind, file, rest, part, rec, array>>

LoopEnds ==
    /\ pc = "loop" /\ part = <<>>
    /\ pc' = "append"
    /\ UNCHANGED <<lines, kind, file, rest, part, rec, array>>

CountToken == Strtok(rest, ";")

(* dt_recipe_append_pair *)
BugWithPair(pairs, id, count) == <<[id |-> id, count |-> count]>> \o pairs
WithPair(pairs, id, count) == Append(pairs, [id |-> id, count |-> count])

(* The bug: a count of 0 is taken, and the loop goes on. *)
BugPairHasNoCount ==
    /\ pc = "loop" /\ part # <<>>
    /\ CountToken.token = <<>>
    /\ rec' = [rec EXCEPT !.pairs = WithPair(@, Atoi(part) % IdMod, 0)]
    /\ UNCHANGED <<lines, kind, file, part, rest, pc, array>>
(* "Error during id count pair decoding": no count behind an id. *)
PairHasNoCount ==
    /\ pc = "loop" /\ part # <<>>
    /\ CountToken.token = <<>>
    /\ part' = <<>> /\ rest' = <<>>
    /\ pc' = "append"
    /\ UNCHANGED <<lines, kind, file, rec, array>>

(* One turn of the loop: the count, the next id, then the look for a token  *)
(* that is the newline alone, which strcmp cannot do with NULL.             *)
AppendPair ==
    /\ pc = "loop" /\ part # <<>>
    /\ CountToken.token # <<>>
    /\ rec' = [rec EXCEPT !.pairs =
                WithPair(@, Atoi(part) % IdMod, Atoi(CountToken.token) % CountMod)]
    /\ LET next == PairToken(CountToken.rest)
       IN  /\ part' = next.token /\ rest' = next.rest
           /\ pc' = CASE next.token = <<>>          -> "crashed"
                      [] next.token = <<Sep("\n")>> -> "append"
                      [] OTHER                      -> "loop"
    /\ UNCHANGED <<lines, kind, file, array>>

(* ceil(size * 1.6f) *)
BugNewSize(n) == (8 * n) \div 5
NewSize(n) == (8 * n + 4) \div 5

VlaAppend ==
    /\ pc = "append"
    /\ size' = IF size = used THEN NewSize(size) ELSE size
    /\ data' = Append(data, rec)
    /\ used' = used + 1
    /\ pc' = "fgets"
    /\ UNCHANGED <<lines, kind, file, rest, part, rec>>

Next ==
    \/ ReadLine \/ EndOfFile
    \/ IngredientCreate
    \/ RecipeHead \/ HeadIsNull \/ LoopEnds \/ PairHasNoCount \/ AppendPair
    \/ VlaAppend

Spec == Init /\ [][Next]_vars

(* drinks_io_get_recipe_by_id and drinks_io_get_ingredient_by_id: the first *)
(* record with the id, 0 if there is none.                                  *)
BugById(id) == SelectLastInSeq(data, LAMBDA r : r.id = id)
ById(id) == SelectInSeq(data, LAMBDA r : r.id = id)

--------------------------------------------------------------------------------
TypeOK ==
    /\ pc \in {"fgets", "create", "loop", "append", "done", "crashed"}
    /\ \A s \in {file, rest, part} : s \in Seq(Symbol)
    /\ rec.id \in 0 .. IdMod - 1
    /\ \A i \in DOMAIN rec.pairs :
        rec.pairs[i].id \in 0 .. IdMod - 1 /\ rec.pairs[i].count \in 0 .. CountMod - 1
    /\ used \in Nat /\ size \in Nat /\ used = Len(data)

(* vla_append never writes behind its memory: growing always makes room     *)
(* (dynamic_array.c:45), from any initial size.                             *)
ArrayFits == used <= size

FitsBuffer(l) == Len(Text(l)) < BufferSize

(* A line whose numbers fit their types, and which is written the way the   *)
(* parser needs it: the pairs of a recipe end with a separator and the line *)
(* with a newline.                                                          *)
Good(l) ==
    /\ FitsBuffer(l)
    /\ l.id < IdMod
    /\ \A i \in DOMAIN l.pairs : l.pairs[i].id < IdMod /\ l.pairs[i].count < CountMod
    /\ \/ l.shape = "shipped"
       \/ l.shape \in {"bare", "unended"} /\ (kind = "ingredients" \/ l.pairs = <<>>)

Meaning(l) ==
    [name |-> l.name, id |-> l.id,
     pairs |-> IF kind = "recipes" THEN l.pairs ELSE <<>>]

(* A line makes one record, and that of a good line is what was written,    *)
(* whatever stands in the lines before it (drinks.c:82).                    *)
EachLineAlone ==
    (\A i \in DOMAIN lines : FitsBuffer(lines[i])) =>
        /\ pc = "done" => used = Len(lines)
        /\ \A i \in 1 .. used : Good(lines[i]) => data[i] = Meaning(lines[i])

AllGood == \A i \in DOMAIN lines : Good(lines[i])

(* None of the unchecked results of strtok is NULL in a good file. *)
GoodFilesLoad == AllGood => pc # "crashed"

(* The record found for an id is the first that was written with it         *)
(* (drinks.c:134,184).                                                      *)
FoundAsWritten ==
    pc = "done" /\ AllGood =>
        \A i \in DOMAIN lines :
            (\A j \in 1 .. i - 1 : lines[j].id # lines[i].id) => ById(lines[i].id) = i

(* Every file comes to an end, however it is written: each step takes       *)
(* something from the file or the line, or comes nearer to the next.        *)
Rank == [done |-> 0, crashed |-> 0, fgets |-> 1, append |-> 2, loop |-> 3, create |-> 4]
Remaining == 5 * Len(file) + Len(rest) + Rank[pc]
EveryStepConsumes == [][Remaining' < Remaining]_vars

================================================================================
