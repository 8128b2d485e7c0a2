----------------------------- MODULE Exercises -----------------------------
(***************************************************************************)
(* The three file exercises, LsTree, LsL and WordSeparator, in one:        *)
(* which of them runs is chosen at the start.  They share nothing.         *)
(***************************************************************************)
EXTENDS LsTree

CONSTANTS Files, Modes,             \* of LsL
          Letter, Space, LineEnd, MaxLength,  \* of WordSeparator
          SomeKind, SomeUp          \* a tree, for when ls_tree does not run

VARIABLE program
VARIABLES fileMode, fileKind, found, left, listing, printed
VARIABLES file, wordPc, taken, content, index, a_word, words, count

List == INSTANCE LsL WITH mode <- fileMode, kind <- fileKind, n <- left,
                          status <- listing, lines <- printed
Word == INSTANCE WordSeparator WITH pc <- wordPc

ASSUME ExerciseAssumption ==
    TreeAssumption /\ List!ListAssumption /\ Word!WordAssumption

off == "off"

\* There is some tree, but only ls_tree looks at it.
TreeOff == /\ kind = SomeKind /\ up = SomeUp
           /\ closed = {} /\ unreadable = {}
           /\ Init
ListOff == /\ fileMode = off /\ fileKind = off /\ found = off /\ left = off
           /\ listing = off /\ printed = off
WordOff == /\ file = off /\ wordPc = off /\ taken = off /\ content = off /\ index = off
           /\ a_word = off /\ words = off /\ count = off

Start == \/ program = "ls_tree" /\ Init /\ ListOff /\ WordOff
         \/ program = "ls_l" /\ TreeOff /\ List!Init /\ WordOff
         \/ program = "parse" /\ TreeOff /\ ListOff /\ Word!Init

listVars == <<fileMode, fileKind, found, left, listing, printed>>
wordVars == <<file, wordPc, taken, content, index, a_word, words, count>>
allVars == <<program, vars, listVars, wordVars>>

\* The program's own step.
Step == \/ program = "ls_tree" /\ print_file /\ UNCHANGED <<program, listVars, wordVars>>
        \/ List!main /\ UNCHANGED <<program, vars, wordVars>>
        \/ Word!main /\ UNCHANGED <<program, vars, listVars>>

\* What other programs do to the files.
Meddle == \/ program = "ls_tree" /\ Disturb /\ UNCHANGED <<program, listVars, wordVars>>
          \/ List!Disturb /\ UNCHANGED <<program, vars, wordVars>>

Exercises == Start /\ [][Step \/ Meddle]_allVars

\* The program that runs keeps running.
FairExercises == Exercises /\ WF_allVars(Step)

\* What ls_l and the word counter get right, whatever the files: each file its
\* line, with the type and the columns that are not mixed up; each word that
\* stands between separators its count.
ReportsAreRight ==
    /\ program = "ls_l" => List!TypeOK /\ List!ListingIsRight
    /\ program = "parse" => Word!TypeOK /\ Word!CountsWords

\* Every program ends, be it by overflowing its stack, except that the word
\* counter does not if its file cannot be opened.
Ends == <>~(\/ program = "ls_tree" /\ Running
            \/ program = "ls_l" /\ List!Running
            \/ program = "parse" /\ Word!Running)
=============================================================================
