-------------------------------- MODULE LsL --------------------------------
(***************************************************************************)
(* ls_l (A2): one line for each file of a directory, with its type and its *)
(* permissions, while files may be removed.  Files are numbered in         *)
(* alphabetical order, "." and ".." left out.                              *)
(***************************************************************************)
EXTENDS Naturals, Sequences

CONSTANTS Files,          \* how many files the directory has
          Modes           \* the permissions they may have

\* st_mode's permission bits, in the order of the columns.
Bits == <<"S_IRUSR", "S_IWUSR", "S_IXUSR",
          "S_IRGRP", "S_IWGRP", "S_IXGRP",
          "S_IROTH", "S_IWOTH", "S_IXOTH">>
Bit == {Bits[i] : i \in DOMAIN Bits}
File == 1 .. Files
Column == 1 .. 9

\* What the constants are.
ListAssumption == Files \in Nat /\ Modes \subseteq SUBSET Bit

VARIABLES mode,           \* the permissions of each file
          kind,           \* its type, as far as stat tells
          found,          \* the files stat finds: not removed, no dangling link
          n,              \* n of main: the files still to print
          status,
          lines           \* what is printed

vars == <<mode, kind, found, n, status, lines>>

\* stat follows links, so no file is one.
Kind == {"-", "d"}
Line == [type : Kind, perm : [Column -> BOOLEAN], file : File]

TypeOK == /\ mode \in [File -> Modes]
          /\ kind \in [File -> Kind]
          /\ found \subseteq File
          /\ n \in 0 .. Files
          /\ status \in {"running", "done", "exit"}
          /\ lines \in Seq(Line)

Init == /\ mode \in [File -> Modes]
        /\ kind \in [File -> Kind]
        /\ found \in SUBSET File
        /\ n = Files
        /\ status = "running"
        /\ lines = <<>>

\* The group's three columns look at its read bit, and those of others at what
\* S_IROTH leaves of theirs.
perm_str(m) ==
    [i \in Column |-> IF i <= 3 THEN Bits[i] \in m
                      ELSE IF i <= 6 THEN "S_IRGRP" \in m
                      ELSE Bits[i] \in m \cap {"S_IROTH"}]

\* From the last name to the first; the program exits if stat fails.
info_file ==
    /\ status = "running" /\ n > 0
    /\ IF n \in found
          THEN /\ n' = n - 1
               /\ lines' = Append(lines,
                      [type |-> kind[n], perm |-> perm_str(mode[n]), file |-> n])
               /\ UNCHANGED status
          ELSE status' = "exit" /\ UNCHANGED <<n, lines>>
    /\ UNCHANGED <<mode, kind, found>>

End == /\ status = "running" /\ n = 0
       /\ status' = "done"
       /\ UNCHANGED <<mode, kind, found, n, lines>>

main == info_file \/ End

Remove(f) == /\ status = "running"
             /\ f \in found
             /\ found' = found \ {f}
             /\ UNCHANGED <<mode, kind, n, status, lines>>

Disturb == \E f \in File : Remove(f)

Next == main \/ Disturb

Spec == Init /\ [][Next]_vars

(***************************************************************************)
(* Properties.                                                             *)
(***************************************************************************)
\* No file has two lines, a finished listing has one of every file, and one that
\* breaks off does so because a file cannot be found.  A line shows the type of
\* its file, what the owner may do, and whether the group and others may read.
ListingIsRight ==
    /\ \A i, j \in DOMAIN lines : lines[i].file = lines[j].file => i = j
    /\ status = "done" => \A f \in File : \E i \in DOMAIN lines : lines[i].file = f
    /\ status = "exit" => found # File
    /\ \A k \in DOMAIN lines :
           LET l == lines[k] IN
           /\ l.type = kind[l.file]
           /\ \A i \in {1, 2, 3, 4, 7} : l.perm[i] <=> Bits[i] \in mode[l.file]

\* "the way ls -l does", as the comment on info_file has it: in alphabetical
\* order, every column with its own permission.  No listing of two files is.
AsLsDoes ==
    /\ \A i \in DOMAIN lines : lines[i].file = i
    /\ \A k \in DOMAIN lines : \A i \in Column :
           lines[k].perm[i] <=> Bits[i] \in mode[lines[k].file]

Running == status = "running"
=============================================================================
