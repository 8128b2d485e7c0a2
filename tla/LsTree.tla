------------------------------- MODULE LsTree -------------------------------
(***************************************************************************)
(* ls_tree (A2): prints a directory tree by changing into each directory,  *)
(* listing it, and coming back with "..", while other programs remove and  *)
(* move files.                                                             *)
(*                                                                         *)
(* The file system is a tree over nodes; a symbolic link leads to one that *)
(* is not a link, or to itself, which is nowhere.  A node keeps its place  *)
(* when it is removed, as a directory does that a process is in.  A path   *)
(* needs permission to search every directory on it: get_path's begins at  *)
(* the file system's root, and so does a link's.  get_path and the call    *)
(* that uses the path are one step.                                        *)
(***************************************************************************)
EXTENDS Naturals, Sequences, FiniteSets

CONSTANTS Node,           \* files, directories and links below the start
          Root,           \* the directory the program starts in
          Outside,        \* the one that is in, where none of the names is
          name,           \* the name of each node
          MaxDepth,       \* nested calls of print_file the stack has room for
          MaxOdd          \* bound: links, directories with restrictions, and
                          \* changes other programs make

Place == Node \cup {Root, Outside}
Name == {name[n] : n \in Node}

\* What the constants are.
TreeAssumption == /\ IsFiniteSet(Node)
                  /\ {Root, Outside} \cap Node = {}
                  /\ Root # Outside
                  /\ DOMAIN name = Node
                  /\ MaxDepth \in Nat /\ MaxDepth > Cardinality(Node)
                  /\ MaxOdd \in Nat

VARIABLES kind, target,   \* what each node is, and where a link leads
          up,             \* the directory it is in
          present,        \* the nodes not removed
          closed,         \* directories that may not be entered
          unreadable,     \* those that may be entered and not read
          changes,        \* changes so far
          cwd,            \* the working directory
          stack,          \* the calls of print_file: the directory each
                          \* lists and the names it has still to print
          pc,             \* where the innermost call is
          at,             \* its name
          status,         \* how the program ended
          lines,          \* what is printed: the node that has the name in
                          \* the working directory, and the indentation
          strayed         \* history: has the way back been lost?

system == <<kind, target, up, present, closed, unreadable, changes>>
vars == <<system, cwd, stack, pc, at, status, lines, strayed>>

Dirs == {n \in Node : kind[n] = "dir"} \cup {Root}
Links == {n \in Node : kind[n] = "link"}

Odd == Cardinality(Links \cup closed \cup unreadable)

Entries(d) == {n \in present : up[n] = d}

\* How many directories there are between each node and the start.  There is
\* one such function, or none.
Depths == {depth \in [Node -> 0 .. Cardinality(Node)] :
              \A n \in Node : depth[n] = IF up[n] = Root THEN 0 ELSE depth[up[n]] + 1}
Depth == CHOOSE depth \in Depths : TRUE

IsTree == /\ \A n \in Node : up[n] \in Dirs \ {n}
          /\ Depths # {}
          /\ \A n, m \in present : name[n] = name[m] /\ up[n] = up[m] => n = m

TypeOK == /\ kind \in [Node -> {"file", "dir", "link"}]
          /\ target \in [Node -> Node \cup {Root}]
          /\ up \in [Place -> Place]
          /\ present \subseteq Node
          /\ closed \subseteq Dirs /\ unreadable \subseteq Dirs
          /\ changes \in 0 .. MaxOdd
          /\ cwd \in Dirs \cup {Outside}
          /\ stack \in Seq([dir : Dirs \cup {Outside}, todo : SUBSET Name])
          /\ Len(stack) <= MaxDepth + 1
          /\ pc \in {"entries", "stat", "chdir", "scan", "return"}
          /\ Name = {} \/ at \in Name
          /\ status \in {"running", "done", "exit", "crash"}
          /\ lines \in Seq([nodes : SUBSET Node, ident : 0 .. MaxDepth])
          /\ strayed \in BOOLEAN

\* main lists the start directory.
Init ==
    /\ kind \in [Node -> {"file", "dir", "link"}]
    /\ up \in {f \in [Place -> Place] : f[Root] = Outside /\ f[Outside] = Outside}
    /\ present = Node
    /\ IsTree
    /\ target \in [Node -> Node \cup {Root}]
    /\ \A n \in Node : IF n \in Links THEN target[n] \notin Links \ {n} ELSE target[n] = Root
    /\ closed \in SUBSET (Dirs \ {Root}) /\ unreadable \in SUBSET (Dirs \ {Root})
    /\ closed \cap unreadable = {}
    /\ Odd <= MaxOdd
    /\ changes = 0
    /\ cwd = Root
    /\ stack = <<[dir |-> Root, todo |-> {name[n] : n \in Entries(Root)}]>>
    /\ pc = "entries"
    /\ at = (CHOOSE nm \in Name : TRUE)
    /\ status = "running"
    /\ lines = <<>>
    /\ strayed = FALSE

(***************************************************************************)
(* print_file.                                                             *)
(***************************************************************************)
At(p) == status = "running" /\ pc = p
Top == stack[Len(stack)]
ident == Len(stack) - 1

\* What is there and no link.
There == (present \cup {Root}) \ Links

\* What no path leads to: everything below a closed directory.
Hidden == {n \in Node : \A S \in SUBSET Node :
              (\A m \in Node : up[m] \in closed \cup S => m \in S) => n \in S}

Reachable == There \ Hidden

\* The name in the working directory, and what a path with it at its end
\* leads to: nothing if the link dangles or if permissions are in the way.
Named == {n \in Entries(cwd) : name[n] = at}
Found == {IF n \in Links THEN target[n] ELSE n : n \in Named \ Hidden} \cap Reachable

\* get_current_dir_name finds the working directory's path.
HasPath == cwd \in present \cup {Root, Outside}

\* main starts with an indentation of one.
PrintLine_Deep ==
    /\ At("entries")
    /\ \E nm \in Top.todo :
           /\ at' = nm
           /\ stack' = [stack EXCEPT ![Len(stack)].todo = @ \ {nm}]
           /\ lines' = Append(lines, [nodes |-> {n \in Entries(cwd) : name[n] = nm},
                                      ident |-> Len(stack)])
    /\ pc' = "stat"
    /\ UNCHANGED <<system, cwd, status, strayed>>

\* compare returns nothing meaningful: the entries come in any order.
PrintLine ==
    /\ At("entries")
    /\ \E nm \in Top.todo :
           /\ at' = nm
           /\ stack' = [stack EXCEPT ![Len(stack)].todo = @ \ {nm}]
           /\ lines' = Append(lines, [nodes |-> {n \in Entries(cwd) : name[n] = nm},
                                      ident |-> ident])
    /\ pc' = "stat"
    /\ UNCHANGED <<system, cwd, status, strayed>>

\* A file that cannot be found is asked for again.
get_mode_Again ==
    /\ At("stat")
    /\ HasPath /\ Found # {}
    /\ pc' = IF Found \subseteq Dirs THEN "chdir" ELSE "entries"
    /\ UNCHANGED <<system, cwd, stack, at, status, lines, strayed>>

\* stat follows links; the program exits if it fails.
get_mode ==
    /\ At("stat")
    /\ IF ~HasPath THEN status' = "crash" /\ UNCHANGED pc
       ELSE IF Found = {} THEN status' = "exit" /\ UNCHANGED pc
       ELSE /\ pc' = IF Found \subseteq Dirs THEN "chdir" ELSE "entries"
            /\ UNCHANGED status
    /\ UNCHANGED <<system, cwd, stack, at, lines, strayed>>

\* If chdir fails, nobody notices and the working directory stays.  There is
\* no way back from a directory that is not in the one it was entered from.
ChDir ==
    /\ At("chdir")
    /\ IF ~HasPath
          THEN status' = "crash" /\ UNCHANGED <<cwd, pc, strayed>>
          ELSE /\ cwd' \in IF Found \cap Dirs \subseteq closed THEN {cwd} ELSE Found
               /\ strayed' = (strayed \/ up[cwd'] # cwd)
               /\ pc' = "scan"
               /\ UNCHANGED status
    /\ UNCHANGED <<system, stack, at, lines>>

\* The loop over the entries ends one early.
ScanDir_OneLess ==
    /\ At("scan")
    /\ IF Len(stack) > MaxDepth
          THEN status' = "crash" /\ UNCHANGED <<stack, pc>>
          ELSE /\ \E left \in {{}} \cup {{name[n]} : n \in Entries(cwd)} :
                      stack' = Append(stack,
                          [dir |-> cwd,
                           todo |-> IF cwd \in unreadable THEN {}
                                    ELSE {name[n] : n \in Entries(cwd)} \ left])
               /\ pc' = "entries"
               /\ UNCHANGED status
    /\ UNCHANGED <<system, cwd, at, lines, strayed>>

\* scandir(".").  It fails in a directory that may not be read or is removed.
\* The stack overflows where a directory is listed inside itself.
ScanDir ==
    /\ At("scan")
    /\ IF Len(stack) > MaxDepth
          THEN status' = "crash" /\ UNCHANGED <<stack, pc>>
          ELSE /\ stack' = Append(stack,
                      [dir |-> cwd,
                       todo |-> IF cwd \in unreadable THEN {}
                                ELSE {name[n] : n \in Entries(cwd)}])
               /\ pc' = "entries"
               /\ UNCHANGED status
    /\ UNCHANGED <<system, cwd, at, lines, strayed>>

\* The way back is left out.
Return_Stay ==
    /\ At("entries")
    /\ Top.todo = {}
    /\ IF Len(stack) = 1
          THEN status' = "done" /\ UNCHANGED stack
          ELSE stack' = SubSeq(stack, 1, Len(stack) - 1) /\ UNCHANGED status
    /\ UNCHANGED <<system, cwd, pc, at, lines, strayed>>

\* chdir(".."), which may fail as well, or the end of main.
Return ==
    /\ At("entries")
    /\ Top.todo = {}
    /\ IF Len(stack) = 1
          THEN status' = "done" /\ UNCHANGED <<cwd, stack>>
          ELSE /\ cwd' = IF up[cwd] \in closed THEN cwd ELSE up[cwd]
               /\ stack' = SubSeq(stack, 1, Len(stack) - 1)
               /\ UNCHANGED status
    /\ UNCHANGED <<system, pc, at, lines, strayed>>

print_file == PrintLine \/ get_mode \/ ChDir \/ ScanDir \/ Return

(***************************************************************************)
(* Other programs.                                                         *)
(***************************************************************************)
Change == /\ status = "running"
          /\ Odd + changes < MaxOdd
          /\ changes' = changes + 1
          /\ UNCHANGED <<kind, target, closed, unreadable, cwd, stack, pc, at,
                         status, lines>>

Remove(n) == /\ Change
             /\ n \in present
             /\ Entries(n) = {}
             /\ present' = present \ {n}
             /\ UNCHANGED <<up, strayed>>

\* The program loses its way if it is in or below the directory that moves.
Move(n, d) == /\ Change
              /\ n \in present /\ d \in Dirs \cap (present \cup {Root})
              /\ up[n] # d
              /\ up' = [up EXCEPT ![n] = d]
              /\ UNCHANGED present
              /\ IsTree'
              /\ strayed' = (strayed \/ n = cwd \/ \E i \in DOMAIN stack : stack[i].dir = n)

Disturb == \E n \in Node : Remove(n) \/ \E d \in Node \cup {Root} : Move(n, d)

-----------------------------------------------------------------------------
Next == print_file \/ Disturb

Spec == Init /\ [][Next]_vars

FairSpec == Spec /\ WF_vars(print_file)

(***************************************************************************)
(* Properties.                                                             *)
(***************************************************************************)
\* Between two entries the working directory is the one whose entries are
\* printed, and ".." leads from each on the stack to the one below it, unless
\* a link to elsewhere was followed, a chdir failed, or a directory on the
\* stack was moved.  Removing files, or the directory itself, does no harm.
InPlace ==
    pc \in {"entries", "stat", "chdir"} /\ ~strayed =>
        /\ cwd = Top.dir
        /\ \A i \in 1 .. Len(stack) - 1 : up[stack[i + 1].dir] = stack[i].dir

Quiet == changes = 0 /\ ~strayed

\* The line that a reader takes for the directory of the i-th line.
HeadingOf(i) == CHOOSE j \in 1 .. i - 1 :
                   /\ lines[j].ident < lines[i].ident
                   /\ \A k \in j + 1 .. i - 1 : lines[k].ident >= lines[i].ident

\* How a listing ends tells what it was of.  If the program is done, and there
\* were no changes, links or unreadable directories, then whatever the order of
\* the entries each node has one line, with as many steps of indentation as it
\* is deep, under the line of its directory.  If it exits, a link dangles or
\* leads into a directory that may not be entered, another program has changed
\* something, or the way back was lost; if the stack or the path of the working
\* directory fails, one of the latter two.
EndsAsFound ==
    /\ status = "done" /\ Quiet /\ Links = {} /\ unreadable = {} =>
           /\ Len(lines) = Cardinality(Node)
           /\ \A n \in Node : \E i \in DOMAIN lines :
                  /\ lines[i] = [nodes |-> {n}, ident |-> Depth[n]]
                  /\ up[n] # Root => lines[HeadingOf(i)].nodes = {up[n]}
    /\ status = "exit" /\ Quiet => \E n \in Links : target[n] \notin Reachable
    /\ status = "crash" => ~Quiet

\* The listing goes on.
Running == status = "running"
=============================================================================
