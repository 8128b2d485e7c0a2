--------------------------- MODULE WordSeparator ---------------------------
(***************************************************************************)
(* The word counter (A1): reads a file line by line into one string, cuts  *)
(* it into words at separators and counts them.                            *)
(***************************************************************************)
EXTENDS Naturals, Sequences, FiniteSets

CONSTANTS Letter, Space,  \* what words are made of, and the separators
          LineEnd,        \* the one that ends a line of the file
          MaxLength       \* bound: characters in the file

Char == Letter \cup Space \cup {LineEnd}
Text == UNION {[1 .. k -> Char] : k \in 0 .. MaxLength}
NoFile == <<"no file">>

\* What the constants are.
WordAssumption == /\ Letter \cap Space = {}
                  /\ LineEnd \notin Letter \cup Space
                  /\ MaxLength \in Nat

VARIABLES file,           \* what the file holds
          pc,
          taken,          \* characters of the file read
          content,        \* content
          index,          \* characters done
          a_word,         \* the word so far; is_new_word when there is one
          words,          \* wordsList
          count           \* wordsCount

vars == <<file, pc, taken, content, index, a_word, words, count>>

Word == UNION {[1 .. k -> Letter] : k \in 1 .. MaxLength}

TypeOK == /\ file \in Text \cup {NoFile}
          /\ pc \in {"read", "cut", "count", "done"}
          /\ taken \in 0 .. MaxLength + 1
          /\ content \in Seq(Char \ {LineEnd})
          /\ index \in 0 .. Len(content)
          /\ a_word \in Word \cup {<<>>}
          /\ words \in Seq(Word)
          /\ DOMAIN count \subseteq {words[i] : i \in DOMAIN words}
          /\ count \in [DOMAIN count -> 1 .. MaxLength]

Init == /\ file \in Text \cup {NoFile}
        /\ pc = "read"
        /\ taken = 0 /\ content = <<>> /\ index = 0 /\ a_word = <<>>
        /\ words = <<>> /\ count = <<>>

\* One getline: up to a line end, which is taken and not put anywhere, or to
\* the end of the file, which ends the loop.  A file that cannot be opened never
\* comes to its end.
getContentStr ==
    /\ pc = "read"
    /\ file # NoFile
    /\ \E end \in taken + 1 .. Len(file) + 1 :
           /\ \A i \in taken + 1 .. end - 1 : file[i] # LineEnd
           /\ end <= Len(file) => file[end] = LineEnd
           /\ content' = content \o SubSeq(file, taken + 1, end - 1)
           /\ taken' = end
           /\ pc' = IF end <= Len(file) THEN "read" ELSE "cut"
    /\ UNCHANGED <<file, index, a_word, words, count>>

\* The word is not cleared when it is taken.
NextChar_Kept ==
    /\ pc = "cut" /\ index < Len(content)
    /\ index' = index + 1
    /\ IF content[index'] \in Letter
          THEN a_word' = Append(a_word, content[index']) /\ UNCHANGED words
          ELSE /\ words' = IF a_word = <<>> THEN words ELSE Append(words, a_word)
               /\ UNCHANGED a_word
    /\ UNCHANGED <<file, pc, taken, content, count>>

\* A separator ends the word, if there is one.
NextChar ==
    /\ pc = "cut" /\ index < Len(content)
    /\ index' = index + 1
    /\ IF content[index'] \in Letter
          THEN a_word' = Append(a_word, content[index']) /\ UNCHANGED words
          ELSE /\ words' = IF a_word = <<>> THEN words ELSE Append(words, a_word)
               /\ a_word' = <<>>
    /\ UNCHANGED <<file, pc, taken, content, count>>

\* The word at the end of the content is not taken.
EndOfContent ==
    /\ pc = "cut" /\ index = Len(content)
    /\ pc' = "count"
    /\ UNCHANGED <<file, taken, content, index, a_word, words, count>>

parseAndCount ==
    /\ pc = "count"
    /\ count' = [w \in {words[i] : i \in DOMAIN words} |->
                    Cardinality({i \in DOMAIN words : words[i] = w})]
    /\ pc' = "done"
    /\ UNCHANGED <<file, taken, content, index, a_word, words>>

main == getContentStr \/ NextChar \/ EndOfContent \/ parseAndCount

Spec == Init /\ [][main]_vars

(***************************************************************************)
(* Properties.                                                             *)
(***************************************************************************)
\* Where w stands in a text as a word of its own: after its start or a
\* separator, and before its end or a separator.
Places(w, text) ==
    {i \in DOMAIN text :
        /\ i + Len(w) - 1 <= Len(text)
        /\ \A k \in DOMAIN w : text[i + k - 1] = w[k]
        /\ i > 1 => text[i - 1] \notin Letter
        /\ i + Len(w) <= Len(text) => text[i + Len(w)] \notin Letter}

Counted(w) == IF w \in DOMAIN count THEN count[w] ELSE 0

\* A line that ends in a letter is joined to the next, or to nothing.
Joined == \E i \in DOMAIN file : i > 1 /\ file[i] = LineEnd /\ file[i - 1] \in Letter

\* Where it stands clear of line ends, in front of a separator.
Clear(w) == {i \in Places(w, file) : /\ i > 1 => file[i - 1] \in Space
                                     /\ i + Len(w) \in DOMAIN file
                                     /\ file[i + Len(w)] \in Space}

\* Whatever the text, a word is counted wherever it stands between separators
\* of its line.  If no line ends in a letter the counts are exact, except that
\* the last word is left out if nothing follows it.
CountsWords ==
    pc = "done" =>
        /\ \A w \in Word : Cardinality(Clear(w)) <= Counted(w)
        /\ ~Joined =>
               \A w \in Word :
                   Cardinality(Places(w, file)) =
                       Counted(w) + (IF /\ file # <<>> /\ file[Len(file)] \in Letter
                                        /\ a_word = w
                                        THEN 1 ELSE 0)

\* A file that cannot be opened is read for ever.
Running == pc \in {"read", "cut", "count"} /\ file # NoFile
=============================================================================
