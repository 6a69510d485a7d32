------------------------------- MODULE CString -------------------------------
(***************************************************************************)
(* The string library (private_libary/cstring_extern_lib): cstring_trim    *)
(* and c_splite as the walks over positions they are, str2upper and        *)
(* str2lower, on one string that a program trims, converts and splits into *)
(* the rows of an array.  What a call returns, or main() prints of it, is  *)
(* a sequence of strings, empty for NULL.                                  *)
(***************************************************************************)
EXTENDS Integers, Sequences, FiniteSets

CONSTANTS Letter,  \* the letters of the lower case
          Upper,   \* each letter's upper case
          MaxStr,  \* bound: characters of the string
          MaxTok,  \* characters of a row of the array (32)
          MaxElem  \* rows of the array, as c_splite is told (100)

Space   == " "
Newline == "\n"
Uppers  == {Upper[c] : c \in Letter}
Chars   == Letter \cup Uppers \cup {Space, Newline}
NUL     == "NUL"   \* the character that ends a string
Junk    == "junk"  \* what an array that nobody set contains

ASSUME StringAssumption == /\ DOMAIN Upper = Letter /\ MaxStr \in Nat /\ MaxTok \in Nat \ {0}
                           /\ MaxElem \in Nat /\ {NUL, Junk} \cap Chars = {}
                           /\ \A c, d \in Letter : Upper[c] = Upper[d] => c = d
                           /\ Cardinality(Chars) = 2 * Cardinality(Letter) + 2

(* The array's rows, and the memory behind it in rows as well: as many as  *)
(* a string of MaxStr characters can reach.                                *)
Rows == 0..MaxElem+MaxStr-1

VARIABLES text, memory, result

stringVars == <<text, memory, result>>

(* The first position from i on where s has no blank, and has one.         *)
SkipBlanks(s, i) ==
  LET skip[j \in 1..Len(s)+1] == IF j <= Len(s) /\ s[j] = Space THEN skip[j+1] ELSE j
  IN  skip[i]
SkipToken(s, i) ==
  LET skip[j \in 1..Len(s)+1] == IF j <= Len(s) /\ s[j] # Space THEN skip[j+1] ELSE j
  IN  skip[i]

\* (bug) a line's end is not trimmed
LastCharBlank(s, start) ==
  LET back[j \in start-1..Len(s)] == IF j >= start /\ s[j] = Space THEN back[j-1] ELSE j
  IN  back[Len(s)]

(* The last position down to start with neither a blank nor a line's end.  *)
LastChar(s, start) ==
  LET back[j \in start-1..Len(s)] ==
        IF j >= start /\ s[j] \in {Space, Newline} THEN back[j-1] ELSE j
  IN  back[Len(s)]

Trim(s) == LET start == SkipBlanks(s, 1)
           IN  IF start > Len(s) \/ LastChar(s, start) < start THEN <<>>
               ELSE <<SubSeq(s, start, LastChar(s, start))>>

(* strtok() for the blank: skip blanks, take a token, go on behind it.     *)
Tokens(s) ==
  LET from[i \in 1..Len(s)+1] ==
        LET start == SkipBlanks(s, i)
            end   == SkipToken(s, start)
        IN  IF start > Len(s) THEN <<>> ELSE <<SubSeq(s, start, end - 1)>> \o from[end]
  IN  from[1]

\* (bug) only the first row is cleared
ClearedFirst(m) == [r \in Rows |-> IF r < MaxElem /\ r = 0
                                     THEN [k \in 1..MaxTok |-> NUL] ELSE m[r]]

(* The array's rows are cleared, the memory behind them is not.            *)
Cleared(m) == [r \in Rows |-> IF r < MaxElem THEN [k \in 1..MaxTok |-> NUL] ELSE m[r]]

(* Token j goes to row j, with no look at the number of rows, as far as    *)
(* the row holds it, and nothing is written behind it.                     *)
Filled(m, tokens) ==
  [r \in Rows |-> [k \in 1..MaxTok |->
     IF r < Len(tokens) /\ k <= Len(tokens[r+1]) THEN tokens[r+1][k] ELSE m[r][k]]]

(* What printf("%s") finds at row r: characters up to the next NUL, on     *)
(* into the rows that follow (to the end of the memory modelled).          *)
ReadString(m, r) ==
  LET At(c) == m[r + (c \div MaxTok)][(c % MaxTok) + 1]
      cells == (MaxElem + MaxStr - r) * MaxTok
      len   == CHOOSE c \in 0..cells : /\ c = cells \/ At(c) = NUL
                                       /\ \A k \in 0..c-1 : At(k) # NUL
  IN  [k \in 1..len |-> At(k - 1)]

Strings == UNION {[1..k -> Chars] : k \in 0..MaxStr}

StringInit(run) == /\ text \in (IF run THEN Strings ELSE {<<>>})
                   /\ result = <<>>
                   /\ \E c \in {Junk, NUL} : /\ ~run => c = NUL
                                             /\ memory = [r \in Rows |-> [k \in 1..MaxTok |-> c]]

cstring_trim == result' = Trim(text) /\ UNCHANGED <<text, memory>>

(* strtok() ends the first token in place: the text behind it is lost.     *)
(* The caller prints as many rows as it is told there are elements.        *)
c_splite == /\ memory' = IF text = <<>> THEN memory ELSE Filled(Cleared(memory), Tokens(text))
            /\ result' = [j \in 1..Len(Tokens(text)) |-> ReadString(memory', j - 1)]
            /\ text' = SubSeq(text, 1, SkipToken(text, SkipBlanks(text, 1)) - 1)

(* NULL for the empty string. *)
str2upper == /\ text' = [i \in DOMAIN text |->
                           IF text[i] \in Letter THEN Upper[text[i]] ELSE text[i]]
             /\ result' = IF text = <<>> THEN <<>> ELSE <<text'>>
             /\ UNCHANGED memory

str2lower == /\ text' = [i \in DOMAIN text |->
                           IF text[i] \in Uppers
                             THEN CHOOSE c \in Letter : Upper[c] = text[i] ELSE text[i]]
             /\ result' = <<text'>>
             /\ UNCHANGED memory

StringNext == cstring_trim \/ c_splite \/ str2upper \/ str2lower

-----------------------------------------------------------------------------
(* cstring_trim returns what is between the blanks at the front and the    *)
(* blanks and line's ends at the back, or NULL if there is nothing.        *)
TrimExact ==
  [][cstring_trim =>
       IF \E t \in DOMAIN text :
            text[t] # Space /\ \E u \in t..Len(text) : text[u] \notin {Space, Newline}
       THEN \E i, j \in DOMAIN text :
              /\ result' = <<SubSeq(text, i, j)>>
              /\ i <= j /\ text[i] # Space /\ text[j] \notin {Space, Newline}
              /\ \A k \in 1..i-1 : text[k] = Space
              /\ \A k \in j+1..Len(text) : text[k] \in {Space, Newline}
       ELSE result' = <<>>]_stringVars

(* c_splite counts every run of characters without a blank and puts it, in *)
(* order, into a row: its first MaxTok characters, with NULs behind them   *)
(* when the row belongs to the array, and with what was there before when  *)
(* it does not.  A token shorter than its row is read back as it is; the   *)
(* array's other rows are empty, and the memory behind is as before.       *)
SplitExact ==
  [][c_splite =>
       LET starts  == {i \in DOMAIN text : text[i] # Space /\ (i = 1 \/ text[i-1] = Space)}
           Old(r, k) == IF text # <<>> /\ r < MaxElem THEN NUL ELSE memory[r][k]
       IN  /\ Len(result') = Cardinality(starts)
           /\ \A i \in starts : \E e \in i+1..Len(text)+1 :
                LET j == Cardinality({k \in starts : k <= i})
                IN  /\ \A k \in i..e-1 : text[k] # Space
                    /\ e <= Len(text) => text[e] = Space
                    /\ \A k \in 1..MaxTok :
                         memory'[j-1][k] = IF i + k <= e THEN text[i+k-1] ELSE Old(j - 1, k)
                    /\ e - i < MaxTok /\ j <= MaxElem => result'[j] = SubSeq(text, i, e - 1)
           /\ \A r \in Rows, k \in 1..MaxTok :
                r >= Cardinality(starts) => memory'[r][k] = Old(r, k)]_stringVars
==============================================================================
