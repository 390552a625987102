------------------------------- MODULE ExecTimes -------------------------------
(***************************************************************************)
(* get_exec_times() in src/bin/rtspin.c: one pass over the file counts the *)
(* jobs, a second one reads their execution times from a column.  A text   *)
(* is a sequence of characters of five kinds; a run of "d" stands for a    *)
(* number, and the time read is represented by where in the text it is.    *)
(* Names differ from ReadMapping's, so that a module can extend both.      *)
(***************************************************************************)
EXTENDS Integers, Sequences, FiniteSets, FiniteSetsExt

CONSTANTS
    MaxLength,  \* texts have at most this many characters
    Columns     \* the arguments of -o

ASSUME BoundsTyped == MaxLength \in Nat /\ Columns \subseteq Nat \ {0}

VARIABLES
    text,      \* the file
    column,    \* the argument of -o
    state,     \* "open", "count", "read", or how the call ended
    pos, eof,  \* the stream: next character, end-of-file indicator
    num_jobs,  \* the result of the first pass
    times      \* exec_times, up to cur_job

filevars == <<text, column, state, pos, eof, num_jobs, times>>

Chars == {"d", ",", " ", "nl", "#"}
Texts == UNION {[1 .. n -> Chars] : n \in 0 .. MaxLength}

FileInit ==
    /\ text \in Texts /\ column \in Columns
    /\ state = "open" /\ pos = 1 /\ eof = FALSE
    /\ num_jobs = 0 /\ times = <<>>

-------------------------------------------------------------------------------
(* The C library: positions after Len(text) are the end of the file. *)

End == Len(text) + 1

\* The first position from i on whose character is in S.
Find(i, S) == Min({j \in i .. Len(text) : text[j] \in S} \cup {End})

Blanks == {" ", "nl"}

\* fscanf("%*s,"): white space, a word, and a comma if one follows the word.
SkipWord(i) ==
    LET word == Find(i, Chars \ Blanks)
        stop == Find(word, Blanks)
    IN  IF stop < End /\ text[stop] = "," THEN stop + 1 ELSE stop

\* fscanf("%lf"): white space and a number.
NumberAt(i)  == Find(i, Chars \ Blanks)
IsNumber(i)  == NumberAt(i) < End /\ text[NumberAt(i)] = "d"
NumberEnd(i) == Find(NumberAt(i), Chars \ {"d"})

-------------------------------------------------------------------------------
\* The start of the next line, or the end.
skip_to_next_line(i) == Min({Find(i, {"nl"}) + 1, End})

\* It met the end of the file.
AtEof(i) == Find(i, {"nl"}) = End

\* The first line from i on that does not begin with "#", or the end.
skip_comments(i) ==
    Min({q \in {i} \cup {k + 1 : k \in {j \in i .. Len(text) : text[j] = "nl"}} :
             q = End \/ text[q] # "#"} \cup {End})

\* fopen(), which may fail.
Open ==
    /\ state = "open"
    /\ state' \in {"count", "failed"}
    /\ UNCHANGED <<text, column, pos, eof, num_jobs, times>>

\* Mutant: comments count as jobs.
CountComments ==
    /\ state = "count" /\ ~AtEof(pos)
    /\ num_jobs' = num_jobs + 1
    /\ pos' = skip_to_next_line(pos)
    /\ UNCHANGED <<text, column, state, eof, times>>

\* A turn of the first loop that finds the end of a line.
CountJob ==
    /\ state = "count"
    /\ LET line == skip_comments(pos)
       IN  ~AtEof(line) /\ pos' = skip_to_next_line(line)
    /\ num_jobs' = num_jobs + 1
    /\ UNCHANGED <<text, column, state, eof, times>>

\* The turn that finds the end of the file; fseek() and calloc(), which may fail.
Rewind ==
    /\ state = "count" /\ AtEof(skip_comments(pos))
    /\ state' \in {"read", "failed"}
    /\ pos' = 1 /\ eof' = FALSE
    /\ UNCHANGED <<text, column, num_jobs, times>>

\* Where the wanted column is looked for.
ColumnAt ==
    LET skipped[n \in 1 .. column] ==
            IF n = 1 THEN skip_comments(pos) ELSE SkipWord(skipped[n - 1])
    IN  skipped[column]

Reading == state = "read" /\ Len(times) < num_jobs /\ ~eof

\* Mutant: the rest of the line is not skipped.
ReadTimeOnly ==
    /\ Reading /\ IsNumber(ColumnAt)
    /\ times' = Append(times, NumberAt(ColumnAt))
    /\ pos' = NumberEnd(ColumnAt)
    /\ eof' = (NumberEnd(ColumnAt) = End)
    /\ UNCHANGED <<text, column, state, num_jobs>>

\* A turn of the second loop.
ReadTime ==
    /\ Reading /\ IsNumber(ColumnAt)
    /\ times' = Append(times, NumberAt(ColumnAt))
    /\ pos' = skip_to_next_line(NumberEnd(ColumnAt))
    /\ eof' = AtEof(NumberEnd(ColumnAt))
    /\ UNCHANGED <<text, column, state, num_jobs>>

\* "invalid execution time", exit.
InvalidTime ==
    /\ Reading /\ ~IsNumber(ColumnAt)
    /\ state' = "invalid"
    /\ UNCHANGED <<text, column, pos, eof, num_jobs, times>>

\* assert(cur_job == *num_jobs), and the return.
CheckCount ==
    /\ state = "read" /\ ~Reading
    /\ state' = IF Len(times) = num_jobs THEN "returned" ELSE "aborted"
    /\ UNCHANGED <<text, column, pos, eof, num_jobs, times>>

FileNext == Open \/ CountJob \/ Rewind \/ ReadTime \/ InvalidTime \/ CheckCount

FileSpec == FileInit /\ [][FileNext]_filevars

-------------------------------------------------------------------------------
(* Files and their records, defined without the code *)

Starts == {1} \cup {k + 1 : k \in {j \in DOMAIN text : text[j] = "nl"}}

\* The lines that hold records: complete, and not comments.
Records == {s \in Starts : s < End /\ text[s] # "#" /\ Find(s, {"nl"}) < End}

\* How many elements of S precede x.
Rank(x, S) == Cardinality({y \in S : y < x})

\* Where fields begin in the line at s, for a set of separators.
Fields(s, Separators) ==
    {j \in s .. Find(s, {"nl"}) - 1 :
         text[j] \notin Separators /\ (j = s \/ text[j - 1] \in Separators)}

\* Field n of the line at s begins at j.
IsField(j, s, n, Separators) ==
    j \in Fields(s, Separators) /\ Rank(j, Fields(s, Separators)) = n - 1

Complete == text = <<>> \/ text[Len(text)] = "nl"

\* Every record has a number in the wanted column.
WellFormed(Separators) ==
    /\ Complete
    /\ \A s \in Records : \E j \in DOMAIN text :
           IsField(j, s, column, Separators) /\ text[j] = "d"

\* Comments cannot be taken for records: the wanted column is the first, there
\* are none, or no line is short.
CommentsApart ==
    column = 1 \/ (\A i \in DOMAIN text : text[i] # "#") \/ WellFormed({" "})

\* When get_exec_times() returns from a file of complete lines, and comments are
\* kept apart, the time of job i is field -o of record i, columns being words
\* separated by blanks: the passes agree on what a record is, and if a short or
\* an empty line makes the second one run on into other lines, it does not
\* return.  (Other files it may misread: ColumnsRead.)
RecordsRead ==
    state = "returned" /\ Complete /\ CommentsApart
        => /\ Len(times) = Cardinality(Records)
           /\ \A i \in DOMAIN times : \E s \in Records :
                  Rank(s, Records) = i - 1 /\ IsField(times[i], s, column, {" "})

\* A file with a number in the wanted column of every record, columns being
\* words separated by blanks, is read to its end, comments and all: it meets
\* neither the error exit nor the assertion of get_exec_times().
GoodFilesAccepted == WellFormed({" "}) => state \notin {"invalid", "aborted"}

\* "use times read from the CSV file", "discard input until we get to the column
\* we want": if get_exec_times() returns from a file of complete lines, the time
\* of job i comes from the line of record i, and a file with a number in every
\* record's wanted column, columns separated by commas or blanks, is accepted.
ColumnsRead ==
    /\ state = "returned" /\ Complete =>
           \A i \in DOMAIN times : \E s \in Records :
               Rank(s, Records) = i - 1 /\ times[i] \in s .. Find(s, {"nl"})
    /\ WellFormed({",", " "}) => state \notin {"invalid", "aborted"}
===============================================================================
