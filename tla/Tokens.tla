------------------------------- MODULE Tokens -------------------------------
(***************************************************************************)
(* Reading tags.  The log phase reads them from the headers of a response, *)
(* the bootstrap scan from the first part of a cache file, and a PURGE     *)
(* request from its own headers.  All three hand the value of each line    *)
(* that has a wanted name to extract_tokens, which splits it and adds what *)
(* is new to one array of tags.                                            *)
(***************************************************************************)
EXTENDS Naturals, Sequences, FiniteSets

CONSTANTS Letters,    \* characters of tags
          Sep,        \* a comma or ASCII whitespace
          Fold,       \* [Letters -> Letters], a letter in lower case
          Sources,    \* what is read: sequences of lines
          MaxTokens   \* NGX_HTTP_CACHE_TAG_MAX_TOKENS_PER_SCAN

ASSUME LettersAssumption == Sep \notin Letters /\ Fold \in [Letters -> Letters]
ASSUME SourcesAssumption ==
    Sources \subseteq Seq([wanted : BOOLEAN, header : BOOLEAN, value : Seq(Letters \cup {Sep})])
ASSUME MaxTokensAssumption == MaxTokens \in Nat \ {0}

VARIABLES reader,  \* "response", "scan" or "request"
          lines,   \* lines: is the name wanted, is it a header, the value
          line,    \* the line being read
          i,       \* the position in its value
          tags,    \* the array of tags
          warned,  \* has the limit been reported?
          rc       \* "reading", or the result

vars == <<reader, lines, line, i, tags, warned, rc>>

Init ==
    /\ reader \in {"response", "scan", "request"}
    /\ lines \in Sources
    /\ line = 1 /\ i = 1
    /\ tags = <<>>
    /\ warned = FALSE
    /\ rc = "reading"

Value == lines[line].value

(* Mutant: the scan does not look at the name of a line. *)
ReadsAnyName(l) == reader = "scan" \/ (l.wanted /\ l.header)

(* The headers of a response or of a request, by name; or every line of the  *)
(* file that starts like such a header, wherever in the file it is.          *)
Reads(l) == l.wanted /\ (reader = "scan" \/ l.header)

Reading ==
    /\ rc = "reading" /\ line <= Len(lines) /\ Reads(lines[line])
    /\ i <= Len(Value)

(* Are two tags the same but for the case of their letters? *)
SameTag(a, b) == Len(a) = Len(b) /\ \A n \in 1..Len(a) : Fold[a[n]] = Fold[b[n]]

(* Mutant: tags of one length are taken for equal. *)
PushUniqueByLength(tag) ==
    IF \E n \in 1..Len(tags) : Len(tags[n]) = Len(tag) THEN tags ELSE Append(tags, tag)

PushUnique(tag) ==
    IF \E n \in 1..Len(tags) : SameTag(tags[n], tag) THEN tags ELSE Append(tags, tag)

(* extract_tokens: pass a separator ... *)
Skip ==
    /\ Reading /\ Value[i] = Sep
    /\ i' = i + 1
    /\ UNCHANGED <<reader, lines, line, tags, warned, rc>>

(* The first position at or after n that ends a token. *)
TokenEnd(n) ==
    CHOOSE e \in n..(Len(Value) + 1) :
        /\ e = Len(Value) + 1 \/ Value[e] = Sep
        /\ \A o \in n..(e - 1) : Value[o] # Sep

(* Mutant: the limit is checked one token too late. *)
TakeOneMore ==
    /\ Reading /\ Value[i] # Sep
    /\ IF Len(tags) > MaxTokens
       THEN warned' = TRUE /\ i' = Len(Value) + 1 /\ UNCHANGED tags
       ELSE /\ tags' = PushUnique(SubSeq(Value, i, TokenEnd(i) - 1))
            /\ i' = TokenEnd(i)
            /\ UNCHANGED warned
    /\ UNCHANGED <<reader, lines, line, rc>>

(* ... take a token; at the limit, warn and leave the rest of the value.     *)
Take ==
    /\ Reading /\ Value[i] # Sep
    /\ IF Len(tags) >= MaxTokens
       THEN warned' = TRUE /\ i' = Len(Value) + 1 /\ UNCHANGED tags
       ELSE /\ tags' = PushUnique(SubSeq(Value, i, TokenEnd(i) - 1))
            /\ i' = TokenEnd(i)
            /\ UNCHANGED warned
    /\ UNCHANGED <<reader, lines, line, rc>>

(* The next line, when this one has been read or is not of interest. *)
NextLine ==
    /\ rc = "reading" /\ line <= Len(lines) /\ ~Reading
    /\ line' = line + 1
    /\ i' = 1
    /\ UNCHANGED <<reader, lines, tags, warned, rc>>

(* An array or a token cannot be allocated: the reader gives up. *)
NoMemory ==
    /\ rc = "reading"
    /\ rc' = "ERROR"
    /\ UNCHANGED <<reader, lines, line, i, tags, warned>>

(* Mutant: a request declines unless every one of its lines was wanted. *)
DoneDeclines ==
    /\ rc = "reading" /\ line > Len(lines)
    /\ rc' = IF reader = "request" /\ Len(tags) < Len(lines) THEN "DECLINED" ELSE "OK"
    /\ UNCHANGED <<reader, lines, line, i, tags, warned>>

(* A request without tags declines: it becomes a purge by key. *)
Done ==
    /\ rc = "reading" /\ line > Len(lines)
    /\ rc' = IF reader = "request" /\ tags = <<>> THEN "DECLINED" ELSE "OK"
    /\ UNCHANGED <<reader, lines, line, i, tags, warned>>

Next == Skip \/ Take \/ NextLine \/ NoMemory \/ Done

Spec == Init /\ [][Next]_vars

-----------------------------------------------------------------------------
(* Properties. *)

(* The reader's position, tags and result keep their shape. *)
TypeOK ==
    /\ lines \in Sources
    /\ line \in 1..(Len(lines) + 1)
    /\ i \in 1..(1 + IF line <= Len(lines) THEN Len(Value) ELSE 0)
    /\ tags \in Seq(Seq(Letters)) /\ Len(tags) <= MaxTokens
    /\ warned \in BOOLEAN
    /\ rc \in {"reading", "OK", "DECLINED", "ERROR"}

(* The tokens of a value, by definition: its longest runs of letters. *)
TokensOf(v) ==
    {SubSeq(v, p[1], p[2]) :
        p \in {q \in (1..Len(v)) \X (1..Len(v)) :
                 /\ q[1] <= q[2]
                 /\ \A n \in q[1]..q[2] : v[n] # Sep
                 /\ q[1] = 1 \/ v[q[1] - 1] = Sep
                 /\ q[2] = Len(v) \/ v[q[2] + 1] = Sep}}

AllTokens(L) == UNION {TokensOf(lines[n].value) : n \in L}
Stored == {tags[n] : n \in 1..Len(tags)}
LinesThat(P(_)) == {n \in 1..Len(lines) : P(lines[n])}

HasHeader(l) == l.wanted /\ l.header

(* What extract_tokens and push_unique leave in the array over all lines is  *)
(* what the definition of a token says: only tokens, none of them twice, and *)
(* each of them up to case, unless the limit has been reached and reported.  *)
ReadsTheTokens ==
    rc \in {"OK", "DECLINED"} =>
        LET all == AllTokens(LinesThat(Reads)) IN
        /\ Stored \subseteq all
        /\ \A m, n \in 1..Len(tags) : SameTag(tags[m], tags[n]) => m = n
        /\ \/ \A a \in all : \E b \in Stored : SameTag(a, b)
           \/ warned /\ Len(tags) = MaxTokens

(* A PURGE request becomes a purge by key exactly when its tag headers have  *)
(* no token: request_headers declines for nothing else.                      *)
FallsBackOnlyWithoutTags ==
    rc \in {"OK", "DECLINED"} /\ reader = "request" =>
        (rc = "DECLINED" <=> AllTokens(LinesThat(HasHeader)) = {})

(* A file can be purged by each tag that its response carries: the index     *)
(* compares tags byte by byte, so the tag has to be stored as it was sent.   *)
PurgeableByEachTag ==
    rc = "OK" /\ reader \in {"response", "scan"} /\ ~warned =>
        AllTokens(LinesThat(HasHeader)) \subseteq Stored

(* The scan records what the headers of the cached response carry. *)
ScanReadsHeaders ==
    rc = "OK" /\ reader = "scan" => Stored \subseteq AllTokens(LinesThat(HasHeader))

(* The file has wanted names in its headers only, and each tag in one spelling. *)
PlainTags ==
    /\ \A n \in 1..Len(lines) : lines[n].wanted => lines[n].header
    /\ \A a, b \in AllTokens(LinesThat(HasHeader)) : SameTag(a, b) => a = b

(* Nothing else parts the two: where tags are plain, what the scan stores is *)
(* what the log phase stores, the tags of the headers as they were sent, up  *)
(* to the limit, which is reported.                                          *)
PlainTagsAreStored ==
    rc = "OK" /\ reader \in {"response", "scan"} /\ PlainTags =>
        /\ Stored \subseteq AllTokens(LinesThat(HasHeader))
        /\ warned \/ AllTokens(LinesThat(HasHeader)) \subseteq Stored

=============================================================================
