-------------------------------- MODULE Globs --------------------------------
(***************************************************************************)
(* wildcard_match of src/src/app/transfer_ops.rs: the patterns of the      *)
(* sync filters and of Find.                                               *)
(*                                                                         *)
(* Data abstraction: a text is a sequence of characters that are the same  *)
(* in either case, a pattern the sequence of segments between its "**".    *)
(***************************************************************************)
EXTENDS Integers, Sequences, FiniteSets, FiniteSetsExt, SequencesExt

Wild    == {"*", "?"}
Rest(text, n) == SubSeq(text, n + 1, Len(text))

\* How many slashes the text begins with.
Slashes(text) == Cardinality({n \in 1..Len(text) : \A i \in 1..n : text[i] = "/"})

TrimStart(text)   == Rest(text, Slashes(text))
TrimSlashes(text) == Reverse(TrimStart(Reverse(TrimStart(text))))

\* What a star or a question mark takes of a text, when it takes slashes or not.
Takes(slash, c) == slash \/ c # "/"

\* The indices of wildcard_match_segment: those of a star are never after the others.
Scans(pat, txt) ==
  {s \in [pi: 0..Len(pat), ti: 0..Len(txt), star: 0..Len(pat), from: 0..Len(txt)] :
     s.star <= s.pi /\ s.from <= s.ti}

\* Mutant: a star never takes one character more.
SegmentMatchesGreedy(pat, txt, slash) ==
  LET loop[pi \in 0..Len(pat), ti \in 0..Len(txt)] ==
        IF ti = Len(txt) THEN \A i \in (pi + 1)..Len(pat) : pat[i] = "*"
        ELSE /\ pi < Len(pat)
             /\ IF pat[pi + 1] = "*" THEN loop[pi + 1, ti]
                ELSE /\ pat[pi + 1] \in {"?", txt[ti + 1]}
                     /\ pat[pi + 1] = "?" => slash \/ txt[ti + 1] # "/"
                     /\ loop[pi + 1, ti + 1]
  IN  loop[0, 0]

\* wildcard_match_segment: pi and ti are what is matched of pattern and text, star and
\* from those of the last star passed.  A mismatch gives that star one character more.
SegmentMatches(pat, txt, slash) ==
  LET loop[s \in Scans(pat, txt)] ==
        IF s.ti = Len(txt) THEN \A i \in (s.pi + 1)..Len(pat) : pat[i] = "*"
        ELSE IF /\ s.pi < Len(pat)
                /\ \/ pat[s.pi + 1] = "?" /\ Takes(slash, txt[s.ti + 1])
                   \/ pat[s.pi + 1] \notin Wild /\ pat[s.pi + 1] = txt[s.ti + 1]
          THEN loop[[pi |-> s.pi + 1, ti |-> s.ti + 1, star |-> s.star, from |-> s.from]]
        ELSE IF s.pi < Len(pat) /\ pat[s.pi + 1] = "*"
          THEN loop[[pi |-> s.pi + 1, ti |-> s.ti, star |-> s.pi + 1, from |-> s.ti]]
        ELSE /\ s.star > 0
             /\ Takes(slash, txt[s.from + 1])
             /\ loop[[pi |-> s.star, ti |-> s.from + 1, star |-> s.star, from |-> s.from + 1]]
  IN  loop[[pi |-> 0, ti |-> 0, star |-> 0, from |-> 0]]

\* find_segment_match takes the least of these: the lengths the segment matches.
SegmentLengths(seg, text) ==
  {n \in 0..Len(text) : SegmentMatches(seg, SubSeq(text, 1, n), FALSE)}

\* The segments of a pattern with "**", from the i-th on, against what remains.  The
\* first is matched at the start, another at the first path boundary where it matches.
SegmentsMatch(segments, text) ==
  LET next[i \in 1..(Len(segments) + 1), at \in 0..Len(text)] ==
        IF i > Len(segments)
          THEN Last(segments) = <<>> \/ \A n \in (at + 1)..Len(text) : text[n] = "/"
        ELSE
          LET seg    == TrimSlashes(segments[i])
              starts == {s \in (IF i = 1 THEN {at}
                                ELSE {at} \union {n \in (at + 1)..Len(text) : text[n] = "/"}) :
                           SegmentLengths(seg, Rest(text, s)) # {}}
              first  == Min(starts)
              end    == first + Min(SegmentLengths(seg, Rest(text, first)))
          IN  IF seg = <<>> THEN next[i + 1, at]
              ELSE /\ starts # {}
                   /\ next[i + 1, end + Slashes(Rest(text, end))]
  IN  next[1, 0]

WildcardMatch(pattern, text) ==
  IF Len(pattern) > 1 THEN SegmentsMatch(pattern, text)
  ELSE LET pat == pattern[1]
       IN  IF \A i \in DOMAIN pat : pat[i] \notin Wild
             THEN \E n \in 0..Len(text) : IsPrefix(pat, Rest(text, n))
             ELSE SegmentMatches(pat, text, TRUE)

-----------------------------------------------------------------------------
(* What a pattern means *)

\* A segment matches a text character by character, a star any run of them: what follows
\* the first p characters of the segment matches what follows the first t of the text, for
\* the t of after[p].
Means(pat, txt, slash) ==
  LET after[p \in 0..Len(pat)] ==
        IF p = Len(pat) THEN {Len(txt)}
        ELSE LET rest == after[p + 1]
             IN  IF pat[p + 1] = "*"
                   THEN {t \in 0..Len(txt) :
                           \E u \in rest : t <= u /\ \A i \in (t + 1)..u : Takes(slash, txt[i])}
                 ELSE {t \in 0..(Len(txt) - 1) :
                         /\ t + 1 \in rest
                         /\ pat[p + 1] = txt[t + 1] \/ (pat[p + 1] = "?" /\ Takes(slash, txt[t + 1]))}
  IN  0 \in after[0]

\* "**" stands for any run of characters, slashes included, that begins and ends where a
\* component of the path does.
SegmentsMean(segments, text) ==
  LET Boundary(n) == n \in {0, Len(text)} \/ text[n] = "/" \/ text[n + 1] = "/"
      m[i \in 1..Len(segments), at \in 0..Len(text)] ==
        LET seg == TrimSlashes(segments[i])
        IN  \E end \in at..Len(text) :
              /\ Means(seg, TrimSlashes(SubSeq(text, at + 1, end)), FALSE)
              /\ IF i = Len(segments) THEN end = Len(text)
                 ELSE /\ Boundary(end)
                      /\ \E next \in end..Len(text) : Boundary(next) /\ m[i + 1, next]
  IN  m[1, 0]

\* A pattern without wildcards stands for itself anywhere.  Without "**", a star and a question
\* mark take slashes as well, which the comment of wildcard_match does not say.
GlobMeans(pattern, text) ==
  IF Len(pattern) > 1 THEN SegmentsMean(pattern, text)
  ELSE IF ToSet(pattern[1]) \intersect Wild # {} THEN Means(pattern[1], text, TRUE)
  ELSE Means(<<"*">> \o pattern[1] \o <<"*">>, text, TRUE)
=============================================================================
