----------------------------- MODULE Selection -----------------------------
(***************************************************************************)
(* Which files a pattern, a run and a build select                         *)
(* (internal/project/glob.go and discover.go, configuredBuildFiles in      *)
(* internal/cli/files.go).                                                 *)
(*                                                                         *)
(* A path or a pattern is a sequence of segments, a segment a sequence of  *)
(* characters: that is what is matched.                                    *)
(***************************************************************************)
EXTENDS Naturals, Sequences, FiniteSets

IsSeq(s) == Len(s) \in Nat /\ DOMAIN s = 1 .. Len(s)
IsPattern(p) == IsSeq(p) /\ p # <<>> /\ \A i \in DOMAIN p : IsSeq(p[i])
ArePatterns(ps) == IsSeq(ps) /\ \A k \in DOMAIN ps : IsPattern(ps[k])

\* Without a star of its own: wildcardMatch compares a star of a pattern with the text
\* before it takes it for one, so "*b" does not match "*ab".
IsPlain(s) == \A k \in DOMAIN s : s[k] # "*"
IsPlainPath(path) == IsSeq(path) /\ \A k \in DOMAIN path : IsSeq(path[k]) /\ IsPlain(path[k])

\* wildcardMatch goes back to the last star only, and by one character each time.
\* A state of its loop: the next character of the pattern, of the text, the last star
\* (0: none) and the character after those it took.  What lies between has matched.
WildStates(p, s) ==
    {c \in (1 .. Len(p) + 1) \X (1 .. Len(s) + 1) \X (0 .. Len(p)) \X (1 .. Len(s) + 1) :
        /\ c[3] < c[1] /\ c[2] + c[3] + 1 = c[4] + c[1]
        /\ \A k \in c[3] + 1 .. c[1] - 1 : p[k] \in {s[c[4] + k - c[3] - 1], "?"}}

Wild(p, s) ==
    LET wild[c \in WildStates(p, s)] ==
            LET pi == c[1]
                si == c[2]
                star == c[3]
                taken == c[4]
            IN  IF si > Len(s) THEN \A k \in pi .. Len(p) : p[k] = "*"
                ELSE IF pi <= Len(p) /\ p[pi] \in {s[si], "?"}
                THEN wild[<<pi + 1, si + 1, star, taken>>]
                ELSE IF pi <= Len(p) /\ p[pi] = "*" THEN wild[<<pi + 1, si, pi, si>>]
                ELSE star # 0 /\ wild[<<star + 1, taken + 1, star, taken + 1>>]
    IN  wild[<<1, 1, 0, 1>>]

\* A star is not matched before the text is tried (a plausible bug).
MatchSeg_NoBack(p, s) ==
    p = <<"*">> \/ (Len(p) = Len(s) /\ \A k \in DOMAIN p : p[k] \in {s[k], "?", "*"})

MatchSeg(p, s) == p = <<"*">> \/ Wild(p, s)

\* matchSegments: the table of which rest of the pattern matches which rest of the path.
MatchSegments(pat, path) ==
    LET n == Len(pat)
        m == Len(path)
        dp[c \in (1 .. n + 1) \X (1 .. m + 1)] ==
            LET i == c[1]
                j == c[2]
            IN  IF i = n + 1 THEN j = m + 1
                ELSE IF pat[i] = <<"*", "*">> THEN dp[<<i + 1, j>>] \/ (j <= m /\ dp[<<i, j + 1>>])
                ELSE j <= m /\ MatchSeg(pat[i], path[j]) /\ dp[<<i + 1, j + 1>>]
    IN  dp[<<1, 1>>]

MatchGlob(pattern, path) == pattern # <<>> /\ MatchSegments(pattern, path)

MatchesAny(patterns, path) == \E k \in DOMAIN patterns : MatchGlob(patterns[k], path)

Base(path) == <<path[Len(path)]>>
IsExcluded(excludes, path) ==
    \E k \in DOMAIN excludes : MatchGlob(excludes[k], path) \/ MatchGlob(excludes[k], Base(path))

\* Discover: a root that is a file of the language is taken, excluded or not; of a
\* directory, what lies below it and is not excluded.  None of the patterns of
\* "include" is looked at, for a run always has roots.  A missing root fails.
Below(root, path) == Len(root) < Len(path) /\ SubSeq(path, 1, Len(root)) = root
Discover(roots, excludes, tree, pawn) ==
    UNION {IF root \in tree THEN {root} \cap pawn
           ELSE {path \in tree \cap pawn : Below(root, path) /\ ~IsExcluded(excludes, path)} :
           root \in roots}

\* configuredBuildFiles: the entry always, else what the patterns of the build take.
BuildFiles(files, entry, patterns, excludes) ==
    {path \in files : \/ path = entry
                      \/ MatchesAny(patterns, path) /\ ~MatchesAny(excludes, path)}

-----------------------------------------------------------------------------
(* What a pattern means: its parts can be laid on the text one after the     *)
(* other.  "*" lies on any characters of a segment, "?" on one of them, the  *)
(* segment "**" on any segments.                                             *)

\* Where the parts of a pattern begin on a text, the last one ending where it ends.
Layouts(p, s) ==
    {at \in [1 .. Len(p) + 1 -> 1 .. Len(s) + 1] : at[1] = 1 /\ at[Len(p) + 1] = Len(s) + 1}

MeansSeg(p, s) ==
    \E at \in Layouts(p, s) : \A i \in DOMAIN p :
        IF p[i] = "*" THEN at[i] <= at[i + 1]
        ELSE at[i + 1] = at[i] + 1 /\ p[i] \in {"?", s[at[i]]}

MeansPath(pat, path) ==
    \E at \in Layouts(pat, path) : \A i \in DOMAIN pat :
        IF pat[i] = <<"*", "*">> THEN at[i] <= at[i + 1]
        ELSE at[i + 1] = at[i] + 1 /\ MeansSeg(pat[i], path[at[i]])
=============================================================================
