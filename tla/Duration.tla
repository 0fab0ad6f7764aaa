------------------------------- MODULE Duration -------------------------------
(***************************************************************************)
(* Lifetimes as text (duration/duration.go): what users, administrators    *)
(* and the configuration write is read by Parse; what the client sends to  *)
(* frps is written by Format, and frps reads it back.                      *)
(***************************************************************************)
EXTENDS Integers, Sequences

CONSTANTS
    Units,   \* sizes of the units, in ticks of the model's clock
    Width    \* a time.Duration holds -Width .. Width - 1 (2^63 ns)

ASSUME UnitsAssumption == Units \subseteq Nat \ {0} /\ Width \in Nat \ {0}

\* Addition of time.Durations.
Wrap(d) == ((d + Width) % (2 * Width)) - Width

\* time.Duration(num * float64(unit)) for <<num, unit>>. Go leaves open what
\* the conversion of a float64 that does not fit yields: the least value on
\* amd64, the greatest on arm64.
Segment(s) ==
    IF s[1] * s[2] < Width THEN {s[1] * s[2]} ELSE {-Width, Width - 1}

\* Parse of the well-formed text with these segments: the values it may
\* return; none, an error, for the empty text.
Parse(text) ==
    LET total[i \in 0..Len(text)] ==
            IF i = 0 THEN {0}
            ELSE {Wrap(d + e) : d \in total[i - 1], e \in Segment(text[i])}
    IN  IF text = <<>> THEN {} ELSE total[Len(text)]

\* The most significant non-zero unit of d with its count, as a length.
Leading(d) ==
    LET fitting == {s \in Units : s <= d}
    IN  IF fitting = {} THEN 0
        ELSE LET u == CHOOSE s \in fitting : \A r \in fitting : r <= s
             IN  d - (d % u)

\* What frps understands of d: "3d2h59m" is sent as "3d2h"; less than the
\* smallest unit is sent as "0s".
Format(d) == IF d <= 0 THEN 0 ELSE Leading(d) + Leading(d - Leading(d))

=============================================================================
