-------------------------------- MODULE MCAuth --------------------------------
(* One user: every query of the service is for one phone or one session.    *)
EXTENDS Auth, TLC

Symmetry == Permutations(Workers) \cup Permutations(Passwords)

\* A used code is never read again.
Seen(c) == IF codes[c].is_used
           THEN [codes[c] EXCEPT !.guesses = 0, !.attempts = 0, !.age = "new", !.password = None]
           ELSE [codes[c] EXCEPT !.guesses = 0]

\* Once requests have overlapped, no property and no guard looks at the histories that
\* only the promises for requests one at a time need.
View == <<accounts, resets, overlapped,
          IF overlapped
          THEN <<[w \in Workers |-> [requests[w] EXCEPT !.era = 0]],
                 [c \in DOMAIN codes |-> Seen(c)],
                 [s \in DOMAIN sessions |-> [sessions[s] EXCEPT !.era = 0]]>>
          ELSE <<requests, codes, sessions, latest>> >>
===============================================================================
