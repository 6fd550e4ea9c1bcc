----------------------------- MODULE MCRespond ------------------------------
(***************************************************************************)
(* Requests for model checking Respond: every combination of the facts     *)
(* that interact, around a plain GET of a file that is there.              *)
(***************************************************************************)
EXTENDS RespondProps

Plain == [word |-> "GET", http11 |-> TRUE, keep |-> TRUE, te |-> "absent", length |-> "fine",
          ctype |-> TRUE, uri |-> "fine", is_file |-> TRUE, allowed |-> TRUE,
          redirect |-> FALSE, target |-> "readable", script |-> FALSE,
          index |-> "missing", dir |-> FALSE,
          server_listing |-> FALSE, location_listing |-> "none",
          page |-> "none", page404 |-> "none", dir_page |-> "none", tree |-> {}]

Entry(path, kind, can) == [path |-> path, kind |-> kind, can |-> can]
All == {"open", "remove"}

\* Requests for a file.
ForFile ==
    {[Plain EXCEPT !.word = w, !.keep = k, !.te = t, !.target = x, !.script = s,
                   !.page = p, !.page404 = p4] :
        w \in Words, k \in BOOLEAN, t \in {"absent", "chunked", "other"},
        x \in {"readable", "unreadable", "missing", "directory"},
        s \in BOOLEAN, p \in {"none", "readable"},
        p4 \in {"none", "readable", "unreadable"}}

\* Requests for a directory, which may be no directory.
ForDirectory ==
  {r \in
    {[Plain EXCEPT !.is_file = FALSE, !.word = w, !.te = t, !.index = i,
                   !.script = s, !.dir = d,
                   !.tree = IF d THEN {Entry(<< >>, "dir", All)} ELSE {}, !.target = IF d THEN "directory" ELSE "missing",
                   !.server_listing = l, !.location_listing = ll,
                   !.page = p, !.dir_page = dp] :
        w \in Supported, t \in {"absent", "chunked"},
        i \in {"readable", "unreadable", "missing", "directory"},
        s \in BOOLEAN, d \in BOOLEAN, l \in BOOLEAN,
        ll \in {"none", "on", "off"},
        p \in {"none", "readable"}, dp \in {"none", "readable"}} :
   r.dir \/ (r.index = "missing" /\ r.dir_page = "none")}

\* Requests that one of the handlers before handle_200 takes.
Refused ==
    LET one == {[Plain EXCEPT !.length = "large"], [Plain EXCEPT !.uri = "invalid"],
                [Plain EXCEPT !.uri = "long"], [Plain EXCEPT !.ctype = FALSE],
                [Plain EXCEPT !.length = "absent"], [Plain EXCEPT !.allowed = FALSE],
                [Plain EXCEPT !.redirect = TRUE], [Plain EXCEPT !.http11 = FALSE]}
    IN {[r EXCEPT !.word = w, !.keep = k, !.te = t, !.page = p] :
            r \in one, w \in Supported, k \in BOOLEAN, t \in {"absent", "chunked"},
            p \in {"none", "readable"}}

\* A directory with a file, and a directory in it with another, any of which
\* may be missing, closed, or stay.
Trees ==
    LET file(path) == {{}} \cup {{Entry(path, "file", c)} : c \in SUBSET {"remove"}}
        dirs(path) == {{Entry(path, "dir", c)} : c \in SUBSET All}
        inner == {{}} \cup {d \cup f : d \in dirs(<<"d">>), f \in file(<<"d", "b">>)}
    IN {d \cup f \cup i : d \in dirs(<< >>), f \in file(<<"a">>), i \in inner}

Deletions ==
    {[Plain EXCEPT !.word = "DELETE", !.is_file = FALSE, !.dir = TRUE, !.target = "directory",
                   !.allowed = a, !.tree = t] : a \in BOOLEAN, t \in Trees}

MCRequests == ForFile \cup ForDirectory \cup Refused \cup Deletions
=============================================================================
