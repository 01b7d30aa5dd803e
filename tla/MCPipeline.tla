----------------------------- MODULE MCPipeline -----------------------------
(***************************************************************************)
(* Instances of Pipeline for TLC: a project in a directory that is absolute *)
(* or the working directory, with two files in a directory below.          *)
(***************************************************************************)
EXTENDS Pipeline

Project == <<"/", "project">>
Here == <<>>

\* The files of the project in directory d, by name.
Names == {"main", "a", "b", "c"}
In(d, f) == IF f \in {"b", "c"} THEN d \o <<"sub", f>> ELSE Append(d, f)
FilesIn(d) == {In(d, f) : f \in Names}

ProjectFiles == FilesIn(Project)
ProjectMain == In(Project, "main")
HereFiles == FilesIn(Here)
HereMain == In(Here, "main")

\* What one file contains.
Content(stop, stages, tasks) == [stop |-> stop, stages |-> stages, tasks |-> tasks]
One(f) == [par |-> FALSE, files |-> <<f>>]
Group(fs) == [par |-> TRUE, files |-> fs]

\* The project in d whose file named f has the content c[f].
ProjectIn(d, c) ==
  [p \in FilesIn(d) |-> c[CHOOSE f \in Names : p = In(d, f)]]

\* main includes b and c together, then a; b includes a, by its whole path,
\* and c together, so the same file is called at two places of the tree.
\* Every combination of stop_on_error.
Nested ==
  {ProjectIn(Project, [f \in Names |->
      CASE f = "main" ->
             Content("main" \in stops,
                     <<Group(<< <<"sub", "b">>, <<"sub", "c">> >>), One(<<"a">>)>>, 1)
        [] f = "a" -> Content("a" \in stops, <<>>, 1)
        [] f = "b" -> Content("b" \in stops,
                              <<Group(<<In(Project, "a"), <<"c">> >>)>>, 1)
        [] f = "c" -> Content("c" \in stops, <<>>, 1)]) :
     stops \in SUBSET Names}

\* main includes a, then b and c together; two tasks in c.
Flat ==
  {ProjectIn(Project, [f \in Names |->
      CASE f = "main" ->
             Content("main" \in stops,
                     <<One(<<"a">>), Group(<< <<"sub", "b">>, <<"sub", "c">> >>)>>, 1)
        [] f = "a" -> Content(FALSE, <<>>, 1)
        [] f = "b" -> Content(FALSE, <<>>, 1)
        [] f = "c" -> Content("c" \in stops, <<>>, 2)]) :
     stops \in SUBSET {"main", "c"}}

Trees == Nested \cup Flat

\* main includes b, which includes c, which lies beside it.
Chain ==
  {ProjectIn(Here, [f \in Names |->
      CASE f = "main" -> Content(FALSE, <<One(<<"sub", "b">>)>>, 1)
        [] f = "b" -> Content(FALSE, <<One(<<"c">>)>>, 1)
        [] f \in {"a", "c"} -> Content(FALSE, <<>>, 1)])}

AllEnds == {"finished", "reported", "crashed", "failed", "broken"}
Finish == {"finished"}
BothModes == {"pipeline", "single"}
PipelineMode == {"pipeline"}
=============================================================================
