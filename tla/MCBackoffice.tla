---- MODULE MCBackoffice ----
(* A small instance of Backoffice for TLC. *)
EXTENDS Backoffice

MCEntities ==
    {"sem1", "sem2", "sem3", "stu11", "stu12", "stu22", "rec1", "rec2", "adm1", "adm2", "set1",
     "ele1", "ele2", "pre1", "pre2", "off1", "off2", "opr1", "opr2", "grp1", "grp2",
     "win1", "win2"}

MCOf(table, key, refs) == [table |-> table, key |-> key, refs |-> refs]

MCInfo == [e \in MCEntities |->
    CASE e \in {"sem1", "sem2", "sem3"} -> MCOf("semesters", <<e>>, {})
      [] e = "stu11" -> MCOf("students", <<1, 1>>, {})
      [] e = "stu12" -> MCOf("students", <<1, 2>>, {})
      [] e = "stu22" -> MCOf("students", <<2, 2>>, {})
      [] e = "rec1" -> MCOf("student_academic_records", <<e>>, {"stu11", "sem1"})
      [] e = "rec2" -> MCOf("student_academic_records", <<e>>, {"stu22", "sem1"})
      [] e \in {"adm1", "adm2"} -> MCOf("admin_users", <<e>>, {})
      [] e = "set1" -> MCOf("global_settings", <<e>>, {})
      [] e \in {"ele1", "ele2"} -> MCOf("electives", <<e>>, {})
      [] e = "pre1" -> MCOf("prerequisites", <<e>>, {"ele1"})
      [] e = "pre2" -> MCOf("prerequisites", <<e>>, {"ele2"})
      [] e = "off1" -> MCOf("elective_offerings", <<e>>, {"ele1", "sem1"})
      [] e = "off2" -> MCOf("elective_offerings", <<e>>, {"ele2", "sem1"})
      [] e = "opr1" -> MCOf("offering_prerequisites", <<e>>, {"off1"})
      [] e = "opr2" -> MCOf("offering_prerequisites", <<e>>, {"off2"})
      [] e = "grp1" -> MCOf("offering_groups", <<e>>, {"off1"})
      [] e = "grp2" -> MCOf("offering_groups", <<e>>, {"off2"})
      [] e \in {"win1", "win2"} -> MCOf("enrollment_windows", <<e>>, {"sem1"})]

MCExist == {"sem1", "sem2", "stu11", "adm1", "ele1", "off1", "grp1", "win1"}

MCScopes ==
    {{"sem1", "sem2", "sem3"}, {"stu11", "stu12", "stu22", "rec1", "rec2"}, {"adm1", "adm2"},
     {"ele1", "ele2", "pre1", "pre2"}, {"off1", "off2", "opr1", "opr2"}, {"grp1", "grp2"},
     {"win1", "win2"}}

\* Two calls on each part of the data; three where the third one matters: a circle of
\* activations that wait for each other, and a setting that exists or is upserted for
\* the first time.
MCWorlds ==
    {[exist |-> MCExist, scope |-> s, limit |-> 2] : s \in MCScopes}
    \cup {[exist |-> MCExist, scope |-> {"sem1", "sem2"}, limit |-> 3],
          [exist |-> MCExist, scope |-> {"set1"}, limit |-> 3],
          [exist |-> MCExist \cup {"set1"}, scope |-> {"set1"}, limit |-> 3]}

MCPatches == {[a |-> 1, b |-> None], [a |-> None, b |-> 2], [a |-> None, b |-> Bad],
              [a |-> None, b |-> None]}

MCImports ==
    {<<[e |-> "stu12", valid |-> TRUE], [e |-> "stu22", valid |-> TRUE]>>,
     <<[e |-> "stu22", valid |-> FALSE], [e |-> "stu22", valid |-> TRUE]>>}

====
