----------------------- MODULE CatalogDiscoveryProofs -----------------------
(***************************************************************************)
(* Proofs about CatalogDiscovery, for every set of schemas, number of      *)
(* catalog queries and number of concurrent DDL statements.                *)
(***************************************************************************)
EXTENDS CatalogDiscovery, FiniteSetTheorems, SequenceTheorems, TLAPS

-----------------------------------------------------------------------------
(* The programs.                                                           *)

StepName ==
    {"checkpoint", "configure", "call", "begin", "begin_rows", "identify",
     "scope", "sign", "read", "sign_again", "read_again", "read_files",
     "stable_signature", "stable_reads", "validate", "map", "rollback",
     "deadline", "time_left", "certify", "enforce"}

(* What is where in the concatenation of two sequences, in the steps the   *)
(* service puts around an adapter's own (two before, three after), in what *)
(* analyze_complete_source puts around a strategy, and in both.            *)
Joined(s, t, u) ==
    /\ Len(u) = Len(s) + Len(t)
    /\ \A i \in 1 .. Len(s) + Len(t) :
          /\ i <= Len(s) => i \in 1 .. Len(s) /\ u[i] = s[i]
          /\ i > Len(s) => i - Len(s) \in 1 .. Len(t)
                           /\ u[i] = t[i - Len(s)]

InService(steps, n, sv) ==
    /\ Len(sv) = n + 5
    /\ \A i \in 1 .. n + 5 :
          /\ i = 1 => sv[i] = "configure"
          /\ i = 2 \/ i = n + 3 \/ i = n + 5 => sv[i] = "checkpoint"
          /\ i = n + 4 => sv[i] = "certify"
          /\ i \in 3 .. n + 2 => i - 2 \in 1 .. n /\ sv[i] = steps[i - 2]

Enclosed(mid, m, p) ==
    /\ Len(p) = m + 2
    /\ \A i \in 1 .. m + 2 :
          /\ i = 1 => p[i] = "configure"
          /\ i = m + 2 => p[i] = "enforce"
          /\ i \in 2 .. m + 1 => i - 1 \in 1 .. m /\ p[i] = mid[i - 1]

Around(steps, n, p) ==
    /\ Len(p) = n + 7
    /\ \A i \in 1 .. n + 7 :
          /\ i \in 4 .. n + 3 => i - 3 \in 1 .. n /\ p[i] = steps[i - 3]
          /\ i \in {1, 2} => p[i] = "configure"
          /\ i \in {3, n + 4, n + 6} => p[i] = "checkpoint"
          /\ i = n + 5 => p[i] = "certify"
          /\ i = n + 7 => p[i] = "enforce"

(* A concatenation has the elements of its parts, in order.                *)
LEMMA Concatenation ==
    ASSUME NEW s \in Seq(StepName), NEW t \in Seq(StepName)
    PROVE  s \o t \in Seq(StepName) /\ Joined(s, t, s \o t)
  BY DEF Joined

(* What DatabaseAnalysisService puts around an adapter.                    *)
LEMMA ServiceSteps ==
    ASSUME NEW steps \in Seq(StepName), NEW n \in Nat, Len(steps) = n
    PROVE  /\ Service(steps) \in Seq(StepName)
           /\ InService(steps, n, Service(steps))
  <1> DEFINE a == <<"configure", "checkpoint">>
             z == <<"checkpoint", "certify", "checkpoint">>
             pre == a \o steps
             sv == pre \o z
  <1>1. /\ a \in Seq(StepName) /\ Len(a) = 2
        /\ a[1] = "configure" /\ a[2] = "checkpoint"
    BY DEF StepName
  <1>2. /\ z \in Seq(StepName) /\ Len(z) = 3
        /\ z[1] = "checkpoint" /\ z[2] = "certify" /\ z[3] = "checkpoint"
    BY DEF StepName
  <1>3. Service(steps) = sv
    BY DEF Service
  <1> HIDE DEF a, z
  <1>4. pre \in Seq(StepName) /\ Joined(a, steps, pre)
    BY <1>1, Concatenation
  <1> HIDE DEF pre
  <1>5. sv \in Seq(StepName) /\ Joined(pre, z, sv)
    BY <1>2, <1>4, Concatenation
  <1> HIDE DEF sv
  <1>6. Len(pre) = n + 2 /\ Len(sv) = n + 5
    BY <1>1, <1>2, <1>4, <1>5 DEF Joined
  <1>7. ASSUME NEW i \in 1 .. n + 5
        PROVE  /\ i = 1 => sv[i] = "configure"
               /\ i = 2 \/ i = n + 3 \/ i = n + 5 => sv[i] = "checkpoint"
               /\ i = n + 4 => sv[i] = "certify"
               /\ i \in 3 .. n + 2 => i - 2 \in 1 .. n /\ sv[i] = steps[i - 2]
    <2>1. CASE i <= n + 2
      <3>1. i \in 1 .. n + 2 /\ sv[i] = pre[i]
        BY <2>1, <1>2, <1>5, <1>6 DEF Joined
      <3>2. /\ i <= 2 => pre[i] = a[i]
            /\ i > 2 => i - 2 \in 1 .. n /\ pre[i] = steps[i - 2]
        BY <3>1, <1>1, <1>4 DEF Joined
      <3>3. i = 1 \/ i = 2 \/ i > 2
        OBVIOUS
      <3> QED
        BY <2>1, <3>1, <3>2, <3>3, <1>1
    <2>2. CASE i > n + 2
      <3>1. i = n + 3 \/ i = n + 4 \/ i = n + 5
        BY <2>2
      <3>2. sv[i] = z[i - (n + 2)]
        BY <2>2, <1>2, <1>5, <1>6 DEF Joined
      <3> QED
        BY <2>2, <3>1, <3>2, <1>2
    <2> QED
      BY <2>1, <2>2
  <1> QED
    BY <1>3, <1>5, <1>6, <1>7 DEF InService

(* What analyze_complete_source puts around the strategy of a source.      *)
LEMMA DispatchSteps ==
    ASSUME NEW mid \in Seq(StepName), NEW m \in Nat, Len(mid) = m
    PROVE  Enclosed(mid, m, <<"configure">> \o mid \o <<"enforce">>)
  <1> DEFINE c == <<"configure">>
             e == <<"enforce">>
             pre == c \o mid
             p == pre \o e
  <1>1. /\ c \in Seq(StepName) /\ Len(c) = 1 /\ c[1] = "configure"
        /\ e \in Seq(StepName) /\ Len(e) = 1 /\ e[1] = "enforce"
    BY DEF StepName
  <1> HIDE DEF c, e
  <1>2. pre \in Seq(StepName) /\ Joined(c, mid, pre)
    BY <1>1, Concatenation
  <1> HIDE DEF pre
  <1>3. p \in Seq(StepName) /\ Joined(pre, e, p)
    BY <1>1, <1>2, Concatenation
  <1> HIDE DEF p
  <1>4. Len(pre) = m + 1 /\ Len(p) = m + 2
    BY <1>1, <1>2, <1>3 DEF Joined
  <1>5. ASSUME NEW i \in 1 .. m + 2
        PROVE  /\ i = 1 => p[i] = "configure"
               /\ i = m + 2 => p[i] = "enforce"
               /\ i \in 2 .. m + 1 => i - 1 \in 1 .. m /\ p[i] = mid[i - 1]
    <2>1. CASE i <= m + 1
      <3>1. i \in 1 .. m + 1 /\ p[i] = pre[i]
        BY <2>1, <1>1, <1>3, <1>4 DEF Joined
      <3>2. /\ i <= 1 => pre[i] = c[i]
            /\ i > 1 => i - 1 \in 1 .. m /\ pre[i] = mid[i - 1]
        BY <3>1, <1>1, <1>2 DEF Joined
      <3> QED
        BY <2>1, <3>1, <3>2, <1>1
    <2>2. CASE i = m + 2
      <3>1. p[i] = e[i - (m + 1)] /\ i - (m + 1) = 1
        BY <2>2, <1>1, <1>3, <1>4 DEF Joined
      <3> QED
        BY <2>2, <3>1, <1>1
    <2> QED
      BY <2>1, <2>2
  <1> QED
    BY <1>4, <1>5 DEF Enclosed, p, pre, c, e

(* The program of every source that goes through the analysis service.     *)
LEMMA ServiceProgram ==
    ASSUME NEW steps \in Seq(StepName), NEW n \in Nat, Len(steps) = n
    PROVE  Around(steps, n, <<"configure">> \o Service(steps) \o <<"enforce">>)
  <1> DEFINE sv == Service(steps)
             p == <<"configure">> \o sv \o <<"enforce">>
  <1>1. sv \in Seq(StepName) /\ InService(steps, n, sv) /\ Len(sv) = n + 5
    BY ServiceSteps DEF InService
  <1> HIDE DEF sv
  <1>2. Enclosed(sv, n + 5, p)
    <2>1. n + 5 \in Nat
      OBVIOUS
    <2> QED
      BY <1>1, <2>1, DispatchSteps
  <1> HIDE DEF p
  <1>3. ASSUME NEW i \in 1 .. n + 7
        PROVE  /\ i \in 4 .. n + 3 => i - 3 \in 1 .. n /\ p[i] = steps[i - 3]
               /\ i \in {1, 2} => p[i] = "configure"
               /\ i \in {3, n + 4, n + 6} => p[i] = "checkpoint"
               /\ i = n + 5 => p[i] = "certify"
               /\ i = n + 7 => p[i] = "enforce"
    <2>1. CASE i = 1 \/ i = n + 7
      BY <2>1, <1>2 DEF Enclosed
    <2>2. CASE i \in 2 .. n + 6
      <3> DEFINE j == i - 1
      <3>1. j \in 1 .. n + 5 /\ p[i] = sv[j] /\ i = j + 1
        BY <2>2, <1>2 DEF Enclosed
      <3>2. /\ j = 1 => sv[j] = "configure"
            /\ j = 2 \/ j = n + 3 \/ j = n + 5 => sv[j] = "checkpoint"
            /\ j = n + 4 => sv[j] = "certify"
            /\ j \in 3 .. n + 2 => j - 2 \in 1 .. n /\ sv[j] = steps[j - 2]
        BY <3>1, <1>1 DEF InService
      <3>3. i \in 4 .. n + 3 => i - 3 \in 1 .. n /\ p[i] = steps[i - 3]
        BY <3>1, <3>2
      <3> QED
        BY <2>2, <3>1, <3>2, <3>3
    <2> QED
      BY <2>1, <2>2
  <1> QED
    BY <1>2, <1>3 DEF Around, Enclosed, p, sv

(* The places of the steps the arguments are about, 0 for a step a source  *)
(* does not take.  The probe of ODBC identifies first.                     *)
Place ==
    CASE source \in {"postgres", "yugabytedb"} ->
           [begin |-> 8, identify |-> 11, scope |-> 12, sign |-> 0,
            read |-> 13, again |-> 0, stable |-> 0, rollback |-> 0,
            certify |-> 19, enforce |-> 21]
      [] source \in {"mysql", "mariadb"} ->
           [begin |-> 0, identify |-> 8, scope |-> 0, sign |-> 13,
            read |-> 14, again |-> 15, stable |-> 16, rollback |-> 0,
            certify |-> 22, enforce |-> 24]
      [] source = "sqlserver" ->
           [begin |-> 0, identify |-> 9, scope |-> 10, sign |-> 0,
            read |-> 12, again |-> 14, stable |-> 15, rollback |-> 0,
            certify |-> 19, enforce |-> 21]
      [] source = "oracle" ->
           [begin |-> 9, identify |-> 11, scope |-> 12, sign |-> 0,
            read |-> 14, again |-> 16, stable |-> 17, rollback |-> 21,
            certify |-> 23, enforce |-> 25]
      [] source = "sqlite" ->
           [begin |-> 9, identify |-> 0, scope |-> 0, sign |-> 0,
            read |-> 10, again |-> 0, stable |-> 0, rollback |-> 0,
            certify |-> 14, enforce |-> 16]
      [] source = "ddl-sqlite" ->
           [begin |-> 0, identify |-> 0, scope |-> 0, sign |-> 0,
            read |-> 0, again |-> 0, stable |-> 0, rollback |-> 0,
            certify |-> 6, enforce |-> 8]
      [] source = "odbc" ->
           [begin |-> 0, identify |-> 12, scope |-> 21, sign |-> 0,
            read |-> 23, again |-> 25, stable |-> 26, rollback |-> 0,
            certify |-> 30, enforce |-> 32]

(* Step number i of the program is this step.                              *)
Placed(i, step) ==
    /\ step = "begin" <=> i = Place.begin
    /\ step = "identify" => i >= Place.identify
    /\ i = Place.identify => step = "identify"
    /\ step = "scope" <=> i = Place.scope
    /\ step = "sign" <=> i = Place.sign
    /\ step = "read" <=> i = Place.read
    /\ step \in {"sign_again", "read_again"} <=> i = Place.again
    /\ step \in {"stable_signature", "stable_reads"} <=> i = Place.stable
    /\ step = "rollback" <=> i = Place.rollback
    /\ step = "certify" <=> i = Place.certify
    /\ i = Place.certify + 1 => step \in {"checkpoint", "deadline"}
    /\ step = "enforce" <=> i = Place.enforce
    /\ step \in {"sign", "sign_again", "stable_signature"}
         => source \in {"mysql", "mariadb"}
    /\ step \in {"read_again", "stable_reads"}
         => source \in {"oracle", "sqlserver", "odbc"}
    /\ step = "read_files" => source = "ddl-sqlite"
    /\ step = "begin_rows" => source \in {"mysql", "mariadb"}

AdapterPlaces ==
    {Place.begin, Place.identify, Place.scope, Place.sign, Place.read,
     Place.again, Place.stable, Place.rollback}

ProgramIsPlaced ==
    /\ Len(Program) = Place.enforce
    /\ \A i \in 1 .. Len(Program) : Placed(i, Program[i])

(* The steps around an adapter's own are where the table says.             *)
LEMMA ServiceEnds ==
    ASSUME NEW n \in Nat, NEW i \in {1, 2, 3, n + 4, n + 5, n + 6, n + 7},
           NEW step,
           i \in {1, 2} => step = "configure",
           i \in {3, n + 4, n + 6} => step = "checkpoint",
           i = n + 5 => step = "certify",
           i = n + 7 => step = "enforce",
           Place.certify = n + 5, Place.enforce = n + 7,
           \A k \in AdapterPlaces : k = 0 \/ k \in 4 .. n + 3
    PROVE  Placed(i, step)
  <1>1. /\ i # Place.begin /\ i # Place.identify /\ i # Place.scope
        /\ i # Place.sign /\ i # Place.read /\ i # Place.again
        /\ i # Place.stable /\ i # Place.rollback
    <2>1. i # 0 /\ i \notin 4 .. n + 3
      OBVIOUS
    <2>2. /\ Place.begin \in AdapterPlaces /\ Place.identify \in AdapterPlaces
          /\ Place.scope \in AdapterPlaces /\ Place.sign \in AdapterPlaces
          /\ Place.read \in AdapterPlaces /\ Place.again \in AdapterPlaces
          /\ Place.stable \in AdapterPlaces
          /\ Place.rollback \in AdapterPlaces
      BY DEF AdapterPlaces
    <2> QED
      BY <2>1, <2>2
  <1>2. CASE i \in {1, 2, 3, n + 4, n + 6}
    <2>1. step \in {"configure", "checkpoint"}
      BY <1>2
    <2>2. /\ i # Place.certify /\ i # Place.enforce
          /\ i = Place.certify + 1 => step = "checkpoint"
      BY <1>2
    <2> QED
      BY <1>1, <2>1, <2>2 DEF Placed
  <1>3. CASE i = n + 5
    BY <1>1, <1>3 DEF Placed
  <1>4. CASE i = n + 7
    BY <1>1, <1>4 DEF Placed
  <1> QED
    BY <1>2, <1>3, <1>4

(* It is enough to look at an adapter's own steps.                         *)
LEMMA ServicePlaces ==
    ASSUME NEW steps, NEW n \in Nat, Around(steps, n, Program),
           Place.certify = n + 5, Place.enforce = n + 7,
           \A k \in AdapterPlaces : k = 0 \/ k \in 4 .. n + 3,
           \A j \in 1 .. n : Placed(j + 3, steps[j])
    PROVE  ProgramIsPlaced
  <1>1. ASSUME NEW i \in 1 .. n + 7 PROVE Placed(i, Program[i])
    <2>1. CASE i \in 4 .. n + 3
      <3>1. i - 3 \in 1 .. n /\ Program[i] = steps[i - 3]
        BY <2>1 DEF Around
      <3>2. Placed((i - 3) + 3, steps[i - 3])
        BY <3>1
      <3>3. (i - 3) + 3 = i
        OBVIOUS
      <3> QED
        BY <3>1, <3>2, <3>3
    <2>2. CASE i \in {1, 2, 3, n + 4, n + 5, n + 6, n + 7}
      <3>1. /\ i \in {1, 2} => Program[i] = "configure"
            /\ i \in {3, n + 4, n + 6} => Program[i] = "checkpoint"
            /\ i = n + 5 => Program[i] = "certify"
            /\ i = n + 7 => Program[i] = "enforce"
        BY DEF Around
      <3> QED
        BY <2>2, <3>1, ServiceEnds
    <2> QED
      BY <2>1, <2>2
  <1> QED
    BY <1>1 DEF Around, ProgramIsPlaced

(* The places are right for PostgreSQL and YugabyteDB.                     *)
LEMMA PostgresPlaces ==
    ASSUME source \in {"postgres", "yugabytedb"} PROVE ProgramIsPlaced
  <1> DEFINE n == 14
  <1>1. /\ Place.begin = 8 /\ Place.identify = 11 /\ Place.scope = 12
        /\ Place.sign = 0 /\ Place.read = 13 /\ Place.again = 0
        /\ Place.stable = 0 /\ Place.rollback = 0 /\ Place.certify = 19
        /\ Place.enforce = 21
    BY DEF Place
  <1>2. PostgresSteps \in Seq(StepName) /\ Len(PostgresSteps) = n /\ n \in Nat
    BY DEF PostgresSteps, StepName
  <1>3. Program = <<"configure">> \o Service(PostgresSteps) \o <<"enforce">>
    BY DEF Program
  <1>4. \A j \in 1 .. n : Placed(j + 3, PostgresSteps[j])
    BY <1>1 DEF Placed, PostgresSteps
  <1>5. /\ Place.certify = n + 5 /\ Place.enforce = n + 7
        /\ \A k \in AdapterPlaces : k = 0 \/ k \in 4 .. n + 3
    BY <1>1 DEF AdapterPlaces
  <1> HIDE DEF n
  <1>6. Around(PostgresSteps, n, Program)
    BY <1>2, <1>3, ServiceProgram
  <1> QED
    BY <1>2, <1>4, <1>5, <1>6, ServicePlaces

(* The places are right for MySQL and MariaDB.                             *)
LEMMA MysqlPlaces ==
    ASSUME source \in {"mysql", "mariadb"} PROVE ProgramIsPlaced
  <1> DEFINE n == 17
  <1>1. /\ Place.begin = 0 /\ Place.identify = 8 /\ Place.scope = 0
        /\ Place.sign = 13 /\ Place.read = 14 /\ Place.again = 15
        /\ Place.stable = 16 /\ Place.rollback = 0 /\ Place.certify = 22
        /\ Place.enforce = 24
    BY DEF Place
  <1>2. MysqlSteps \in Seq(StepName) /\ Len(MysqlSteps) = n /\ n \in Nat
    BY DEF MysqlSteps, StepName
  <1>3. Program = <<"configure">> \o Service(MysqlSteps) \o <<"enforce">>
    BY DEF Program
  <1>4. \A j \in 1 .. n : Placed(j + 3, MysqlSteps[j])
    BY <1>1 DEF Placed, MysqlSteps
  <1>5. /\ Place.certify = n + 5 /\ Place.enforce = n + 7
        /\ \A k \in AdapterPlaces : k = 0 \/ k \in 4 .. n + 3
    BY <1>1 DEF AdapterPlaces
  <1> HIDE DEF n
  <1>6. Around(MysqlSteps, n, Program)
    BY <1>2, <1>3, ServiceProgram
  <1> QED
    BY <1>2, <1>4, <1>5, <1>6, ServicePlaces

(* The places are right for SQL Server.                                    *)
LEMMA SqlServerPlaces ==
    ASSUME source = "sqlserver" PROVE ProgramIsPlaced
  <1> DEFINE n == 14
  <1>1. /\ Place.begin = 0 /\ Place.identify = 9 /\ Place.scope = 10
        /\ Place.sign = 0 /\ Place.read = 12 /\ Place.again = 14
        /\ Place.stable = 15 /\ Place.rollback = 0 /\ Place.certify = 19
        /\ Place.enforce = 21
    BY DEF Place
  <1>2. SqlServerSteps \in Seq(StepName) /\ Len(SqlServerSteps) = n /\ n \in Nat
    BY DEF SqlServerSteps, StepName
  <1>3. Program = <<"configure">> \o Service(SqlServerSteps) \o <<"enforce">>
    BY DEF Program
  <1>4. \A j \in 1 .. n : Placed(j + 3, SqlServerSteps[j])
    BY <1>1 DEF Placed, SqlServerSteps
  <1>5. /\ Place.certify = n + 5 /\ Place.enforce = n + 7
        /\ \A k \in AdapterPlaces : k = 0 \/ k \in 4 .. n + 3
    BY <1>1 DEF AdapterPlaces
  <1> HIDE DEF n
  <1>6. Around(SqlServerSteps, n, Program)
    BY <1>2, <1>3, ServiceProgram
  <1> QED
    BY <1>2, <1>4, <1>5, <1>6, ServicePlaces

(* The places are right for Oracle.                                        *)
LEMMA OraclePlaces ==
    ASSUME source = "oracle" PROVE ProgramIsPlaced
  <1> DEFINE n == 18
  <1>1. /\ Place.begin = 9 /\ Place.identify = 11 /\ Place.scope = 12
        /\ Place.sign = 0 /\ Place.read = 14 /\ Place.again = 16
        /\ Place.stable = 17 /\ Place.rollback = 21 /\ Place.certify = 23
        /\ Place.enforce = 25
    BY DEF Place
  <1>2. OracleSteps \in Seq(StepName) /\ Len(OracleSteps) = n /\ n \in Nat
    BY DEF OracleSteps, StepName
  <1>3. Program = <<"configure">> \o Service(OracleSteps) \o <<"enforce">>
    BY DEF Program
  <1>4. \A j \in 1 .. n : Placed(j + 3, OracleSteps[j])
    BY <1>1 DEF Placed, OracleSteps
  <1>5. /\ Place.certify = n + 5 /\ Place.enforce = n + 7
        /\ \A k \in AdapterPlaces : k = 0 \/ k \in 4 .. n + 3
    BY <1>1 DEF AdapterPlaces
  <1> HIDE DEF n
  <1>6. Around(OracleSteps, n, Program)
    BY <1>2, <1>3, ServiceProgram
  <1> QED
    BY <1>2, <1>4, <1>5, <1>6, ServicePlaces

(* The places are right for SQLite.                                        *)
LEMMA SqlitePlaces ==
    ASSUME source = "sqlite" PROVE ProgramIsPlaced
  <1> DEFINE n == 9
  <1>1. /\ Place.begin = 9 /\ Place.identify = 0 /\ Place.scope = 0
        /\ Place.sign = 0 /\ Place.read = 10 /\ Place.again = 0
        /\ Place.stable = 0 /\ Place.rollback = 0 /\ Place.certify = 14
        /\ Place.enforce = 16
    BY DEF Place
  <1>2. SqliteSteps \in Seq(StepName) /\ Len(SqliteSteps) = n /\ n \in Nat
    BY DEF SqliteSteps, StepName
  <1>3. Program = <<"configure">> \o Service(SqliteSteps) \o <<"enforce">>
    BY DEF Program
  <1>4. \A j \in 1 .. n : Placed(j + 3, SqliteSteps[j])
    BY <1>1 DEF Placed, SqliteSteps
  <1>5. /\ Place.certify = n + 5 /\ Place.enforce = n + 7
        /\ \A k \in AdapterPlaces : k = 0 \/ k \in 4 .. n + 3
    BY <1>1 DEF AdapterPlaces
  <1> HIDE DEF n
  <1>6. Around(SqliteSteps, n, Program)
    BY <1>2, <1>3, ServiceProgram
  <1> QED
    BY <1>2, <1>4, <1>5, <1>6, ServicePlaces

(* The places are right for DDL files, which bypass the service.           *)
LEMMA DdlPlaces ==
    ASSUME source = "ddl-sqlite" PROVE ProgramIsPlaced
  <1>1. /\ Place.begin = 0 /\ Place.identify = 0 /\ Place.scope = 0
        /\ Place.sign = 0 /\ Place.read = 0 /\ Place.again = 0
        /\ Place.stable = 0 /\ Place.rollback = 0 /\ Place.certify = 6
        /\ Place.enforce = 8
    BY DEF Place
  <1>2. DdlSteps \in Seq(StepName) /\ Len(DdlSteps) = 6
    BY DEF DdlSteps, StepName
  <1>3. Program = <<"configure">> \o DdlSteps \o <<"enforce">>
    BY DEF Program
  <1>4. Enclosed(DdlSteps, 6, Program)
    BY <1>2, <1>3, DispatchSteps
  <1>5. \A j \in 1 .. 6 : Placed(j + 1, DdlSteps[j])
    BY <1>1 DEF Placed, DdlSteps
  <1>6. ASSUME NEW i \in 1 .. 8 PROVE Placed(i, Program[i])
    <2>1. CASE i \in 2 .. 7
      <3>1. i - 1 \in 1 .. 6 /\ Program[i] = DdlSteps[i - 1]
        BY <2>1, <1>4 DEF Enclosed
      <3>2. Placed((i - 1) + 1, DdlSteps[i - 1])
        BY <3>1, <1>5
      <3>3. (i - 1) + 1 = i
        OBVIOUS
      <3> QED
        BY <3>1, <3>2, <3>3
    <2>2. CASE i = 1 \/ i = 8
      <3>1. /\ i = 1 => Program[i] = "configure"
            /\ i = 8 => Program[i] = "enforce"
        BY <2>2, <1>4 DEF Enclosed
      <3> QED
        BY <2>2, <3>1, <1>1 DEF Placed
    <2> QED
      BY <2>1, <2>2
  <1>7. Len(Program) = 8
    BY <1>4 DEF Enclosed
  <1> QED
    BY <1>1, <1>6, <1>7 DEF ProgramIsPlaced

(* The places are right for ODBC: a probe, then the SQL Server adapter.    *)
LEMMA OdbcPlaces ==
    ASSUME source = "odbc" PROVE ProgramIsPlaced
  <1> DEFINE n == 14
             sv == Service(SqlServerSteps)
             mid == OdbcProbeSteps \o sv
  <1>1. /\ Place.begin = 0 /\ Place.identify = 12 /\ Place.scope = 21
        /\ Place.sign = 0 /\ Place.read = 23 /\ Place.again = 25
        /\ Place.stable = 26 /\ Place.rollback = 0 /\ Place.certify = 30
        /\ Place.enforce = 32
    BY DEF Place
  <1>2. /\ SqlServerSteps \in Seq(StepName) /\ Len(SqlServerSteps) = n
        /\ n \in Nat
    BY DEF SqlServerSteps, StepName
  <1>3. OdbcProbeSteps \in Seq(StepName) /\ Len(OdbcProbeSteps) = 11
    BY DEF OdbcProbeSteps, StepName
  <1>4. Program = <<"configure">> \o mid \o <<"enforce">>
    BY DEF Program
  <1>5. \A j \in 1 .. n : Placed(j + 14, SqlServerSteps[j])
    BY <1>1 DEF Placed, SqlServerSteps
  <1>6. \A j \in 1 .. 11 : Placed(j + 1, OdbcProbeSteps[j])
    BY <1>1 DEF Placed, OdbcProbeSteps
  <1>7. InService(SqlServerSteps, 14, sv) /\ sv \in Seq(StepName)
    BY <1>2, ServiceSteps
  <1>8. /\ Len(sv) = 19
        /\ \A j \in 1 .. 19 :
              /\ j = 1 => sv[j] = "configure"
              /\ j = 2 \/ j = 17 \/ j = 19 => sv[j] = "checkpoint"
              /\ j = 18 => sv[j] = "certify"
              /\ j \in 3 .. 16 => j - 2 \in 1 .. n
                                  /\ sv[j] = SqlServerSteps[j - 2]
    BY <1>7 DEF InService
  <1> HIDE DEF sv
  <1>9. /\ mid \in Seq(StepName) /\ Len(mid) = 30
        /\ \A i \in 1 .. 30 :
              /\ i <= 11 => i \in 1 .. 11 /\ mid[i] = OdbcProbeSteps[i]
              /\ i > 11 => i - 11 \in 1 .. 19 /\ mid[i] = sv[i - 11]
    <2>1. Joined(OdbcProbeSteps, sv, mid) /\ mid \in Seq(StepName)
      BY <1>3, <1>7, Concatenation
    <2> HIDE DEF mid
    <2> QED
      BY <2>1, <1>3, <1>8 DEF Joined
  <1> HIDE DEF mid
  <1>10. Enclosed(mid, 30, Program)
    BY <1>4, <1>9, DispatchSteps
  <1>11. ASSUME NEW j \in 1 .. 19 PROVE Placed(j + 12, sv[j])
    <2>1. CASE j \in 3 .. 16
      <3>1. j - 2 \in 1 .. n /\ sv[j] = SqlServerSteps[j - 2]
        BY <2>1, <1>8
      <3>2. Placed((j - 2) + 14, SqlServerSteps[j - 2])
        BY <3>1, <1>5
      <3>3. (j - 2) + 14 = j + 12
        OBVIOUS
      <3> QED
        BY <3>1, <3>2, <3>3
    <2>2. CASE j \in {1, 2, 17, 18, 19}
      <3>1. /\ j = 1 => sv[j] = "configure"
            /\ j = 2 \/ j = 17 \/ j = 19 => sv[j] = "checkpoint"
            /\ j = 18 => sv[j] = "certify"
        BY <2>2, <1>8
      <3> QED
        BY <2>2, <3>1, <1>1 DEF Placed
    <2> QED
      BY <2>1, <2>2
  <1>12. ASSUME NEW i \in 1 .. 32 PROVE Placed(i, Program[i])
    <2>1. CASE i \in 2 .. 31
      <3>1. i - 1 \in 1 .. 30 /\ Program[i] = mid[i - 1]
        BY <2>1, <1>10 DEF Enclosed
      <3>2. CASE i - 1 <= 11
        <4>1. i - 1 \in 1 .. 11 /\ mid[i - 1] = OdbcProbeSteps[i - 1]
          BY <3>1, <3>2, <1>9
        <4>2. Placed((i - 1) + 1, OdbcProbeSteps[i - 1])
          BY <4>1, <1>6
        <4>3. (i - 1) + 1 = i
          OBVIOUS
        <4> QED
          BY <3>1, <4>1, <4>2, <4>3
      <3>3. CASE i - 1 > 11
        <4>1. /\ (i - 1) - 11 \in 1 .. 19
              /\ mid[i - 1] = sv[(i - 1) - 11]
          BY <3>1, <3>3, <1>9
        <4>2. Placed(((i - 1) - 11) + 12, sv[(i - 1) - 11])
          BY <4>1, <1>11
        <4>3. ((i - 1) - 11) + 12 = i
          OBVIOUS
        <4> QED
          BY <3>1, <4>1, <4>2, <4>3
      <3> QED
        BY <3>1, <3>2, <3>3
    <2>2. CASE i = 1 \/ i = 32
      <3>1. /\ i = 1 => Program[i] = "configure"
            /\ i = 32 => Program[i] = "enforce"
        BY <2>2, <1>10 DEF Enclosed
      <3> QED
        BY <2>2, <3>1, <1>1 DEF Placed
    <2> QED
      BY <2>1, <2>2
  <1>13. Len(Program) = 32
    BY <1>10 DEF Enclosed
  <1> QED
    BY <1>1, <1>12, <1>13 DEF ProgramIsPlaced

(* The table is right, whatever the source.                                *)
LEMMA ProgramPlaces ==
    ASSUME source \in SourceKind PROVE ProgramIsPlaced
  BY PostgresPlaces, MysqlPlaces, SqlServerPlaces, OraclePlaces, SqlitePlaces,
     DdlPlaces, OdbcPlaces
  DEF SourceKind

Signed == {"mysql", "mariadb"}
Twice == {"sqlserver", "odbc"}

(* The order of the steps, as far as the arguments need it.                *)
LEMMA PlaceOrder ==
    ASSUME source \in SourceKind
    PROVE  /\ Place.begin \in Nat /\ Place.identify \in Nat
           /\ Place.scope \in Nat /\ Place.sign \in Nat /\ Place.read \in Nat
           /\ Place.again \in Nat /\ Place.stable \in Nat
           /\ Place.rollback \in Nat /\ Place.certify \in Nat \ {0}
           /\ Place.enforce \in Nat
           /\ Place.certify + 1 < Place.enforce
           /\ Place.stable < Place.certify
           /\ Place.identify < Place.certify
           /\ source \in Snapshotted =>
                 /\ 0 < Place.begin /\ Place.begin < Place.read
                 /\ Place.read < Place.certify
                 /\ Place.scope < Place.read
                 /\ Place.scope = 0 \/ Place.begin < Place.scope
                 /\ Place.again = 0 \/ Place.read < Place.again
                 /\ Place.again <= Place.stable
                 /\ Place.rollback = 0 \/ Place.stable < Place.rollback
                 /\ Place.rollback = 0 \/ Place.read < Place.rollback
           /\ source \in Scoped <=> Place.scope # 0
           /\ source = "oracle" <=> Place.rollback # 0
           /\ source \in Signed =>
                 /\ 0 < Place.sign /\ Place.sign < Place.read
                 /\ Place.read < Place.again /\ Place.again < Place.stable
           /\ source \in Twice =>
                 /\ 0 < Place.scope /\ Place.scope < Place.read
                 /\ Place.read < Place.again /\ Place.again < Place.stable
  <1> USE DEF Snapshotted, Scoped, Signed, Twice
  <1>1. CASE source \in {"postgres", "yugabytedb"}
    <2>1. /\ Place.begin = 8 /\ Place.identify = 11 /\ Place.scope = 12
          /\ Place.sign = 0 /\ Place.read = 13 /\ Place.again = 0
          /\ Place.stable = 0 /\ Place.rollback = 0 /\ Place.certify = 19
          /\ Place.enforce = 21
      BY <1>1 DEF Place
    <2> QED
      BY <1>1, <2>1
  <1>2. CASE source \in {"mysql", "mariadb"}
    BY <1>2 DEF Place
  <1>3. CASE source = "sqlserver"
    BY <1>3 DEF Place
  <1>4. CASE source = "oracle"
    BY <1>4 DEF Place
  <1>5. CASE source = "sqlite"
    BY <1>5 DEF Place
  <1>6. CASE source = "ddl-sqlite"
    BY <1>6 DEF Place
  <1>7. CASE source = "odbc"
    BY <1>7 DEF Place
  <1> QED
    BY <1>1, <1>2, <1>3, <1>4, <1>5, <1>6, <1>7 DEF SourceKind

(* PositionOf finds what the model looks for.                              *)
LEMMA Positions ==
    ASSUME source \in SourceKind
    PROVE  /\ PositionOf("certify") = Place.certify
           /\ source = "oracle" => PositionOf("rollback") = Place.rollback
  <1>1. /\ Len(Program) = Place.enforce
        /\ \A i \in 1 .. Len(Program) :
              /\ Program[i] = "certify" <=> i = Place.certify
              /\ Program[i] = "rollback" <=> i = Place.rollback
    BY ProgramPlaces DEF ProgramIsPlaced, Placed
  <1>2. Place.certify \in 1 .. Len(Program)
    BY <1>1, PlaceOrder
  <1>3. source = "oracle" => Place.rollback \in 1 .. Len(Program)
    BY <1>1, PlaceOrder DEF Place
  <1> QED
    BY <1>1, <1>2, <1>3 DEF PositionOf

(* The program is a matter of the source.                                  *)
LEMMA ProgramFrozen ==
    ASSUME source' = source PROVE Program' = Program
  BY SMT
  DEF Program, Service, PostgresSteps, MysqlSteps, SqlServerSteps,
      OracleSteps, SqliteSteps, DdlSteps, OdbcProbeSteps

(* A request never changes, and with it the program.                       *)
LEMMA Frozen ==
    ASSUME [Next]_vars
    PROVE  /\ source' = source /\ server' = server
           /\ requested' = requested
           /\ Program' = Program /\ Place' = Place
  <1>1. source' = source /\ server' = server /\ requested' = requested
    BY DEF Next, vars, envVars, requestVars, Ddl, Cancel, DeadlinePasses,
           Checkpoint, DeadlineCheck, TimeLeft, Configure, Call, Begin,
           Identify, SelectScope, Sign, Read, ReadFile, StatementFails,
           SqliteInterrupted, SqlServerInterrupted, StableSignature,
           StableReads, Map, Rollback, Certify, EnforceRequestedProduct, Done
  <1>2. Program' = Program
    BY <1>1, ProgramFrozen
  <1>3. Place' = Place
    BY <1>1 DEF Place
  <1> QED
    BY <1>1, <1>2, <1>3

-----------------------------------------------------------------------------
(* The invariant.                                                          *)

(* An analysis that has not failed.                                        *)
Live == outcome \in {"running", "complete"}

(* Query q of the step at this place has been run.                         *)
Ran(place, q) == place < at \/ (place = at /\ q < next)

(* Types, and where the analysis can be.                                   *)
ControlInv ==
    /\ DiscoveryTypeOK
    /\ Running => at <= Place.enforce
    /\ outcome = "complete" => at = Place.enforce + 1
    /\ source \notin Scoped => requested = {} /\ selected = {}
    /\ IsFiniteSet(instants)
    /\ \A q \in Query : cat.rows[q] <= ddls

(* Nobody gets past the check after the certification once a cancellation  *)
(* came in time; nobody gets past the product checks with another product. *)
CheckedInv ==
    /\ Live /\ at > Place.certify + 1 => token # "in_time"
    /\ Live /\ at > Place.identify => ~WrongProduct
    /\ outcome = "complete" /\ source \in Signed => server = source

(* c is the catalog the transaction sees, and all that was read is of c.   *)
SeenAt(c) ==
    /\ Place.rollback = 0 \/ at <= Place.rollback => snap = <<c>>
    /\ at > Place.scope => selected \subseteq c.schemas
    /\ \A q \in Query : Ran(Place.read, q) => reads.first.rows[q] = c.rows[q]
    /\ Ran(Place.read, 1) => reads.first.schemas = c.schemas \intersect selected
    /\ Place.again # 0 =>
          /\ \A q \in Query :
                Ran(Place.again, q) => reads.second.rows[q] = c.rows[q]
          /\ Ran(Place.again, 1) =>
                reads.second.schemas = c.schemas \intersect selected

(* A source with a snapshot of the dictionary reads one catalog, and finds *)
(* in it what was requested.                                               *)
SnapshotInv ==
    source \in Snapshotted /\ Live =>
        /\ Ran(Place.read, 1) => instants # {}
        /\ Place.scope # 0 /\ at > Place.scope => instants # {}
        /\ at > Place.scope => requested \subseteq selected
        /\ instants # {} =>
              at > Place.begin /\ \E c \in instants : SeenAt(c)

(* Without one, what a query returned was there at some instant: what a    *)
(* signature holds, and what a read holds.                                 *)
SignedSeen ==
    \A q \in Query :
        /\ Ran(Place.sign, q) =>
              \E c \in instants : c.rows[q] = sigs.before[q]
        /\ Ran(Place.again, q) =>
              \E c \in instants : c.rows[q] = sigs.after[q]

ReadsSeen ==
    /\ \A q \in Query :
          /\ Ran(Place.read, q) =>
                \E c \in instants : c.rows[q] = reads.first.rows[q]
          /\ Ran(Place.again, q) =>
                \E c \in instants : c.rows[q] = reads.second.rows[q]
    /\ Ran(Place.read, 1) =>
          \E c \in instants :
              reads.first.schemas = c.schemas \intersect selected
    /\ Ran(Place.again, 1) =>
          \E c \in instants :
              reads.second.schemas = c.schemas \intersect selected

ObservedInv ==
    source \notin Snapshotted /\ Live =>
        /\ snap = <<>>
        /\ instants # {} => cat \in instants
        /\ source \in Signed => SignedSeen
        /\ source \in Twice => ReadsSeen

(* c lies between the two signatures.                                      *)
SignedAround(c) ==
    \A q \in Query :
        /\ sigs.before[q] <= c.rows[q]
        /\ c.rows[q] <= cat.rows[q]
        /\ Ran(Place.read, q) => c.rows[q] <= reads.first.rows[q]

(* Where no statement restores an earlier catalog, versions only grow: a   *)
(* read between two equal signatures is of the catalog they were made of.  *)
SignedInv ==
    source \in Signed \ Reuse /\ Live =>
        /\ reads.first.schemas = {}
        /\ \A q \in Query :
              /\ Ran(Place.sign, q) => sigs.before[q] <= cat.rows[q]
              /\ Ran(Place.read, q) => reads.first.rows[q] <= cat.rows[q]
              /\ Ran(Place.again, q) => reads.first.rows[q] <= sigs.after[q]
        /\ at > Place.sign => \E c \in instants : SignedAround(c)
        /\ at > Place.stable => sigs.before = sigs.after

(* c lies between the two reads.                                           *)
ReadAround(c) ==
    /\ \A q \in Query :
          /\ reads.first.rows[q] <= c.rows[q]
          /\ c.rows[q] <= cat.rows[q]
          /\ Ran(Place.again, q) => c.rows[q] <= reads.second.rows[q]
    /\ cat.schemas \subseteq c.schemas
    /\ c.schemas \intersect selected \subseteq reads.first.schemas
    /\ Ran(Place.again, 1) =>
          reads.second.schemas \subseteq c.schemas \intersect selected

(* And schemas only go away: two equal reads are of the catalog there was  *)
(* between them.                                                           *)
TwiceInv ==
    source \in Twice \ Reuse /\ Live =>
        /\ \A q \in Query :
              Ran(Place.read, q) => reads.first.rows[q] <= cat.rows[q]
        /\ Ran(Place.read, 1) =>
              cat.schemas \intersect selected \subseteq reads.first.schemas
        /\ at > Place.read => \E c \in instants : ReadAround(c)
        /\ at > Place.stable => reads.first = reads.second

DiscoveryIInv ==
    /\ ControlInv
    /\ CheckedInv
    /\ FailuresNameTheirCause
    /\ SnapshotInv
    /\ ObservedInv
    /\ SignedInv
    /\ TwiceInv

-----------------------------------------------------------------------------
(* What a step can do to an analysis.                                      *)

(* It goes on, without a query of the catalog.                             *)
Moves ==
    /\ Running
    /\ Advance
    /\ outcome' = outcome
    /\ UNCHANGED <<envVars, requestVars, selected, sigs, reads>>
    /\ at \notin {Place.scope, Place.sign, Place.read, Place.again,
                  Place.rollback, Place.enforce}
    /\ at = Place.certify + 1 => ~Cancelled
    /\ at = Place.identify => ~WrongProduct
    /\ at = Place.stable => IF source \in Signed
                            THEN sigs.before = sigs.after
                            ELSE reads.first = reads.second
    /\ \/ snap' = snap
       \/ FixView
       \/ source = "oracle" /\ at = Place.begin /\ snap' = <<cat>>

(* It fails, for a reason.                                                 *)
Failed ==
    /\ Running
    /\ outcome' \in Code \ {"running", "complete"}
    /\ at' \in 1 .. Place.enforce + 1
    /\ next' = 1
    /\ UNCHANGED <<cat, ddls, token, expired, requestVars, selected, sigs,
                   reads>>
    /\ instants' = instants \/ Observe
    /\ snap' \in {snap, <<>>, <<View>>}
    /\ outcome' = "cancelled" => Cancelled
    /\ outcome' = "timeout" => expired
    /\ outcome' = "catalog_changed" =>
          /\ instants' = instants
          /\ at = Place.stable
          /\ \/ source \in Signed /\ sigs.before # sigs.after
             \/ source \in Twice \union {"oracle"} /\ reads.first # reads.second

(* Oracle's rollback after a failure.                                      *)
Ended ==
    /\ ~Live
    /\ outcome' = outcome
    /\ at' = Place.enforce + 1
    /\ next' = next
    /\ snap' = <<>>
    /\ UNCHANGED <<envVars, requestVars, selected, sigs, reads>>

(* It is complete.                                                         *)
Completes ==
    /\ Running
    /\ at = Place.enforce
    /\ outcome' = "complete"
    /\ at' = Place.enforce + 1
    /\ next' = 1
    /\ source \in Signed => server = source
    /\ UNCHANGED <<envVars, requestVars, snap, selected, sigs, reads>>

(* Where a running analysis is.                                            *)
LEMMA AtStep ==
    ASSUME ControlInv
    PROVE  /\ source \in SourceKind
           /\ Len(Program) = Place.enforce
           /\ at \in Nat /\ at >= 1
           /\ Running => at \in 1 .. Len(Program) /\ Placed(at, Step)
  <1>1. source \in SourceKind
    BY DiscoveryAssumption DEF ControlInv, DiscoveryTypeOK
  <1>2. Len(Program) = Place.enforce
    BY <1>1, ProgramPlaces DEF ProgramIsPlaced
  <1>3. at \in Nat /\ at >= 1
    BY <1>1, <1>2, PlaceOrder DEF ControlInv, DiscoveryTypeOK
  <1>4. Running => at \in 1 .. Len(Program)
    BY <1>1, <1>2, <1>3, PlaceOrder DEF ControlInv
  <1>5. Running => Placed(at, Step)
    BY <1>1, <1>4, ProgramPlaces DEF ProgramIsPlaced, Step
  <1> QED
    BY <1>1, <1>2, <1>3, <1>4, <1>5

(* An error leaves the analysis at its end, or at Oracle's rollback.       *)
LEMMA FailPlace ==
    ASSUME ControlInv, NEW code, Fail(code)
    PROVE  /\ outcome' = code
           /\ at' \in 1 .. Place.enforce + 1
           /\ next' = 1
  <1>1. source = "oracle" => PositionOf("rollback") = Place.rollback
    BY AtStep, Positions
  <1>2. Len(Program) = Place.enforce /\ Place.enforce \in Nat
    BY AtStep, PlaceOrder
  <1>3. source = "oracle" => Place.rollback \in 1 .. Place.enforce + 1
    BY DEF Place
  <1>4. at' \in {PositionOf("rollback"), Len(Program) + 1}
        /\ (at' = PositionOf("rollback") => source = "oracle"
              \/ at' = Len(Program) + 1)
    BY DEF Fail
  <1> QED
    BY <1>1, <1>2, <1>3, <1>4 DEF Fail

(* Every step is one of these, or a query of the catalog.                  *)
LEMMA Kinds ==
    ASSUME ControlInv, [Next]_vars
    PROVE  \/ Ddl \/ Cancel \/ DeadlinePasses
           \/ Moves \/ Failed \/ Ended \/ Completes
           \/ SelectScope /\ Running'
           \/ Sign \/ Read
           \/ ReadFile /\ Running'
           \/ Rollback /\ Running /\ Running'
           \/ UNCHANGED vars
  <1>1. /\ source \in SourceKind /\ Len(Program) = Place.enforce
        /\ at \in Nat /\ at >= 1
        /\ Running => at \in 1 .. Len(Program) /\ Placed(at, Step)
    BY AtStep
  <1>2. /\ Place.certify \in Nat \ {0} /\ Place.enforce \in Nat
        /\ Place.identify \in Nat
        /\ Place.certify + 1 < Place.enforce
        /\ Place.stable < Place.certify
        /\ Place.stable # 0 => source \in Signed \union Twice \union {"oracle"}
    BY <1>1, PlaceOrder DEF Place, SourceKind, Signed, Twice
  <1>3. ASSUME NEW code \in Code \ {"running", "complete", "catalog_changed"},
               Running, Fail(code),
               code = "cancelled" => Cancelled, code = "timeout" => expired,
               UNCHANGED <<envVars, requestVars, snap, selected, sigs, reads>>
        PROVE  Failed
    BY <1>3, FailPlace DEF Failed, envVars, requestVars
  <1>4. ASSUME Running, Advance, outcome' = outcome,
               Step \notin {"scope", "sign", "read", "sign_again",
                            "read_again", "stable_signature", "stable_reads",
                            "rollback", "enforce"},
               Step \in {"checkpoint", "deadline"} => ~Cancelled,
               Step = "identify" => ~WrongProduct,
               UNCHANGED <<envVars, requestVars, selected, sigs, reads>>,
               \/ snap' = snap
               \/ FixView
               \/ source = "oracle" /\ at = Place.begin /\ snap' = <<cat>>
        PROVE  Moves
    <2>1. /\ at \notin {Place.scope, Place.sign, Place.read, Place.again,
                        Place.rollback, Place.enforce, Place.stable}
          /\ at = Place.certify + 1 => ~Cancelled
          /\ at = Place.identify => ~WrongProduct
      BY <1>1, <1>4 DEF Placed
    <2> QED
      BY <1>4, <2>1 DEF Moves
  <1>5. CASE Checkpoint
    <2>1. CASE Cancelled
      BY <1>3, <1>5, <2>1 DEF Checkpoint, Code
    <2>2. CASE ~Cancelled
      BY <1>4, <1>5, <2>2 DEF Checkpoint
    <2> QED
      BY <2>1, <2>2
  <1>6. CASE DeadlineCheck
    <2>1. CASE Cancelled
      BY <1>3, <1>6, <2>1 DEF DeadlineCheck, Code
    <2>2. CASE ~Cancelled /\ expired
      BY <1>3, <1>6, <2>2 DEF DeadlineCheck, Code
    <2>3. CASE ~Cancelled /\ ~expired
      BY <1>4, <1>6, <2>3 DEF DeadlineCheck
    <2> QED
      BY <2>1, <2>2, <2>3
  <1>7. CASE TimeLeft
    <2>1. CASE expired
      BY <1>3, <1>7, <2>1 DEF TimeLeft, Code
    <2>2. CASE ~expired
      BY <1>4, <1>7, <2>2 DEF TimeLeft
    <2> QED
      BY <2>1, <2>2
  <1>8. CASE Configure
    <2>1. CASE Fail("invalid_configuration")
      BY <1>3, <1>8, <2>1 DEF Configure, Code
    <2>2. CASE Advance /\ UNCHANGED outcome
      BY <1>4, <1>8, <2>2 DEF Configure
    <2> QED
      BY <1>8, <2>1, <2>2 DEF Configure
  <1>9. CASE Call
    BY <1>4, <1>9 DEF Call
  <1>10. CASE Begin
    <2>1. /\ Running /\ Advance /\ outcome' = outcome
          /\ Step \in {"begin", "begin_rows"}
          /\ snap' = IF source = "oracle" THEN <<cat>> ELSE snap
          /\ UNCHANGED <<envVars, requestVars, selected, sigs, reads>>
      BY <1>10 DEF Begin
    <2>2. source = "oracle" => at = Place.begin
      BY <1>1, <2>1 DEF Placed
    <2> QED
      BY <1>4, <2>1, <2>2
  <1>11. CASE Identify
    <2>1. CASE WrongProduct
      BY <1>3, <1>11, <2>1 DEF Identify, Code
    <2>2. CASE ~WrongProduct /\ Advance /\ FixView /\ UNCHANGED outcome
      BY <1>4, <1>11, <2>2 DEF Identify
    <2>3. ASSUME NEW code \in {"unsupported_version", "invalid_configuration"},
                 Fail(code), UNCHANGED snap
          PROVE  Failed
      BY <1>3, <1>11, <2>3 DEF Identify, Code
    <2> QED
      BY <1>11, <2>1, <2>2, <2>3 DEF Identify
  <1>12. CASE SelectScope
    <2>1. CASE ScopeExists
      BY <1>12, <2>1 DEF SelectScope, Running
    <2>2. CASE ~ScopeExists
      <3>1. /\ Running /\ Fail("invalid_configuration") /\ Observe /\ FixView
            /\ UNCHANGED <<cat, ddls, token, expired, requestVars, selected,
                           sigs, reads>>
        BY <1>12, <2>2 DEF SelectScope
      <3>2. snap' \in {snap, <<>>, <<View>>}
        BY <3>1 DEF FixView
      <3> QED
        BY <3>1, <3>2, FailPlace DEF Failed, Code
    <2> QED
      BY <2>1, <2>2
  <1>13. CASE ReadFile
    <2>1. CASE Cancelled
      BY <1>3, <1>13, <2>1 DEF ReadFile, Code, envVars
    <2>2. CASE ~Cancelled /\ expired
      BY <1>3, <1>13, <2>2 DEF ReadFile, Code, envVars
    <2>3. CASE ~Cancelled /\ ~expired
      BY <1>13, <2>3 DEF ReadFile, Running
    <2> QED
      BY <2>1, <2>2, <2>3
  <1>14. CASE StatementFails
    <2>1. CASE Fail("query_failed")
      BY <1>3, <1>14, <2>1 DEF StatementFails, Code
    <2>2. CASE expired /\ Fail("timeout")
      BY <1>3, <1>14, <2>2 DEF StatementFails, Code
    <2> QED
      BY <1>14, <2>1, <2>2 DEF StatementFails
  <1>15. CASE SqliteInterrupted
    <2>1. CASE Cancelled
      BY <1>3, <1>15, <2>1 DEF SqliteInterrupted, Code
    <2>2. CASE ~Cancelled
      BY <1>3, <1>15, <2>2 DEF SqliteInterrupted, Code
    <2> QED
      BY <2>1, <2>2
  <1>16. CASE SqlServerInterrupted
    <2>1. CASE Cancelled /\ Fail("cancelled")
      BY <1>3, <1>16, <2>1 DEF SqlServerInterrupted, Code
    <2>2. CASE expired /\ Fail("timeout")
      BY <1>3, <1>16, <2>2 DEF SqlServerInterrupted, Code
    <2>3. CASE Fail("internal")
      BY <1>3, <1>16, <2>3 DEF SqlServerInterrupted, Code
    <2> QED
      BY <1>16, <2>1, <2>2, <2>3 DEF SqlServerInterrupted
  <1>17. CASE StableSignature
    <2>1. /\ Running /\ at = Place.stable /\ source \in Signed
          /\ UNCHANGED <<envVars, requestVars, snap, selected, sigs, reads>>
          /\ at \notin {Place.scope, Place.sign, Place.read, Place.again,
                        Place.rollback, Place.enforce, Place.identify,
                        Place.certify + 1}
      <3>1. Running /\ Step = "stable_signature"
        BY <1>17 DEF StableSignature
      <3> QED
        BY <1>1, <1>2, <1>17, <3>1 DEF StableSignature, Placed, Signed
    <2>2. CASE sigs.before = sigs.after
      BY <1>17, <2>1, <2>2 DEF StableSignature, Moves
    <2>3. CASE sigs.before # sigs.after
      <3>1. Fail("catalog_changed")
        BY <1>17, <2>3 DEF StableSignature
      <3> QED
        BY <2>1, <2>3, <3>1, FailPlace DEF Failed, Code, envVars
    <2> QED
      BY <2>2, <2>3
  <1>18. CASE StableReads
    <2>1. /\ Running /\ at = Place.stable
          /\ source \in Twice \union {"oracle"} /\ source \notin Signed
          /\ UNCHANGED <<envVars, requestVars, snap, selected, sigs, reads>>
          /\ at \notin {Place.scope, Place.sign, Place.read, Place.again,
                        Place.rollback, Place.enforce, Place.identify,
                        Place.certify + 1}
      <3>1. Running /\ Step = "stable_reads"
        BY <1>18 DEF StableReads
      <3> QED
        BY <1>1, <1>2, <1>18, <3>1 DEF StableReads, Placed, Signed, Twice
    <2>2. CASE reads.first = reads.second
      BY <1>18, <2>1, <2>2 DEF StableReads, Moves
    <2>3. CASE reads.first # reads.second
      <3>1. Fail("catalog_changed")
        BY <1>18, <2>3 DEF StableReads
      <3> QED
        BY <2>1, <2>3, <3>1, FailPlace DEF Failed, Code, envVars
    <2> QED
      BY <2>2, <2>3
  <1>19. ASSUME NEW code \in {"metadata_mapping_failed", "validation_failed"},
                Running, Fail(Rejection(code)),
                UNCHANGED <<envVars, requestVars, snap, selected, sigs, reads>>
         PROVE  Failed
    <2>1. /\ Rejection(code) \in Code \ {"running", "complete",
                                         "catalog_changed"}
          /\ Rejection(code) = "cancelled" => Cancelled
          /\ Rejection(code) = "timeout" => expired
      BY DEF Rejection, Code
    <2> QED
      BY <1>3, <1>19, <2>1
  <1>20. CASE Map
    <2>1. CASE Advance /\ UNCHANGED outcome
      BY <1>4, <1>20, <2>1 DEF Map
    <2>2. CASE Fail(Rejection("metadata_mapping_failed"))
      BY <1>19, <1>20, <2>2 DEF Map
    <2> QED
      BY <1>20, <2>1, <2>2 DEF Map
  <1>21. CASE Certify
    <2>1. CASE Advance /\ UNCHANGED outcome
      BY <1>4, <1>21, <2>1 DEF Certify
    <2>2. CASE Fail(Rejection("validation_failed"))
      BY <1>19, <1>21, <2>2 DEF Certify
    <2> QED
      BY <1>21, <2>1, <2>2 DEF Certify
  <1>22. CASE Rollback
    <2>1. CASE Running /\ Advance /\ UNCHANGED outcome
      BY <1>22, <2>1 DEF Running
    <2>2. CASE Running /\ Fail("query_failed")
      BY <1>22, <2>2, FailPlace DEF Rollback, Failed, Code, envVars
    <2>3. CASE ~Running
      <3>1. at <= Len(Program)
        BY <1>22 DEF Rollback
      <3>2. ~Live
        BY <1>1, <1>2, <2>3, <3>1 DEF ControlInv, Live, Running
      <3> QED
        BY <1>1, <1>22, <2>3, <3>2 DEF Rollback, Ended
    <2> QED
      BY <1>22, <2>1, <2>2, <2>3 DEF Rollback
  <1>23. CASE EnforceRequestedProduct
    <2>1. Running /\ at = Place.enforce
      BY <1>1, <1>23 DEF EnforceRequestedProduct, Placed
    <2>2. CASE source \in {"mysql", "mariadb"} /\ server # source
      BY <1>3, <1>23, <2>2 DEF EnforceRequestedProduct, Code
    <2>3. CASE ~(source \in {"mysql", "mariadb"} /\ server # source)
      BY <1>1, <1>23, <2>1, <2>3
      DEF EnforceRequestedProduct, Completes, Signed
    <2> QED
      BY <2>2, <2>3
  <1> QED
    BY <1>5, <1>6, <1>7, <1>8, <1>9, <1>10, <1>11, <1>12, <1>13, <1>14,
       <1>15, <1>16, <1>17, <1>18, <1>20, <1>21, <1>22, <1>23
    DEF Next, Done

-----------------------------------------------------------------------------
(* Types and places.                                                       *)

(* What a query can see is a catalog.                                      *)
LEMMA ViewType ==
    ASSUME DiscoveryTypeOK
    PROVE  /\ View \in CatalogState
           /\ View.schemas \subseteq Schema
           /\ View.rows \in Rows
           /\ snap' \in {snap, <<>>, <<View>>} =>
                 snap' \in {<<>>} \union {<<c>> : c \in CatalogState}
           /\ Observe => instants' \subseteq CatalogState
           /\ IsFiniteSet(instants) /\ Observe => IsFiniteSet(instants')
  <1>1. cat \in CatalogState /\ instants \subseteq CatalogState
        /\ snap \in {<<>>} \union {<<c>> : c \in CatalogState}
    BY DEF DiscoveryTypeOK
  <1>2. View \in CatalogState
    <2>1. CASE snap = <<>>
      BY <1>1, <2>1 DEF View
    <2>2. ASSUME NEW c \in CatalogState, snap = <<c>> PROVE View = c
      BY <2>2 DEF View
    <2> QED
      BY <1>1, <2>1, <2>2
  <1>3. View.schemas \subseteq Schema /\ View.rows \in Rows
    BY <1>2 DEF CatalogState
  <1>4. IsFiniteSet(instants) /\ Observe => IsFiniteSet(instants')
    BY FS_Singleton DEF Observe
  <1> QED
    BY <1>1, <1>2, <1>3, <1>4 DEF Observe

(* A read keeps the types.                                                 *)
LEMMA QueryResultType ==
    ASSUME DiscoveryTypeOK, NEW raw \in CatalogState
    PROVE  /\ QueryResult(raw) \in CatalogState
           /\ QueryResult(raw).schemas =
                 IF next = 1 THEN View.schemas \intersect selected
                 ELSE raw.schemas
           /\ \A q \in Query : QueryResult(raw).rows[q] =
                 IF q = next THEN View.rows[q] ELSE raw.rows[q]
  <1>1. /\ View.schemas \subseteq Schema /\ View.rows \in Rows
        /\ next \in Query
    BY ViewType DEF DiscoveryTypeOK
  <1>2. raw.rows \in Rows /\ raw.schemas \subseteq Schema
    BY DEF CatalogState
  <1>3. [raw.rows EXCEPT ![next] = View.rows[next]] \in Rows
    BY <1>1, <1>2 DEF Rows
  <1>4. \A q \in Query : [raw.rows EXCEPT ![next] = View.rows[next]][q] =
            IF q = next THEN View.rows[q] ELSE raw.rows[q]
    BY <1>1, <1>2 DEF Rows
  <1>5. (IF next = 1 THEN View.schemas \intersect selected ELSE raw.schemas)
            \in SUBSET Schema
    BY <1>1, <1>2
  <1> QED
    BY <1>3, <1>4, <1>5 DEF QueryResult, CatalogState

(* The loop over the queries stays within the program.                     *)
LEMMA NextQueryPlace ==
    ASSUME ControlInv, Running, Step # "enforce", NextQuery
    PROVE  at' \in 1 .. Place.enforce /\ next' \in Query
  <1>1. /\ source \in SourceKind /\ Len(Program) = Place.enforce
        /\ at \in 1 .. Len(Program) /\ Placed(at, Step)
    BY AtStep
  <1>2. Place.enforce \in Nat
    BY <1>1, PlaceOrder
  <1>3. at # Place.enforce
    BY <1>1 DEF Placed
  <1>4. next \in 1 .. NQueries /\ NQueries \in Nat \ {0}
    BY DiscoveryAssumption DEF ControlInv, DiscoveryTypeOK, Query
  <1>5. CASE next = NQueries
    <2>1. at' = at + 1 /\ next' = 1
      BY <1>5 DEF NextQuery, Advance
    <2> QED
      BY <2>1, <1>1, <1>2, <1>3, <1>4 DEF Query
  <1>6. CASE next # NQueries
    <2>1. at' = at /\ next' = next + 1
      BY <1>6 DEF NextQuery
    <2> QED
      BY <2>1, <1>1, <1>2, <1>4, <1>6 DEF Query
  <1> QED
    BY <1>5, <1>6

(* What the types say of the parts that a step changes.                    *)
LEMMA ControlParts ==
    ASSUME ControlInv, [Next]_vars,
           cat' \in CatalogState, ddls' \in 0 .. MaxDdl,
           instants' \subseteq CatalogState, IsFiniteSet(instants'),
           token' \in {"active", "in_time", "late"}, expired' \in BOOLEAN,
           at' \in 1 .. Place.enforce + 1, next' \in Query,
           snap' \in {<<>>} \union {<<c>> : c \in CatalogState},
           selected' \subseteq Schema, sigs' \in [before : Rows, after : Rows],
           reads' \in [first : CatalogState, second : CatalogState],
           outcome' \in Code,
           outcome' = "running" => at' <= Place.enforce,
           outcome' = "complete" => at' = Place.enforce + 1,
           source \notin Scoped => selected' = {},
           \A q \in Query : cat'.rows[q] <= ddls'
    PROVE  ControlInv'
  <1>1. /\ source' = source /\ server' = server /\ requested' = requested
        /\ Program' = Program /\ Place' = Place
    BY Frozen
  <1>2. Len(Program) = Place.enforce
    BY AtStep
  <1>3. DiscoveryTypeOK'
    <2>1. source' \in Source /\ server' \in Speaks(source')
          /\ requested' \subseteq Schema
      BY <1>1 DEF ControlInv, DiscoveryTypeOK
    <2>2. at' \in 1 .. Len(Program') + 1
      BY <1>1, <1>2
    <2> QED
      BY <2>1, <2>2 DEF DiscoveryTypeOK
  <1> QED
    BY <1>1, <1>3 DEF ControlInv, Running

(* The first state.                                                        *)
LEMMA InitControl == Init => ControlInv
  <1> SUFFICES ASSUME Init PROVE ControlInv
    OBVIOUS
  <1>1. source \in SourceKind
    BY DiscoveryAssumption DEF Init
  <1>2. Len(Program) = Place.enforce /\ Place.enforce \in Nat
        /\ Place.enforce >= 1
    BY <1>1, ProgramPlaces, PlaceOrder DEF ProgramIsPlaced
  <1>3. Unread \in Rows /\ \A q \in Query : Unread[q] = 0
    BY DiscoveryAssumption DEF Unread, Rows
  <1>4. /\ cat \in CatalogState /\ cat.rows = Unread
        /\ NoCatalog \in CatalogState
    BY <1>3 DEF Init, CatalogState, NoCatalog
  <1>5. sigs \in [before : Rows, after : Rows]
        /\ reads \in [first : CatalogState, second : CatalogState]
    BY <1>3, <1>4 DEF Init
  <1>6. requested \subseteq Schema /\ (source \notin Scoped => requested = {})
    BY DEF Init
  <1>7. DiscoveryTypeOK
    <2>1. next \in Query /\ at \in 1 .. Len(Program) + 1
          /\ ddls \in 0 .. MaxDdl
      BY <1>2, DiscoveryAssumption DEF Init, Query
    <2>2. /\ source \in Source /\ server \in Speaks(source)
          /\ token \in {"active", "in_time", "late"} /\ expired \in BOOLEAN
          /\ snap \in {<<>>} \union {<<c>> : c \in CatalogState}
          /\ selected \subseteq Schema /\ outcome \in Code
          /\ instants \subseteq CatalogState
      BY DEF Init, Code
    <2> QED
      BY <1>4, <1>5, <1>6, <2>1, <2>2 DEF DiscoveryTypeOK
  <1>8. IsFiniteSet(instants)
    BY FS_EmptySet DEF Init
  <1> QED
    BY <1>2, <1>3, <1>4, <1>6, <1>7, <1>8 DEF Init, ControlInv

(* A DDL statement keeps the types, and no version is newer than itself.   *)
LEMMA DdlEffect ==
    ASSUME ControlInv, Ddl
    PROVE  /\ cat' \in CatalogState
           /\ ddls' = ddls + 1 /\ ddls' \in 0 .. MaxDdl
           /\ \A q \in Query : cat'.rows[q] <= ddls'
           /\ source \notin Reuse =>
                 /\ cat'.schemas \subseteq cat.schemas
                 /\ \A q \in Query : cat.rows[q] <= cat'.rows[q]
           /\ instants' = IF instants = {} THEN {}
                          ELSE instants \union {cat'}
           /\ instants' \subseteq CatalogState
           /\ IsFiniteSet(instants')
           /\ cat \in CatalogState /\ ddls \in Nat
           /\ UNCHANGED <<requestVars, token, expired, at, next, snap,
                          selected, sigs, reads, outcome>>
  <1>1. /\ cat \in CatalogState /\ ddls \in 0 .. MaxDdl /\ MaxDdl \in Nat
        /\ cat.schemas \subseteq Schema /\ cat.rows \in Rows
        /\ instants \subseteq CatalogState /\ IsFiniteSet(instants)
        /\ \A q \in Query : cat.rows[q] <= ddls
    BY DiscoveryAssumption DEF ControlInv, DiscoveryTypeOK, CatalogState
  <1>2. ddls < MaxDdl /\ ddls' = ddls + 1 /\ ddls' \in 0 .. MaxDdl
    BY <1>1 DEF Ddl
  <1>3. PICK ss \in SUBSET Schema, qs \in SUBSET Query, v \in 0 .. ddls + 1 :
          /\ source \in Reuse \/ (v = ddls + 1 /\ ss \subseteq cat.schemas)
          /\ cat' = [schemas |-> ss,
                     rows |-> [q \in Query |->
                                  IF q \in qs THEN v ELSE cat.rows[q]]]
    BY DEF Ddl
  <1>4. \A q \in Query : cat.rows[q] \in 0 .. MaxDdl
    BY <1>1 DEF Rows
  <1>5. /\ cat'.schemas = ss
        /\ \A q \in Query : cat'.rows[q] = IF q \in qs THEN v ELSE cat.rows[q]
    BY <1>3
  <1>6. cat'.rows \in Rows /\ cat' \in CatalogState
    <2>1. [q \in Query |-> IF q \in qs THEN v ELSE cat.rows[q]] \in Rows
      BY <1>1, <1>2, <1>4 DEF Rows
    <2> QED
      BY <1>3, <2>1 DEF CatalogState
  <1>7. \A q \in Query : cat'.rows[q] <= ddls'
    BY <1>1, <1>2, <1>4, <1>5
  <1>8. source \notin Reuse =>
            /\ cat'.schemas \subseteq cat.schemas
            /\ \A q \in Query : cat.rows[q] <= cat'.rows[q]
    BY <1>1, <1>3, <1>4, <1>5
  <1>9. instants' = IF instants = {} THEN {} ELSE instants \union {cat'}
    BY DEF Ddl
  <1>10. instants' \subseteq CatalogState /\ IsFiniteSet(instants')
    BY <1>1, <1>6, <1>9, FS_EmptySet, FS_AddElement
  <1> QED
    BY <1>1, <1>2, <1>6, <1>7, <1>8, <1>9, <1>10 DEF Ddl

(* Every step keeps the analysis within its program and its types.         *)
LEMMA NextControl == ControlInv /\ [Next]_vars => ControlInv'
  <1> SUFFICES ASSUME ControlInv, [Next]_vars PROVE ControlInv'
    OBVIOUS
  <1>1. /\ source \in SourceKind /\ Len(Program) = Place.enforce
        /\ at \in Nat /\ at >= 1
        /\ Running => at \in 1 .. Len(Program) /\ Placed(at, Step)
    BY AtStep
  <1>2. Place.enforce \in Nat /\ 1 \in Query
    BY <1>1, PlaceOrder, DiscoveryAssumption DEF Query
  <1>3. /\ cat \in CatalogState /\ ddls \in 0 .. MaxDdl
        /\ instants \subseteq CatalogState /\ IsFiniteSet(instants)
        /\ token \in {"active", "in_time", "late"} /\ expired \in BOOLEAN
        /\ at \in 1 .. Place.enforce + 1 /\ next \in Query
        /\ snap \in {<<>>} \union {<<c>> : c \in CatalogState}
        /\ selected \subseteq Schema /\ sigs \in [before : Rows, after : Rows]
        /\ reads \in [first : CatalogState, second : CatalogState]
        /\ outcome \in Code
        /\ outcome = "running" => at <= Place.enforce
        /\ outcome = "complete" => at = Place.enforce + 1
        /\ source \notin Scoped => selected = {}
        /\ \A q \in Query : cat.rows[q] <= ddls
    BY <1>1 DEF ControlInv, DiscoveryTypeOK, Running
  <1>4. DiscoveryTypeOK
    BY DEF ControlInv
  <1>5. CASE Ddl
    BY <1>3, <1>5, DdlEffect, ControlParts
  <1>6. CASE Cancel
    <2>1. token' \in {"active", "in_time", "late"}
      BY <1>6 DEF Cancel
    <2> QED
      BY <1>3, <1>6, <2>1, ControlParts DEF Cancel
  <1>7. CASE DeadlinePasses
    BY <1>3, <1>7, ControlParts DEF DeadlinePasses
  <1>8. CASE Moves
    <2>1. at' = at + 1 /\ next' = 1 /\ outcome' = "running"
          /\ at # Place.enforce /\ at <= Place.enforce
      BY <1>1, <1>8 DEF Moves, Advance, Running
    <2>2. at' \in 1 .. Place.enforce + 1 /\ at' <= Place.enforce
      BY <1>1, <1>2, <2>1
    <2>3. snap' \in {<<>>} \union {<<c>> : c \in CatalogState}
      BY <1>3, <1>4, <1>8, ViewType DEF Moves, FixView
    <2> QED
      BY <1>2, <1>3, <1>8, <2>1, <2>2, <2>3, ControlParts DEF Moves, envVars
  <1>9. CASE Failed
    <2>1. /\ snap' \in {<<>>} \union {<<c>> : c \in CatalogState}
          /\ instants' \subseteq CatalogState /\ IsFiniteSet(instants')
      BY <1>3, <1>4, <1>9, ViewType DEF Failed
    <2> QED
      BY <1>2, <1>3, <1>9, <2>1, ControlParts DEF Failed
  <1>10. CASE Ended
    <2>1. outcome' \notin {"running", "complete"}
      BY <1>10 DEF Ended, Live
    <2>2. at' \in 1 .. Place.enforce + 1
      BY <1>2, <1>10 DEF Ended
    <2> QED
      BY <1>3, <1>10, <2>1, <2>2, ControlParts DEF Ended, envVars
  <1>11. CASE Completes
    <2>1. at' \in 1 .. Place.enforce + 1
      BY <1>2, <1>11 DEF Completes
    <2> QED
      BY <1>2, <1>3, <1>11, <2>1, ControlParts DEF Completes, envVars, Code
  <1>12. CASE SelectScope /\ Running'
    <2>1. /\ Running /\ Step = "scope" /\ Observe /\ FixView /\ Advance
          /\ selected' = IF requested = {} THEN View.schemas ELSE requested
          /\ outcome' = "running"
          /\ UNCHANGED <<cat, ddls, token, expired, requestVars, sigs, reads>>
      BY <1>12 DEF SelectScope, Fail, Running
    <2>2. /\ snap' \in {<<>>} \union {<<c>> : c \in CatalogState}
          /\ instants' \subseteq CatalogState /\ IsFiniteSet(instants')
          /\ selected' \subseteq Schema
      BY <1>3, <1>4, <2>1, ViewType DEF FixView, DiscoveryTypeOK
    <2>3. /\ at' \in 1 .. Place.enforce + 1 /\ at' <= Place.enforce
          /\ next' = 1
      BY <1>1, <1>2, <2>1 DEF Placed, Advance
    <2>4. source \in Scoped
      BY <1>1, <2>1, PlaceOrder DEF Placed
    <2>5. /\ at' \in 1 .. Place.enforce + 1 /\ at' <= Place.enforce
          /\ outcome' = "running" /\ outcome' \in Code
      BY <1>2, <2>1, <2>2, <2>3 DEF Code, Running
    <2> QED
      BY <1>2, <1>3, <2>1, <2>2, <2>3, <2>4, <2>5, ControlParts
  <1>13. CASE Sign
    <2>1. /\ Running /\ Step \in {"sign", "sign_again"} /\ Observe /\ NextQuery
          /\ UNCHANGED <<cat, ddls, token, expired, requestVars, snap,
                         selected, reads, outcome>>
      BY <1>13 DEF Sign
    <2>2. at' \in 1 .. Place.enforce /\ next' \in Query
      BY <2>1, NextQueryPlace
    <2>3. instants' \subseteq CatalogState /\ IsFiniteSet(instants')
      BY <1>3, <1>4, <2>1, ViewType
    <2>4. sigs' \in [before : Rows, after : Rows]
      <3>1. cat.rows[next] \in 0 .. MaxDdl
        BY <1>3 DEF CatalogState, Rows
      <3>2. /\ [sigs.before EXCEPT ![next] = cat.rows[next]] \in Rows
            /\ [sigs.after EXCEPT ![next] = cat.rows[next]] \in Rows
        BY <1>3, <3>1 DEF Rows
      <3> QED
        BY <1>3, <1>13, <3>2 DEF Sign
    <2>5. /\ at' \in 1 .. Place.enforce + 1 /\ at' <= Place.enforce
          /\ outcome' = "running" /\ outcome' \in Code
      BY <1>2, <2>1, <2>2, <2>3 DEF Code, Running
    <2> QED
      BY <1>2, <1>3, <2>1, <2>2, <2>3, <2>4, <2>5, ControlParts
  <1>14. CASE Read
    <2>1. /\ Running /\ Step \in {"read", "read_again"} /\ Observe
          /\ FixView /\ NextQuery
          /\ UNCHANGED <<cat, ddls, token, expired, requestVars, selected,
                         sigs, outcome>>
      BY <1>14 DEF Read
    <2>2. at' \in 1 .. Place.enforce /\ next' \in Query
      BY <2>1, NextQueryPlace
    <2>3. /\ instants' \subseteq CatalogState /\ IsFiniteSet(instants')
          /\ snap' \in {<<>>} \union {<<c>> : c \in CatalogState}
      BY <1>3, <1>4, <2>1, ViewType DEF FixView
    <2>4. reads' \in [first : CatalogState, second : CatalogState]
      <3>1. /\ QueryResult(reads.first) \in CatalogState
            /\ QueryResult(reads.second) \in CatalogState
        BY <1>3, <1>4, QueryResultType
      <3> QED
        BY <1>3, <1>14, <3>1 DEF Read
    <2>5. /\ at' \in 1 .. Place.enforce + 1 /\ at' <= Place.enforce
          /\ outcome' = "running" /\ outcome' \in Code
      BY <1>2, <2>1, <2>2, <2>3 DEF Code, Running
    <2> QED
      BY <1>2, <1>3, <2>1, <2>2, <2>3, <2>4, <2>5, ControlParts
  <1>15. CASE ReadFile /\ Running'
    <2>1. /\ Running /\ Step = "read_files" /\ Observe /\ NextQuery
          /\ reads' = [reads EXCEPT !.first = QueryResult(@)]
          /\ UNCHANGED <<cat, ddls, token, expired, requestVars, snap,
                         selected, sigs, outcome>>
      BY <1>15 DEF ReadFile, Fail, Running
    <2>2. at' \in 1 .. Place.enforce /\ next' \in Query
      BY <2>1, NextQueryPlace
    <2>3. instants' \subseteq CatalogState /\ IsFiniteSet(instants')
      BY <1>3, <1>4, <2>1, ViewType
    <2>4. reads' \in [first : CatalogState, second : CatalogState]
      <3>1. QueryResult(reads.first) \in CatalogState
        BY <1>3, <1>4, QueryResultType
      <3> QED
        BY <1>3, <2>1, <3>1
    <2>5. /\ at' \in 1 .. Place.enforce + 1 /\ at' <= Place.enforce
          /\ outcome' = "running" /\ outcome' \in Code
      BY <1>2, <2>1, <2>2, <2>3 DEF Code, Running
    <2> QED
      BY <1>2, <1>3, <2>1, <2>2, <2>3, <2>4, <2>5, ControlParts
  <1>16. CASE Rollback /\ Running /\ Running'
    <2>1. /\ Running /\ Step = "rollback" /\ Advance /\ outcome' = "running"
          /\ snap' = <<>>
          /\ UNCHANGED <<envVars, requestVars, selected, sigs, reads>>
      BY <1>16 DEF Rollback, Fail, Running
    <2>2. /\ at' \in 1 .. Place.enforce + 1 /\ at' <= Place.enforce
          /\ next' = 1
      BY <1>1, <1>2, <2>1 DEF Placed, Advance
    <2>5. outcome' \in Code
      BY <2>1 DEF Code
    <2> QED
      BY <1>2, <1>3, <2>1, <2>2, <2>5, ControlParts DEF envVars
  <1>17. CASE UNCHANGED vars
    BY <1>3, <1>17, ControlParts DEF vars
  <1> QED
    BY <1>5, <1>6, <1>7, <1>8, <1>9, <1>10, <1>11, <1>12, <1>13, <1>14,
       <1>15, <1>16, <1>17, Kinds

-----------------------------------------------------------------------------
(* Cancellation, products and the causes of failures.                      *)

(* A query of the catalog is neither a check nor the end.                  *)
LEMMA QueryFacts ==
    ASSUME ControlInv,
           \/ SelectScope /\ Running'
           \/ Sign \/ Read
           \/ ReadFile /\ Running'
           \/ Rollback /\ Running /\ Running'
    PROVE  /\ Running /\ outcome' = "running"
           /\ cat' = cat /\ ddls' = ddls /\ token' = token
           /\ expired' = expired
           /\ at' \in {at, at + 1}
           /\ at \notin {Place.certify + 1, Place.identify, Place.enforce,
                         Place.stable}
  <1>1. Running => Placed(at, Step)
    BY AtStep
  <1>2. Running /\ Step \in {"scope", "sign", "sign_again", "read",
                             "read_again", "read_files", "rollback"}
    BY DEF SelectScope, Sign, Read, ReadFile, Rollback
  <1>3. outcome' = "running"
    BY DEF SelectScope, Sign, Read, ReadFile, Rollback, Running
  <1>4. /\ cat' = cat /\ ddls' = ddls /\ token' = token
        /\ expired' = expired
    BY DEF SelectScope, Sign, Read, ReadFile, Rollback, envVars
  <1>5. at' \in {at, at + 1}
    <2>1. CASE SelectScope /\ Running'
      BY <2>1 DEF SelectScope, Advance, Fail, Running
    <2>2. CASE Sign \/ Read
      BY <2>2 DEF Sign, Read, NextQuery, Advance
    <2>3. CASE ReadFile /\ Running'
      BY <2>3 DEF ReadFile, NextQuery, Advance, Fail, Running
    <2>4. CASE Rollback /\ Running /\ Running'
      BY <2>4 DEF Rollback, Advance, Fail, Running
    <2> QED
      BY <2>1, <2>2, <2>3, <2>4
  <1> QED
    BY <1>1, <1>2, <1>3, <1>4, <1>5 DEF Placed

(* The checks hold from where they are made to the end.                    *)
LEMMA NextChecked ==
    ControlInv /\ CheckedInv /\ [Next]_vars => CheckedInv'
  <1> SUFFICES ASSUME ControlInv, CheckedInv, [Next]_vars PROVE CheckedInv'
    OBVIOUS
  <1>1. /\ source' = source /\ server' = server /\ Place' = Place
    BY Frozen
  <1>2. WrongProduct' <=> WrongProduct
    BY <1>1 DEF WrongProduct
  <1>3. /\ source \in SourceKind /\ at \in Nat
        /\ Place.certify \in Nat /\ Place.identify \in Nat
        /\ Place.enforce \in Nat /\ Place.certify + 1 < Place.enforce
        /\ Place.identify < Place.certify
    BY AtStep, PlaceOrder
  <1>4. CASE Ddl \/ DeadlinePasses \/ UNCHANGED vars
    <2>1. UNCHANGED <<at, outcome, token>>
      BY <1>4 DEF Ddl, DeadlinePasses, vars
    <2> QED
      BY <1>1, <1>2, <2>1 DEF CheckedInv, Live
  <1>5. CASE Cancel
    <2>1. /\ token' = "in_time" => at <= Place.certify
          /\ Running /\ UNCHANGED <<at, outcome>>
      BY <1>3, <1>5, Positions DEF Cancel
    <2> QED
      BY <1>1, <1>2, <1>3, <2>1 DEF CheckedInv, Live, Running
  <1>6. CASE Moves
    <2>1. /\ Running /\ at' = at + 1 /\ outcome' = outcome /\ token' = token
          /\ at = Place.certify + 1 => token = "active"
          /\ at = Place.identify => ~WrongProduct
      BY <1>6 DEF Moves, Advance, envVars, Cancelled
    <2> QED
      BY <1>1, <1>2, <1>3, <2>1 DEF CheckedInv, Live, Running
  <1>7. CASE Failed \/ Ended
    <2>1. outcome' \notin {"running", "complete"}
      BY <1>7 DEF Failed, Ended, Live
    <2> QED
      BY <2>1 DEF CheckedInv, Live
  <1>8. CASE Completes
    <2>1. /\ Running /\ at = Place.enforce /\ outcome' = "complete"
          /\ source \in Signed => server = source
          /\ token' = token
      BY <1>8 DEF Completes, envVars
    <2> QED
      BY <1>1, <1>2, <1>3, <2>1 DEF CheckedInv, Live, Running
  <1>9. CASE \/ SelectScope /\ Running'
             \/ Sign \/ Read
             \/ ReadFile /\ Running'
             \/ Rollback /\ Running /\ Running'
    <2>1. /\ Running /\ outcome' = "running" /\ token' = token
          /\ at' \in {at, at + 1}
          /\ at # Place.certify + 1 /\ at # Place.identify
      BY <1>9, QueryFacts
    <2> QED
      BY <1>1, <1>2, <1>3, <2>1 DEF CheckedInv, Live, Running
  <1> QED
    BY <1>4, <1>5, <1>6, <1>7, <1>8, <1>9, Kinds

-----------------------------------------------------------------------------
(* Sources whose snapshot covers the dictionary.                           *)

(* Ran in the next state, for a place of this one.                         *)
RanNext(place, q) == place < at' \/ (place = at' /\ q < next')

(* The places do not change.                                               *)
LEMMA RanPrime ==
    ASSUME Place' = Place, NEW q
    PROVE  /\ Ran(Place.read, q)' <=> RanNext(Place.read, q)
           /\ Ran(Place.again, q)' <=> RanNext(Place.again, q)
           /\ Ran(Place.sign, q)' <=> RanNext(Place.sign, q)
  BY DEF Ran, RanNext

(* A step elsewhere runs no query of a place.                              *)
LEMMA RanMoved ==
    ASSUME at \in Nat, at' = at + 1, next' = 1
    PROVE  \A p \in Nat, q \in Query :
              p # at => (RanNext(p, q) <=> Ran(p, q))
  BY DiscoveryAssumption DEF Ran, RanNext, Query

(* The loop runs the next query of its own place.                          *)
LEMMA RanQueried ==
    ASSUME at \in Nat, next \in Query, NextQuery
    PROVE  \A p \in Nat, q \in Query :
              RanNext(p, q) <=> Ran(p, q) \/ (p = at /\ q = next)
  <1>1. NQueries \in Nat /\ next \in 1 .. NQueries
    BY DiscoveryAssumption DEF Query
  <1>2. CASE next = NQueries
    <2>1. at' = at + 1 /\ next' = 1
      BY <1>2 DEF NextQuery, Advance
    <2> QED
      BY <1>1, <1>2, <2>1 DEF Ran, RanNext, Query
  <1>3. CASE next # NQueries
    <2>1. at' = at /\ next' = next + 1
      BY <1>3 DEF NextQuery
    <2> QED
      BY <1>1, <1>3, <2>1 DEF Ran, RanNext, Query
  <1> QED
    BY <1>2, <1>3

(* From the step after begin on, statements are in the transaction.        *)
LEMMA AfterBegin ==
    ASSUME ControlInv, Running, source \in Snapshotted, at > Place.begin
    PROVE  InTransaction
  <1>1. /\ source \in SourceKind /\ at \in 1 .. Len(Program)
        /\ Len(Program) = Place.enforce
    BY AtStep
  <1>2. Place.begin \in Nat /\ Place.begin > 0 /\ Place.enforce \in Nat
    BY <1>1, PlaceOrder
  <1>3. Place.begin \in 1 .. Len(Program) /\ Place.begin \in 1 .. at - 1
    BY <1>1, <1>2
  <1>4. Program[Place.begin] = "begin"
    BY <1>1, <1>3, ProgramPlaces DEF ProgramIsPlaced, Placed
  <1> QED
    BY <1>3, <1>4 DEF InTransaction

(* A query in the transaction sees the catalog that all the others saw.    *)
LEMMA QueriedView ==
    ASSUME ControlInv, SnapshotInv, source \in Snapshotted, Running,
           at > Place.begin, Place.rollback = 0 \/ at <= Place.rollback,
           Observe, FixView
    PROVE  /\ View \in instants'
           /\ snap' = <<View>>
           /\ instants # {} => SeenAt(View)
  <1>1. snap' = <<View>>
    BY AfterBegin DEF FixView
  <1>2. CASE instants = {}
    BY <1>1, <1>2 DEF Observe
  <1>3. CASE instants # {}
    <2>1. PICK c \in instants : SeenAt(c)
      BY <1>3 DEF SnapshotInv, Live, Running
    <2>2. snap = <<c>>
      BY <2>1 DEF SeenAt
    <2>3. View = c
      BY <2>2 DEF View
    <2> QED
      BY <1>1, <1>3, <2>1, <2>3 DEF Observe
  <1> QED
    BY <1>2, <1>3

(* SeenAt says the same of the next state when only the view may be lost,  *)
(* after the rollback.                                                     *)
LEMMA SeenAtKept ==
    ASSUME NEW c, SeenAt(c), Place' = Place,
           UNCHANGED <<selected, reads>>,
           \A q \in Query : /\ Ran(Place.read, q)' <=> Ran(Place.read, q)
                            /\ Ran(Place.again, q)' <=> Ran(Place.again, q),
           at' > Place.scope => at > Place.scope,
           Place.rollback = 0 \/ at' <= Place.rollback => snap' = <<c>>
    PROVE  SeenAt(c)'
  <1>1. 1 \in Query
    BY DiscoveryAssumption DEF Query
  <1> QED
    BY <1>1 DEF SeenAt

(* Every step keeps the snapshot's promise.                                *)
LEMMA NextSnapshot ==
    ControlInv /\ SnapshotInv /\ [Next]_vars => SnapshotInv'
  <1> SUFFICES ASSUME ControlInv, SnapshotInv, [Next]_vars
               PROVE  SnapshotInv'
    OBVIOUS
  <1>1. /\ source' = source /\ requested' = requested /\ Place' = Place
    BY Frozen
  <1> SUFFICES ASSUME source \in Snapshotted, Live'
               PROVE  /\ Ran(Place.read, 1)' => instants' # {}
                      /\ Place.scope # 0 /\ at' > Place.scope
                            => instants' # {}
                      /\ at' > Place.scope => requested \subseteq selected'
                      /\ instants' # {} =>
                            /\ at' > Place.begin
                            /\ \E c \in instants' : SeenAt(c)'
    BY <1>1 DEF SnapshotInv
  <1>2. /\ source \in SourceKind /\ at \in Nat /\ at >= 1
        /\ Len(Program) = Place.enforce
        /\ Running => at \in 1 .. Len(Program) /\ Placed(at, Step)
    BY AtStep
  <1>3. /\ Place.begin \in Nat /\ Place.scope \in Nat /\ Place.read \in Nat
        /\ Place.again \in Nat /\ Place.stable \in Nat
        /\ Place.rollback \in Nat /\ Place.certify \in Nat
        /\ Place.enforce \in Nat
        /\ Place.certify + 1 < Place.enforce
        /\ Place.stable < Place.certify
        /\ 0 < Place.begin /\ Place.begin < Place.read
        /\ Place.read < Place.certify /\ Place.scope < Place.read
        /\ Place.scope = 0 \/ Place.begin < Place.scope
        /\ Place.again = 0 \/ Place.read < Place.again
        /\ Place.again <= Place.stable
        /\ Place.rollback = 0 \/ Place.stable < Place.rollback
        /\ Place.rollback = 0 \/ Place.read < Place.rollback
        /\ source \in Scoped <=> Place.scope # 0
    BY <1>2, PlaceOrder
  <1>4. 1 \in Query /\ next \in Query /\ \A q \in Query : q \in Nat /\ q >= 1
    BY DiscoveryAssumption DEF Query, ControlInv, DiscoveryTypeOK
  <1>5. \A q \in Query :
            /\ Ran(Place.read, q)' <=> RanNext(Place.read, q)
            /\ Ran(Place.again, q)' <=> RanNext(Place.again, q)
    BY <1>1, RanPrime
  <1>6. ASSUME Live, UNCHANGED <<at, next, snap, selected, reads>>,
               \/ instants' = instants
               \/ instants # {} /\ instants \subseteq instants'
        PROVE  /\ Ran(Place.read, 1)' => instants' # {}
               /\ Place.scope # 0 /\ at' > Place.scope => instants' # {}
               /\ at' > Place.scope => requested \subseteq selected'
               /\ instants' # {} => /\ at' > Place.begin
                                    /\ \E c \in instants' : SeenAt(c)'
    <2>1. /\ Ran(Place.read, 1) => instants # {}
          /\ Place.scope # 0 /\ at > Place.scope => instants # {}
          /\ at > Place.scope => requested \subseteq selected
          /\ instants # {} => /\ at > Place.begin
                              /\ \E c \in instants : SeenAt(c)
      BY <1>6 DEF SnapshotInv
    <2>2. \A q \in Query : /\ Ran(Place.read, q)' <=> Ran(Place.read, q)
                           /\ Ran(Place.again, q)' <=> Ran(Place.again, q)
      BY <1>1, <1>6 DEF Ran
    <2>3. ASSUME NEW c, SeenAt(c) PROVE SeenAt(c)'
      <3>1. Place.rollback = 0 \/ at' <= Place.rollback => snap' = <<c>>
        BY <1>6, <2>3 DEF SeenAt
      <3> QED
        BY <1>1, <1>6, <2>2, <2>3, <3>1, SeenAtKept
    <2> QED
      BY <1>4, <1>6, <2>1, <2>2, <2>3
  <1>7. CASE Ddl
    <2>1. UNCHANGED <<at, next, snap, selected, reads, outcome>>
          /\ instants' = IF instants = {} THEN {}
                         ELSE instants \union {cat'}
      BY <1>7 DEF Ddl
    <2>2. Live
      BY <2>1 DEF Live
    <2> QED
      BY <1>6, <2>1, <2>2
  <1>8. CASE Cancel \/ DeadlinePasses \/ UNCHANGED vars
    <2>1. UNCHANGED <<at, next, snap, selected, reads, outcome, instants>>
      BY <1>8 DEF Cancel, DeadlinePasses, vars
    <2>2. Live
      BY <2>1 DEF Live
    <2> QED
      BY <1>6, <2>1, <2>2
  <1>9. ASSUME Running, at' = at + 1, next' = 1,
               at \notin {Place.scope, Place.read, Place.again},
               UNCHANGED <<instants, selected, reads>>,
               \A c \in instants :
                  SeenAt(c) /\ at > Place.begin
                     /\ (Place.rollback = 0 \/ at' <= Place.rollback)
                        => snap' = <<c>>
        PROVE  /\ Ran(Place.read, 1)' => instants' # {}
               /\ Place.scope # 0 /\ at' > Place.scope => instants' # {}
               /\ at' > Place.scope => requested \subseteq selected'
               /\ instants' # {} => /\ at' > Place.begin
                                    /\ \E c \in instants' : SeenAt(c)'
    <2>1. /\ Ran(Place.read, 1) => instants # {}
          /\ Place.scope # 0 /\ at > Place.scope => instants # {}
          /\ at > Place.scope => requested \subseteq selected
          /\ instants # {} => /\ at > Place.begin
                              /\ \E c \in instants : SeenAt(c)
      BY <1>9 DEF SnapshotInv, Live, Running
    <2>2. \A q \in Query : /\ Ran(Place.read, q)' <=> Ran(Place.read, q)
                           /\ Ran(Place.again, q)' <=> Ran(Place.again, q)
      BY <1>2, <1>3, <1>5, <1>9, RanMoved
    <2>3. at' > Place.scope => at > Place.scope
      BY <1>2, <1>3, <1>9
    <2>4. ASSUME NEW c \in instants, SeenAt(c), at > Place.begin
          PROVE  SeenAt(c)'
      <3>1. Place.rollback = 0 \/ at' <= Place.rollback => snap' = <<c>>
        BY <1>9, <2>4
      <3> QED
        BY <1>1, <1>9, <2>2, <2>3, <2>4, <3>1, SeenAtKept
    <2>5. at > Place.begin => at' > Place.begin
      BY <1>2, <1>3, <1>9
    <2> QED
      BY <1>4, <1>9, <2>1, <2>2, <2>3, <2>4, <2>5
  <1>10. CASE Moves
    <2>1. /\ Running /\ at' = at + 1 /\ next' = 1
          /\ at \notin {Place.scope, Place.read, Place.again}
          /\ UNCHANGED <<instants, selected, reads>>
          /\ \/ snap' = snap
             \/ FixView
             \/ source = "oracle" /\ at = Place.begin /\ snap' = <<cat>>
      BY <1>10 DEF Moves, Advance, envVars
    <2>2. ASSUME NEW c \in instants, SeenAt(c), at > Place.begin,
                 Place.rollback = 0 \/ at' <= Place.rollback
          PROVE  snap' = <<c>>
      <3>1. snap = <<c>>
        BY <1>2, <1>3, <2>1, <2>2 DEF SeenAt
      <3>2. FixView => snap' = <<c>>
        <4>1. View = c
          BY <3>1 DEF View
        <4> QED
          BY <2>1, <2>2, <4>1, AfterBegin DEF FixView
      <3>3. at # Place.begin
        BY <1>2, <1>3, <2>2
      <3> QED
        BY <2>1, <3>1, <3>2, <3>3
    <2> QED
      BY <1>9, <2>1, <2>2
  <1>11. CASE Failed \/ Ended
    BY <1>11 DEF Failed, Ended, Live
  <1>12. CASE Completes
    <2>1. /\ Running /\ at' = at + 1 /\ next' = 1 /\ at = Place.enforce
          /\ UNCHANGED <<instants, selected, reads, snap>>
      BY <1>12 DEF Completes, envVars
    <2>2. at \notin {Place.scope, Place.read, Place.again}
      BY <1>3, <2>1
    <2>3. ASSUME NEW c \in instants, SeenAt(c), at > Place.begin,
                 Place.rollback = 0 \/ at' <= Place.rollback
          PROVE  snap' = <<c>>
      BY <1>2, <1>3, <2>1, <2>3 DEF SeenAt
    <2> QED
      BY <1>9, <2>1, <2>2, <2>3
  <1>13. CASE SelectScope /\ Running'
    <2>1. /\ Running /\ Step = "scope" /\ Observe /\ FixView
          /\ at' = at + 1 /\ next' = 1
          /\ requested \subseteq View.schemas
          /\ selected' = IF requested = {} THEN View.schemas ELSE requested
      BY <1>13 DEF SelectScope, ScopeExists, Fail, Advance, Running
    <2>2. at = Place.scope /\ at > Place.begin
          /\ (Place.rollback = 0 \/ at <= Place.rollback)
      BY <1>2, <1>3, <2>1 DEF Placed
    <2>3. View \in instants' /\ snap' = <<View>>
      BY <2>1, <2>2, QueriedView
    <2>4. PICK c : c = View
      OBVIOUS
    <2>5. \A q \in Query : ~Ran(Place.read, q)' /\
                           (Place.again # 0 => ~Ran(Place.again, q)')
      BY <1>3, <1>4, <1>5, <2>1, <2>2 DEF RanNext
    <2>6. selected' \subseteq c.schemas /\ requested \subseteq selected'
      BY <2>1, <2>4
    <2>7. SeenAt(c)'
      BY <1>1, <1>4, <2>3, <2>4, <2>5, <2>6 DEF SeenAt
    <2>8. at' > Place.begin
      BY <1>2, <1>3, <2>1, <2>2
    <2> QED
      BY <2>3, <2>4, <2>6, <2>7, <2>8
  <1>14. CASE Sign \/ (ReadFile /\ Running')
    <2>1. Running /\ Step \in {"sign", "sign_again", "read_files"}
      BY <1>14 DEF Sign, ReadFile
    <2>2. source \in {"mysql", "mariadb", "ddl-sqlite"}
      BY <1>2, <2>1 DEF Placed
    <2> QED
      BY <2>2 DEF Snapshotted
  <1>15. CASE Rollback /\ Running /\ Running'
    <2>1. /\ Step = "rollback" /\ at' = at + 1 /\ next' = 1
          /\ UNCHANGED <<instants, selected, reads>>
      BY <1>15 DEF Rollback, Advance, Fail, Running, envVars
    <2>2. at = Place.rollback
      BY <1>2, <1>15, <2>1 DEF Placed
    <2>3. at \notin {Place.scope, Place.read, Place.again}
          /\ ~(Place.rollback = 0 \/ at' <= Place.rollback)
      BY <1>2, <1>3, <2>1, <2>2
    <2> QED
      BY <1>9, <1>15, <2>1, <2>3
  <1>16. CASE Read
    <2>1. /\ Running /\ Step \in {"read", "read_again"} /\ Observe /\ FixView
          /\ NextQuery /\ selected' = selected
          /\ reads' = IF Step = "read"
                      THEN [reads EXCEPT !.first = QueryResult(@)]
                      ELSE [reads EXCEPT !.second = QueryResult(@)]
      BY <1>16 DEF Read
    <2>2. /\ at = Place.read \/ at = Place.again
          /\ at = Place.read <=> Step = "read"
      BY <1>2, <2>1 DEF Placed
    <2>3. at > Place.begin /\ at >= Place.read
          /\ (Place.rollback = 0 \/ at <= Place.rollback)
      BY <1>2, <1>3, <2>2
    <2>4. /\ View \in instants' /\ snap' = <<View>>
          /\ instants # {} => SeenAt(View)
      BY <2>1, <2>3, QueriedView
    <2>5. /\ Ran(Place.read, 1) => instants # {}
          /\ Place.scope # 0 /\ at > Place.scope => instants # {}
          /\ at > Place.scope => requested \subseteq selected
      BY <2>1 DEF SnapshotInv, Live, Running
    <2>6. PICK c : c = View
      OBVIOUS
    <2>7. instants = {} => at = Place.read /\ next = 1 /\ selected = {}
      <3>1. instants = {} => at = Place.read /\ next = 1 /\ Place.scope = 0
        BY <1>2, <1>3, <1>4, <2>2, <2>5 DEF Ran
      <3> QED
        BY <1>3, <3>1 DEF ControlInv
    <2>8. \A p \in Nat, q \in Query :
             RanNext(p, q) <=> Ran(p, q) \/ (p = at /\ q = next)
      BY <1>2, <1>4, <2>1, RanQueried
    <2>9. /\ reads.first \in CatalogState /\ reads.second \in CatalogState
          /\ reads \in [first : CatalogState, second : CatalogState]
          /\ DiscoveryTypeOK
      BY DEF ControlInv, DiscoveryTypeOK
    <2>10. /\ reads'.first = IF at = Place.read THEN QueryResult(reads.first)
                             ELSE reads.first
           /\ reads'.second = IF at = Place.read THEN reads.second
                              ELSE QueryResult(reads.second)
      BY <2>1, <2>2, <2>9
    <2>11. \A raw \in {reads.first, reads.second} :
             /\ QueryResult(raw).schemas =
                   IF next = 1 THEN c.schemas \intersect selected
                   ELSE raw.schemas
             /\ \A q \in Query : QueryResult(raw).rows[q] =
                   IF q = next THEN c.rows[q] ELSE raw.rows[q]
      BY <2>6, <2>9, QueryResultType
    <2>12. ASSUME NEW q \in Query
           PROVE  Ran(Place.read, q)' => reads'.first.rows[q] = c.rows[q]
      <3>1. instants # {} =>
               (Ran(Place.read, q) => reads.first.rows[q] = c.rows[q])
        BY <2>4, <2>6 DEF SeenAt
      <3>2. instants = {} => ~Ran(Place.read, q)
        BY <1>3, <1>4, <2>7 DEF Ran
      <3> QED
        BY <1>3, <1>5, <2>8, <2>10, <2>11, <3>1, <3>2
    <2>13. Ran(Place.read, 1)' =>
             reads'.first.schemas = c.schemas \intersect selected
      <3>1. instants # {} => (Ran(Place.read, 1) =>
               reads.first.schemas = c.schemas \intersect selected)
        BY <2>4, <2>6 DEF SeenAt
      <3>2. instants = {} => ~Ran(Place.read, 1)
        BY <2>5
      <3>3. at = Place.read /\ next # 1 => Ran(Place.read, 1)
        BY <1>4 DEF Ran
      <3> QED
        BY <1>3, <1>4, <1>5, <2>8, <2>10, <2>11, <3>1, <3>2, <3>3
    <2>14. ASSUME Place.again # 0, NEW q \in Query
           PROVE  Ran(Place.again, q)' => reads'.second.rows[q] = c.rows[q]
      <3>1. at = Place.read => ~Ran(Place.again, q)
        BY <1>3, <2>14 DEF Ran
      <3>2. at # Place.read => instants # {}
        BY <2>7
      <3>3. instants # {} =>
               (Ran(Place.again, q) => reads.second.rows[q] = c.rows[q])
        BY <2>4, <2>6, <2>14 DEF SeenAt
      <3>4. at = Place.read => at # Place.again
        BY <1>3, <2>14
      <3> QED
        BY <1>3, <1>5, <2>8, <2>10, <2>11, <3>1, <3>2, <3>3, <3>4
    <2>15. ASSUME Place.again # 0
           PROVE  Ran(Place.again, 1)' =>
                     reads'.second.schemas = c.schemas \intersect selected
      <3>1. at = Place.read => ~Ran(Place.again, 1) /\ at # Place.again
        BY <1>3, <2>15 DEF Ran
      <3>2. at # Place.read => instants # {}
        BY <2>7
      <3>3. instants # {} => (Ran(Place.again, 1) =>
               reads.second.schemas = c.schemas \intersect selected)
        BY <2>4, <2>6, <2>15 DEF SeenAt
      <3>4. at = Place.again /\ next # 1 => Ran(Place.again, 1)
        BY <1>4 DEF Ran
      <3> QED
        BY <1>3, <1>4, <1>5, <2>2, <2>8, <2>10, <2>11, <3>1, <3>2, <3>3, <3>4
    <2>16. at > Place.scope /\ at' > Place.begin
      <3>1. at' \in {at, at + 1}
        BY <2>1 DEF NextQuery, Advance
      <3> QED
        BY <1>2, <1>3, <2>3, <3>1
    <2>17. selected' \subseteq c.schemas
      BY <2>1, <2>4, <2>6, <2>7, <2>16 DEF SeenAt
    <2>18. SeenAt(c)'
      BY <1>1, <2>1, <2>4, <2>6, <2>12, <2>13, <2>14, <2>15, <2>17 DEF SeenAt
    <2> QED
      BY <2>1, <2>4, <2>5, <2>6, <2>16, <2>18
  <1> QED
    BY <1>7, <1>8, <1>10, <1>11, <1>12, <1>13, <1>14, <1>15, <1>16, Kinds

-----------------------------------------------------------------------------
(* Sources without such a snapshot.                                        *)

(* Every query sees the catalog of its instant, and the instant counts.    *)
LEMMA WithoutSnapshot ==
    ASSUME source \notin Snapshotted, snap = <<>>
    PROVE  /\ View = cat
           /\ FixView => snap' = <<>>
           /\ Observe /\ (instants # {} => cat \in instants)
                 => cat \in instants' /\ instants \subseteq instants'
  BY DEF View, FixView, InTransaction, Observe

(* What was seen stays seen when nothing more is read.                     *)
LEMMA SeenKept ==
    ASSUME Place' = Place, instants \subseteq instants',
           UNCHANGED <<sigs, reads, selected>>,
           \A q \in Query : /\ Ran(Place.sign, q)' <=> Ran(Place.sign, q)
                            /\ Ran(Place.read, q)' <=> Ran(Place.read, q)
                            /\ Ran(Place.again, q)' <=> Ran(Place.again, q)
    PROVE  /\ SignedSeen => SignedSeen'
           /\ ReadsSeen => ReadsSeen'
  <1>1. 1 \in Query
    BY DiscoveryAssumption DEF Query
  <1>2. SignedSeen => SignedSeen'
    BY DEF SignedSeen
  <1>3. ReadsSeen => ReadsSeen'
    BY <1>1 DEF ReadsSeen
  <1> QED
    BY <1>2, <1>3

(* The same places in the order of their steps.                            *)
LEMMA LoopPlaces ==
    ASSUME ControlInv
    PROVE  /\ source \in SourceKind /\ at \in Nat /\ at >= 1
           /\ Place.scope \in Nat /\ Place.sign \in Nat /\ Place.read \in Nat
           /\ Place.again \in Nat /\ Place.stable \in Nat
           /\ Place.enforce \in Nat
           /\ Running => Placed(at, Step)
           /\ 1 \in Query /\ next \in Query
           /\ \A q \in Query : q \in Nat /\ q >= 1
           /\ Place.stable < Place.enforce
           /\ source \in Scoped <=> Place.scope # 0
           /\ source \in Signed =>
                 /\ Place.scope = 0
                 /\ 0 < Place.sign /\ Place.sign < Place.read
                 /\ Place.read < Place.again /\ Place.again < Place.stable
           /\ source \in Twice =>
                 /\ Place.sign = 0
                 /\ 0 < Place.scope /\ Place.scope < Place.read
                 /\ Place.read < Place.again /\ Place.again < Place.stable
  <1>1. /\ source \in SourceKind /\ at \in Nat /\ at >= 1
        /\ Running => Placed(at, Step)
    BY AtStep
  <1>2. 1 \in Query /\ next \in Query /\ \A q \in Query : q \in Nat /\ q >= 1
    BY DiscoveryAssumption DEF Query, ControlInv, DiscoveryTypeOK
  <1> HIDE DEF ControlInv
  <1>3. source \in Signed => source \notin Scoped
    BY DEF Signed, Scoped
  <1>4. /\ Place.scope \in Nat /\ Place.sign \in Nat /\ Place.read \in Nat
        /\ Place.again \in Nat /\ Place.stable \in Nat
        /\ Place.enforce \in Nat /\ Place.certify \in Nat
        /\ Place.certify + 1 < Place.enforce /\ Place.stable < Place.certify
        /\ source \in Scoped <=> Place.scope # 0
        /\ source \in Signed =>
              /\ 0 < Place.sign /\ Place.sign < Place.read
              /\ Place.read < Place.again /\ Place.again < Place.stable
        /\ source \in Twice =>
              /\ 0 < Place.scope /\ Place.scope < Place.read
              /\ Place.read < Place.again /\ Place.again < Place.stable
    BY <1>1, PlaceOrder
  <1>5. Place.stable < Place.enforce
    BY <1>4
  <1>6. source \in Twice => Place.sign = 0
    BY DEF Place, Twice
  <1> QED
    BY <1>1, <1>2, <1>3, <1>4, <1>5, <1>6

(* A step without a query, seen from a loop.                               *)
LEMMA NoQuery ==
    ASSUME ControlInv, [Next]_vars, Live', source \notin Snapshotted,
           Ddl \/ Cancel \/ DeadlinePasses \/ Moves \/ Failed \/ Ended
              \/ Completes \/ UNCHANGED vars
    PROVE  /\ Live
           /\ UNCHANGED <<sigs, reads, selected>>
           /\ Place' = Place
           /\ source \in Signed \union Twice => \A q \in Query :
                 /\ Ran(Place.sign, q)' <=> Ran(Place.sign, q)
                 /\ Ran(Place.read, q)' <=> Ran(Place.read, q)
                 /\ Ran(Place.again, q)' <=> Ran(Place.again, q)
           /\ \/ Ddl
              \/ UNCHANGED <<cat, instants>>
           /\ \/ snap' = snap
              \/ FixView
           /\ at' = at \/ at' = at + 1
           /\ at' = at + 1 =>
                 /\ source \in Signed \union Twice =>
                       at \notin {Place.sign, Place.read, Place.again}
                 /\ Moves \/ at = Place.enforce
  <1>1. Place' = Place
    BY Frozen
  <1>2. ASSUME NEW q \in Query
        PROVE  /\ Ran(Place.sign, q)' <=> RanNext(Place.sign, q)
               /\ Ran(Place.read, q)' <=> RanNext(Place.read, q)
               /\ Ran(Place.again, q)' <=> RanNext(Place.again, q)
    BY <1>1, RanPrime
  <1>3. CASE Ddl \/ Cancel \/ DeadlinePasses \/ UNCHANGED vars
    <2>1. /\ UNCHANGED <<at, next, snap, sigs, reads, selected, outcome>>
          /\ Ddl \/ UNCHANGED <<cat, instants>>
      BY <1>3 DEF Ddl, Cancel, DeadlinePasses, vars
    <2>2. at' # at + 1
      BY <2>1, LoopPlaces
    <2>3. Live
      BY <2>1 DEF Live
    <2> QED
      BY <1>1, <1>2, <2>1, <2>2, <2>3 DEF Ran, RanNext
  <1>4. CASE Moves
    <2>1. /\ Running /\ at' = at + 1 /\ next' = 1
          /\ at \notin {Place.sign, Place.read, Place.again}
          /\ UNCHANGED <<cat, instants, sigs, reads, selected>>
          /\ snap' = snap \/ FixView \/ source = "oracle"
      BY <1>4 DEF Moves, Advance, envVars
    <2>2. \A p \in Nat, q \in Query :
              p # at => (RanNext(p, q) <=> Ran(p, q))
      BY <2>1, LoopPlaces, RanMoved
    <2>3. \A q \in Query :
                 /\ Ran(Place.sign, q)' <=> Ran(Place.sign, q)
                 /\ Ran(Place.read, q)' <=> Ran(Place.read, q)
                 /\ Ran(Place.again, q)' <=> Ran(Place.again, q)
      BY <1>2, <2>1, <2>2, LoopPlaces
    <2>4. source # "oracle" /\ Live
      BY <2>1 DEF Snapshotted, Live, Running
    <2> QED
      BY <1>1, <1>4, <2>1, <2>3, <2>4
  <1>5. CASE Completes
    <2>1. /\ Running /\ at' = at + 1 /\ next' = 1 /\ at = Place.enforce
          /\ UNCHANGED <<cat, instants, sigs, reads, selected, snap>>
      BY <1>5 DEF Completes, envVars
    <2>2. \A p \in Nat, q \in Query :
              p # at => (RanNext(p, q) <=> Ran(p, q))
      BY <2>1, LoopPlaces, RanMoved
    <2>3. source \in Signed \union Twice =>
             at \notin {Place.sign, Place.read, Place.again}
      BY <2>1, LoopPlaces
    <2>4. Live
      BY <2>1 DEF Live, Running
    <2>5. source \in Signed \union Twice => \A q \in Query :
                 /\ Ran(Place.sign, q)' <=> Ran(Place.sign, q)
                 /\ Ran(Place.read, q)' <=> Ran(Place.read, q)
                 /\ Ran(Place.again, q)' <=> Ran(Place.again, q)
      BY <1>2, <2>1, <2>2, <2>3, LoopPlaces
    <2> QED
      BY <1>1, <2>1, <2>3, <2>4, <2>5
  <1>6. CASE Failed \/ Ended
    BY <1>6 DEF Failed, Ended, Live
  <1> QED
    BY <1>3, <1>4, <1>5, <1>6

(* What a query of the catalog does to such an analysis.                   *)
LEMMA QuerySeen ==
    ASSUME ControlInv, ObservedInv, source \notin Snapshotted, [Next]_vars,
           \/ SelectScope /\ Running'
           \/ Sign \/ Read
           \/ ReadFile /\ Running'
           \/ Rollback /\ Running /\ Running'
    PROVE  /\ Live /\ Running /\ View = cat /\ snap = <<>> /\ snap' = <<>>
           /\ cat' = cat /\ cat \in instants' /\ instants \subseteq instants'
           /\ ~Rollback
  <1>1. Running /\ Live
    BY QueryFacts DEF Live, Running
  <1>2. snap = <<>> /\ (instants # {} => cat \in instants)
    BY <1>1 DEF ObservedInv
  <1>3. ~Rollback
    <2>1. Rollback => at = Place.rollback
      BY <1>1, AtStep DEF Rollback, Placed
    <2>2. source # "oracle" /\ source \in SourceKind
      BY AtStep DEF Snapshotted
    <2>3. Place.rollback = 0 /\ at # 0
      BY <2>2, AtStep, PlaceOrder
    <2> QED
      BY <2>1, <2>3
  <1>4. Observe
    BY <1>3 DEF SelectScope, Sign, Read, ReadFile, Fail, Running
  <1>5. snap' = <<>>
    <2>1. FixView \/ snap' = snap
      BY <1>3 DEF SelectScope, Sign, Read, ReadFile
    <2> QED
      BY <1>2, <2>1, WithoutSnapshot
  <1> QED
    BY <1>1, <1>2, <1>3, <1>4, <1>5, QueryFacts, WithoutSnapshot

(* A query of a signature.                                                 *)
LEMMA SignEffect ==
    ASSUME ControlInv, ObservedInv, source \notin Snapshotted, [Next]_vars,
           Sign
    PROVE  /\ source \in Signed /\ source \notin Twice
           /\ at = Place.sign \/ at = Place.again
           /\ \A p \in Nat, q \in Query :
                 RanNext(p, q) <=> Ran(p, q) \/ (p = at /\ q = next)
           /\ at' = at \/ (at' = at + 1 /\ next' = 1)
           /\ \A q \in Query :
                 /\ sigs'.before[q] = IF at = Place.sign /\ q = next
                                      THEN cat.rows[q] ELSE sigs.before[q]
                 /\ sigs'.after[q] = IF at # Place.sign /\ q = next
                                     THEN cat.rows[q] ELSE sigs.after[q]
           /\ reads' = reads /\ selected' = selected
  <1>1. Running /\ 1 \in Query /\ next \in Query /\ at \in Nat
    BY QuerySeen, LoopPlaces
  <1>2. /\ NextQuery /\ Step \in {"sign", "sign_again"}
        /\ sigs' = IF Step = "sign"
                   THEN [sigs EXCEPT !.before[next] = cat.rows[next]]
                   ELSE [sigs EXCEPT !.after[next] = cat.rows[next]]
        /\ reads' = reads /\ selected' = selected
    BY DEF Sign
  <1>3. /\ at = Place.sign \/ at = Place.again
        /\ at = Place.sign <=> Step = "sign"
        /\ source \in {"mysql", "mariadb"}
    BY <1>1, <1>2, LoopPlaces DEF Placed
  <1>4. source \in Signed /\ source \notin Twice
    BY <1>3 DEF Signed, Twice
  <1>5. \A p \in Nat, q \in Query :
           RanNext(p, q) <=> Ran(p, q) \/ (p = at /\ q = next)
    BY <1>1, <1>2, RanQueried
  <1>6. sigs \in [before : Rows, after : Rows]
    BY DEF ControlInv, DiscoveryTypeOK
  <1>7. sigs.before \in Rows /\ sigs.after \in Rows
    BY <1>6
  <1>8. \A q \in Query :
           /\ sigs'.before[q] = IF at = Place.sign /\ q = next
                                THEN cat.rows[q] ELSE sigs.before[q]
           /\ sigs'.after[q] = IF at # Place.sign /\ q = next
                               THEN cat.rows[q] ELSE sigs.after[q]
    BY <1>1, <1>2, <1>3, <1>6, <1>7 DEF Rows
  <1>9. at' = at \/ (at' = at + 1 /\ next' = 1)
    BY <1>2 DEF NextQuery, Advance
  <1> QED
    BY <1>2, <1>3, <1>4, <1>5, <1>8, <1>9

(* A query of a read.                                                      *)
LEMMA ReadEffect ==
    ASSUME ControlInv, ObservedInv, source \notin Snapshotted, [Next]_vars,
           Read
    PROVE  /\ at = Place.read \/ at = Place.again
           /\ source \in Signed => at = Place.read
           /\ \A p \in Nat, q \in Query :
                 RanNext(p, q) <=> Ran(p, q) \/ (p = at /\ q = next)
           /\ at' = at \/ (at' = at + 1 /\ next' = 1)
           /\ \A q \in Query :
                 /\ reads'.first.rows[q] = IF at = Place.read /\ q = next
                                           THEN cat.rows[q]
                                           ELSE reads.first.rows[q]
                 /\ reads'.second.rows[q] = IF at # Place.read /\ q = next
                                            THEN cat.rows[q]
                                            ELSE reads.second.rows[q]
           /\ reads'.first.schemas = IF at = Place.read /\ next = 1
                                     THEN cat.schemas \intersect selected
                                     ELSE reads.first.schemas
           /\ reads'.second.schemas = IF at # Place.read /\ next = 1
                                      THEN cat.schemas \intersect selected
                                      ELSE reads.second.schemas
           /\ sigs' = sigs /\ selected' = selected
  <1>1. /\ Running /\ View = cat /\ 1 \in Query /\ next \in Query
        /\ at \in Nat
    BY QuerySeen, LoopPlaces
  <1>2. /\ NextQuery /\ Step \in {"read", "read_again"}
        /\ reads' = IF Step = "read"
                    THEN [reads EXCEPT !.first = QueryResult(@)]
                    ELSE [reads EXCEPT !.second = QueryResult(@)]
        /\ sigs' = sigs /\ selected' = selected
    BY DEF Read
  <1>3. /\ at = Place.read \/ at = Place.again
        /\ at = Place.read <=> Step = "read"
        /\ at = Place.again /\ at # Place.read =>
              source \in {"oracle", "sqlserver", "odbc"}
    BY <1>1, <1>2, LoopPlaces DEF Placed
  <1>4. source \in Signed => at = Place.read
    BY <1>3 DEF Signed
  <1>5. \A p \in Nat, q \in Query :
           RanNext(p, q) <=> Ran(p, q) \/ (p = at /\ q = next)
    BY <1>1, <1>2, RanQueried
  <1>6. /\ reads.first \in CatalogState /\ reads.second \in CatalogState
        /\ reads \in [first : CatalogState, second : CatalogState]
        /\ DiscoveryTypeOK
    BY DEF ControlInv, DiscoveryTypeOK
  <1>7. /\ reads'.first = IF at = Place.read THEN QueryResult(reads.first)
                          ELSE reads.first
        /\ reads'.second = IF at = Place.read THEN reads.second
                           ELSE QueryResult(reads.second)
    BY <1>2, <1>3, <1>6
  <1>8. \A raw \in {reads.first, reads.second} :
           /\ QueryResult(raw).schemas =
                 IF next = 1 THEN cat.schemas \intersect selected
                 ELSE raw.schemas
           /\ \A q \in Query : QueryResult(raw).rows[q] =
                 IF q = next THEN cat.rows[q] ELSE raw.rows[q]
    BY <1>1, <1>6, QueryResultType
  <1>9. at' = at \/ (at' = at + 1 /\ next' = 1)
    BY <1>2 DEF NextQuery, Advance
  <1> QED
    BY <1>2, <1>3, <1>4, <1>5, <1>7, <1>8, <1>9

(* Every step keeps it.                                                    *)
LEMMA NextObserved ==
    ControlInv /\ ObservedInv /\ [Next]_vars => ObservedInv'
  <1> SUFFICES ASSUME ControlInv, ObservedInv, [Next]_vars PROVE ObservedInv'
    OBVIOUS
  <1>1. source' = source /\ Place' = Place
    BY Frozen
  <1> SUFFICES ASSUME source \notin Snapshotted, Live'
               PROVE  /\ snap' = <<>>
                      /\ instants' # {} => cat' \in instants'
                      /\ source \in Signed => SignedSeen'
                      /\ source \in Twice => ReadsSeen'
    BY <1>1 DEF ObservedInv
  <1>2. /\ source \in SourceKind /\ at \in Nat /\ at >= 1
        /\ Place.scope \in Nat /\ Place.sign \in Nat /\ Place.read \in Nat
        /\ Place.again \in Nat
        /\ Running => Placed(at, Step)
        /\ 1 \in Query /\ next \in Query
        /\ \A q \in Query : q \in Nat /\ q >= 1
        /\ source \in Scoped <=> Place.scope # 0
        /\ source \in Signed =>
              /\ Place.scope = 0 /\ 0 < Place.sign /\ Place.sign < Place.read
              /\ Place.read < Place.again
        /\ source \in Twice =>
              /\ Place.sign = 0
              /\ 0 < Place.scope /\ Place.scope < Place.read
              /\ Place.read < Place.again
    BY LoopPlaces
  <1>3. \A q \in Query :
            /\ Ran(Place.sign, q)' <=> RanNext(Place.sign, q)
            /\ Ran(Place.read, q)' <=> RanNext(Place.read, q)
            /\ Ran(Place.again, q)' <=> RanNext(Place.again, q)
    BY <1>1, RanPrime
  <1>4. CASE Ddl \/ Cancel \/ DeadlinePasses \/ Moves \/ Failed \/ Ended
              \/ Completes \/ UNCHANGED vars
    <2>1. /\ Live
          /\ UNCHANGED <<sigs, reads, selected>>
          /\ source \in Signed \union Twice => \A q \in Query :
                 /\ Ran(Place.sign, q)' <=> Ran(Place.sign, q)
                 /\ Ran(Place.read, q)' <=> Ran(Place.read, q)
                 /\ Ran(Place.again, q)' <=> Ran(Place.again, q)
          /\ Ddl \/ UNCHANGED <<cat, instants>>
          /\ snap' = snap \/ FixView
      BY <1>4, NoQuery
    <2>2. /\ snap = <<>> /\ (instants # {} => cat \in instants)
          /\ source \in Signed => SignedSeen
          /\ source \in Twice => ReadsSeen
      BY <2>1 DEF ObservedInv
    <2>3. snap' = <<>>
      BY <2>1, <2>2, WithoutSnapshot
    <2>4. instants \subseteq instants' /\ (instants' # {} => cat' \in instants')
      BY <2>1, <2>2, DdlEffect
    <2> QED
      BY <1>1, <2>1, <2>2, <2>3, <2>4, SeenKept
  <1>5. CASE SelectScope /\ Running'
    <2>1. snap' = <<>> /\ cat' = cat /\ cat \in instants' /\ Running
      BY <1>5, QuerySeen
    <2>2. at' = at + 1 /\ next' = 1 /\ Step = "scope"
      BY <1>5 DEF SelectScope, Advance, Fail, Running
    <2>3. at = Place.scope
      BY <1>2, <2>1, <2>2 DEF Placed
    <2>4. source \notin Signed
      BY <1>2, <2>3
    <2>5. source \in Twice => \A q \in Query :
             ~Ran(Place.read, q)' /\ ~Ran(Place.again, q)'
      BY <1>2, <1>3, <2>2, <2>3 DEF RanNext
    <2>6. source \in Twice => ReadsSeen'
      BY <1>2, <2>5 DEF ReadsSeen
    <2> QED
      BY <2>1, <2>4, <2>6
  <1>6. CASE Sign
    <2>1. snap' = <<>> /\ cat' = cat /\ cat \in instants' /\ Live
          /\ instants \subseteq instants'
      BY <1>6, QuerySeen
    <2>2. source \in Signed /\ source \notin Twice /\ SignedSeen
      BY <1>6, <2>1, SignEffect DEF ObservedInv
    <2>3. SignedSeen'
      <3> SUFFICES ASSUME NEW q \in Query
                   PROVE  /\ Ran(Place.sign, q)' =>
                              \E c \in instants' : c.rows[q] = sigs'.before[q]
                          /\ Ran(Place.again, q)' =>
                              \E c \in instants' : c.rows[q] = sigs'.after[q]
        BY DEF SignedSeen
      <3>1. /\ Ran(Place.sign, q) =>
                  \E c \in instants : c.rows[q] = sigs.before[q]
            /\ Ran(Place.again, q) =>
                  \E c \in instants : c.rows[q] = sigs.after[q]
        BY <2>2 DEF SignedSeen
      <3>2. Place.sign # Place.again
        BY <1>2, <2>2
      <3> QED
        BY <1>2, <1>3, <1>6, <2>1, <3>1, <3>2, SignEffect
    <2> QED
      BY <2>1, <2>2, <2>3
  <1>7. CASE Read
    <2>1. snap' = <<>> /\ cat' = cat /\ cat \in instants' /\ Live
          /\ instants \subseteq instants'
      BY <1>7, QuerySeen
    <2>2. ASSUME source \in Signed PROVE SignedSeen'
      <3>1. SignedSeen
        BY <2>1, <2>2 DEF ObservedInv
      <3>2. Place.sign # at /\ Place.again # at /\ sigs' = sigs
        BY <1>2, <1>7, <2>2, ReadEffect
      <3>3. \A q \in Query : /\ Ran(Place.sign, q)' <=> Ran(Place.sign, q)
                             /\ Ran(Place.again, q)' <=> Ran(Place.again, q)
        BY <1>2, <1>3, <1>7, <3>2, ReadEffect
      <3> QED
        BY <2>1, <3>1, <3>2, <3>3 DEF SignedSeen
    <2>3. ASSUME source \in Twice PROVE ReadsSeen'
      <3>1. ReadsSeen
        BY <2>1, <2>3 DEF ObservedInv
      <3>2. Place.read # Place.again
        BY <1>2, <2>3
      <3>3. ASSUME NEW q \in Query
            PROVE  /\ Ran(Place.read, q)' => \E c \in instants' :
                         c.rows[q] = reads'.first.rows[q]
                   /\ Ran(Place.again, q)' => \E c \in instants' :
                         c.rows[q] = reads'.second.rows[q]
        <4>1. /\ Ran(Place.read, q) =>
                    \E c \in instants : c.rows[q] = reads.first.rows[q]
              /\ Ran(Place.again, q) =>
                    \E c \in instants : c.rows[q] = reads.second.rows[q]
          BY <3>1 DEF ReadsSeen
        <4> QED
          BY <1>2, <1>3, <1>7, <2>1, <3>2, <4>1, ReadEffect
      <3>4. /\ Ran(Place.read, 1)' => \E c \in instants' :
                  reads'.first.schemas = c.schemas \intersect selected'
            /\ Ran(Place.again, 1)' => \E c \in instants' :
                  reads'.second.schemas = c.schemas \intersect selected'
        <4>1. /\ Ran(Place.read, 1) => \E c \in instants :
                    reads.first.schemas = c.schemas \intersect selected
              /\ Ran(Place.again, 1) => \E c \in instants :
                    reads.second.schemas = c.schemas \intersect selected
          BY <3>1 DEF ReadsSeen
        <4>2. next # 1 => /\ at = Place.read => Ran(Place.read, 1)
                          /\ at = Place.again => Ran(Place.again, 1)
          BY <1>2 DEF Ran
        <4> QED
          BY <1>2, <1>3, <1>7, <2>1, <3>2, <4>1, <4>2, ReadEffect
      <3> QED
        BY <3>3, <3>4 DEF ReadsSeen
    <2> QED
      BY <2>1, <2>2, <2>3
  <1>8. CASE ReadFile /\ Running'
    <2>1. snap' = <<>> /\ cat' = cat /\ cat \in instants' /\ Running
      BY <1>8, QuerySeen
    <2>2. source = "ddl-sqlite"
      BY <1>2, <1>8, <2>1 DEF ReadFile, Placed
    <2> QED
      BY <2>1, <2>2 DEF Signed, Twice
  <1>9. CASE Rollback /\ Running /\ Running'
    BY <1>9, QuerySeen
  <1> QED
    BY <1>4, <1>5, <1>6, <1>7, <1>8, <1>9, Kinds

(* Versions are numbers.                                                   *)
LEMMA Versions ==
    ASSUME ControlInv, NEW q \in Query
    PROVE  /\ cat.rows[q] \in Nat
           /\ sigs.before[q] \in Nat /\ sigs.after[q] \in Nat
           /\ reads.first.rows[q] \in Nat /\ reads.second.rows[q] \in Nat
           /\ \A c \in instants : c.rows[q] \in Nat
  <1>1. MaxDdl \in Nat /\ \A r \in Rows : r[q] \in Nat
    BY DiscoveryAssumption DEF Rows
  <1>2. /\ cat.rows \in Rows /\ sigs.before \in Rows /\ sigs.after \in Rows
        /\ reads.first.rows \in Rows /\ reads.second.rows \in Rows
        /\ \A c \in instants : c.rows \in Rows
    BY DEF ControlInv, DiscoveryTypeOK, CatalogState
  <1> QED
    BY <1>1, <1>2

(* A step without a query finds newer versions, if it finds others, where  *)
(* no statement restores an earlier catalog.                               *)
LEMMA NewerVersions ==
    ASSUME ControlInv, Ddl \/ UNCHANGED <<cat, instants>>,
           source \notin Reuse
    PROVE  /\ \A q \in Query : /\ cat'.rows[q] \in Nat
                               /\ cat.rows[q] <= cat'.rows[q]
           /\ cat'.schemas \subseteq cat.schemas
           /\ instants \subseteq instants'
  <1>1. CASE Ddl
    <2>1. /\ cat' \in CatalogState /\ cat'.schemas \subseteq cat.schemas
          /\ \A q \in Query : cat.rows[q] <= cat'.rows[q]
          /\ instants \subseteq instants'
      BY <1>1, DdlEffect
    <2>2. cat'.rows \in Rows
      BY <2>1 DEF CatalogState
    <2>3. \A q \in Query : cat'.rows[q] \in Nat
      BY <2>2, DiscoveryAssumption DEF Rows
    <2> QED
      BY <2>1, <2>3
  <1>2. CASE UNCHANGED <<cat, instants>>
    BY <1>2, Versions
  <1> QED
    BY <1>1, <1>2

(* Every step keeps the order of signature, read and signature.            *)
LEMMA NextSigned ==
    ControlInv /\ ObservedInv /\ SignedInv /\ [Next]_vars => SignedInv'
  <1> SUFFICES ASSUME ControlInv, ObservedInv, SignedInv, [Next]_vars
               PROVE  SignedInv'
    OBVIOUS
  <1>1. source' = source /\ Place' = Place
    BY Frozen
  <1> SUFFICES ASSUME source \in Signed \ Reuse, Live'
               PROVE  /\ reads'.first.schemas = {}
                      /\ \A q \in Query :
                            /\ Ran(Place.sign, q)' =>
                                  sigs'.before[q] <= cat'.rows[q]
                            /\ Ran(Place.read, q)' =>
                                  reads'.first.rows[q] <= cat'.rows[q]
                            /\ Ran(Place.again, q)' =>
                                  reads'.first.rows[q] <= sigs'.after[q]
                      /\ at' > Place.sign =>
                            \E c \in instants' : SignedAround(c)'
                      /\ at' > Place.stable => sigs'.before = sigs'.after
    BY <1>1 DEF SignedInv
  <1>2. /\ source \in SourceKind /\ at \in Nat /\ at >= 1
        /\ Place.sign \in Nat /\ Place.read \in Nat /\ Place.again \in Nat
        /\ Place.stable \in Nat /\ Place.enforce \in Nat
        /\ Place.stable < Place.enforce
        /\ Place.scope = 0 /\ 0 < Place.sign /\ Place.sign < Place.read
        /\ Place.read < Place.again /\ Place.again < Place.stable
        /\ Running => Placed(at, Step)
        /\ 1 \in Query /\ next \in Query
        /\ \A q \in Query : q \in Nat /\ q >= 1
    BY LoopPlaces
  <1>3. /\ source \notin Snapshotted /\ source \notin Twice
        /\ source \notin Scoped /\ selected = {}
    BY DEF Signed, Snapshotted, Twice, Scoped, ControlInv
  <1>4. \A q \in Query :
            /\ Ran(Place.sign, q)' <=> RanNext(Place.sign, q)
            /\ Ran(Place.read, q)' <=> RanNext(Place.read, q)
            /\ Ran(Place.again, q)' <=> RanNext(Place.again, q)
    BY <1>1, RanPrime
  <1>5. ASSUME Live
        PROVE  /\ reads.first.schemas = {}
               /\ \A q \in Query :
                     /\ Ran(Place.sign, q) => sigs.before[q] <= cat.rows[q]
                     /\ Ran(Place.read, q) =>
                           reads.first.rows[q] <= cat.rows[q]
                     /\ Ran(Place.again, q) =>
                           reads.first.rows[q] <= sigs.after[q]
               /\ at > Place.sign => \E c \in instants : SignedAround(c)
               /\ at > Place.stable => sigs.before = sigs.after
    BY <1>5 DEF SignedInv
  <1>6. \A q \in Query :
           /\ cat.rows[q] \in Nat
           /\ sigs.before[q] \in Nat /\ sigs.after[q] \in Nat
           /\ reads.first.rows[q] \in Nat
           /\ \A c \in instants : c.rows[q] \in Nat
    BY Versions
  <1>7. CASE Ddl \/ Cancel \/ DeadlinePasses \/ Moves \/ Failed \/ Ended
              \/ Completes \/ UNCHANGED vars
    <2>1. /\ Live
          /\ UNCHANGED <<sigs, reads, selected>>
          /\ \A q \in Query :
                 /\ Ran(Place.sign, q)' <=> Ran(Place.sign, q)
                 /\ Ran(Place.read, q)' <=> Ran(Place.read, q)
                 /\ Ran(Place.again, q)' <=> Ran(Place.again, q)
          /\ Ddl \/ UNCHANGED <<cat, instants>>
          /\ at' = at \/ at' = at + 1
          /\ at' = at + 1 =>
                /\ at \notin {Place.sign, Place.read, Place.again}
                /\ Moves \/ at = Place.enforce
      BY <1>3, <1>7, NoQuery
    <2>2. /\ \A q \in Query : cat'.rows[q] \in Nat /\ cat.rows[q] <= cat'.rows[q]
          /\ instants \subseteq instants'
      BY <2>1, NewerVersions
    <2>3. /\ at' > Place.sign => at > Place.sign
          /\ at' > Place.stable => at > Place.stable \/ (at = Place.stable /\ Moves)
      BY <1>2, <2>1
    <2>4. ASSUME NEW c \in instants, SignedAround(c) PROVE SignedAround(c)'
      BY <1>6, <2>1, <2>2, <2>4 DEF SignedAround
    <2>5. at = Place.stable /\ Moves => sigs.before = sigs.after
      BY DEF Moves
    <2>6. ASSUME NEW q \in Query
          PROVE  /\ Ran(Place.sign, q)' => sigs'.before[q] <= cat'.rows[q]
                 /\ Ran(Place.read, q)' => reads'.first.rows[q] <= cat'.rows[q]
                 /\ Ran(Place.again, q)' => reads'.first.rows[q] <= sigs'.after[q]
      BY <1>5, <1>6, <2>1, <2>2
    <2> QED
      BY <1>5, <2>1, <2>2, <2>3, <2>4, <2>5, <2>6
  <1>8. CASE Sign
    <2>1. cat' = cat /\ cat \in instants' /\ Live /\ instants \subseteq instants'
      BY <1>3, <1>8, QuerySeen
    <2>2. /\ at = Place.sign \/ at = Place.again
          /\ \A p \in Nat, q \in Query :
                RanNext(p, q) <=> Ran(p, q) \/ (p = at /\ q = next)
          /\ at' = at \/ (at' = at + 1 /\ next' = 1)
          /\ \A q \in Query :
                /\ sigs'.before[q] = IF at = Place.sign /\ q = next
                                     THEN cat.rows[q] ELSE sigs.before[q]
                /\ sigs'.after[q] = IF at # Place.sign /\ q = next
                                    THEN cat.rows[q] ELSE sigs.after[q]
          /\ reads' = reads /\ selected' = selected
      BY <1>3, <1>8, SignEffect
    <2>3. at' <= Place.stable
      BY <1>2, <2>2
    <2>4. CASE at = Place.sign
      <3>1. \A q \in Query : ~Ran(Place.read, q)' /\ ~Ran(Place.again, q)'
        BY <1>2, <1>4, <2>2, <2>4 DEF RanNext
      <3>2. ASSUME NEW q \in Query
            PROVE  Ran(Place.sign, q)' => sigs'.before[q] <= cat'.rows[q]
        BY <1>2, <1>4, <1>5, <1>6, <2>1, <2>2, <2>4
      <3>3. ASSUME at' > Place.sign PROVE \E c \in instants' : SignedAround(c)'
        <4>1. PICK c : c = cat
          OBVIOUS
        <4>2. \A q \in Query : Ran(Place.sign, q)'
          BY <1>4, <3>3 DEF RanNext
        <4>3. SignedAround(c)'
          BY <1>6, <2>1, <3>1, <3>2, <4>1, <4>2 DEF SignedAround
        <4> QED
          BY <2>1, <4>1, <4>3
      <3> QED
        BY <1>2, <1>5, <2>1, <2>2, <2>3, <3>1, <3>2, <3>3
    <2>5. CASE at = Place.again
      <3>1. at # Place.sign /\ at # Place.read
        BY <1>2, <2>5
      <3>2. \A q \in Query : /\ Ran(Place.sign, q)' <=> Ran(Place.sign, q)
                             /\ Ran(Place.read, q)' <=> Ran(Place.read, q)
                             /\ Ran(Place.read, q)
        BY <1>2, <1>4, <2>2, <2>5, <3>1 DEF Ran
      <3>3. ASSUME NEW q \in Query
            PROVE  /\ Ran(Place.sign, q)' => sigs'.before[q] <= cat'.rows[q]
                   /\ Ran(Place.read, q)' =>
                         reads'.first.rows[q] <= cat'.rows[q]
                   /\ Ran(Place.again, q)' =>
                         reads'.first.rows[q] <= sigs'.after[q]
        BY <1>2, <1>4, <1>5, <2>1, <2>2, <2>5, <3>1, <3>2
      <3>4. \E c \in instants : SignedAround(c)
        BY <1>2, <1>5, <2>1, <2>5
      <3>5. ASSUME NEW c \in instants, SignedAround(c) PROVE SignedAround(c)'
        BY <2>1, <2>2, <3>1, <3>2, <3>5 DEF SignedAround
      <3> QED
        BY <1>2, <1>5, <2>1, <2>2, <2>3, <3>3, <3>4, <3>5
    <2> QED
      BY <2>2, <2>4, <2>5
  <1>9. CASE Read
    <2>1. cat' = cat /\ cat \in instants' /\ Live /\ instants \subseteq instants'
      BY <1>3, <1>9, QuerySeen
    <2>2. /\ at = Place.read
          /\ \A p \in Nat, q \in Query :
                RanNext(p, q) <=> Ran(p, q) \/ (p = at /\ q = next)
          /\ at' = at \/ (at' = at + 1 /\ next' = 1)
          /\ \A q \in Query : reads'.first.rows[q] =
                IF q = next THEN cat.rows[q] ELSE reads.first.rows[q]
          /\ reads'.first.schemas = IF next = 1
                                    THEN cat.schemas \intersect selected
                                    ELSE reads.first.schemas
          /\ sigs' = sigs
      BY <1>3, <1>9, ReadEffect
    <2>3. ~(at' > Place.stable) /\ reads'.first.schemas = {}
      BY <1>2, <1>3, <1>5, <2>1, <2>2
    <2>4. \A q \in Query : ~Ran(Place.again, q)'
                           /\ (Ran(Place.sign, q)' <=> Ran(Place.sign, q))
      <3>1. \A q \in Query : ~Ran(Place.again, q)'
        BY <1>2, <1>4, <2>2 DEF RanNext
      <3>2. Place.sign # at
        BY <1>2, <2>2
      <3> QED
        BY <1>2, <1>4, <2>2, <3>1, <3>2
    <2>5. ASSUME NEW q \in Query
          PROVE  /\ Ran(Place.sign, q)' => sigs'.before[q] <= cat'.rows[q]
                 /\ Ran(Place.read, q)' =>
                       reads'.first.rows[q] <= cat'.rows[q]
      BY <1>2, <1>4, <1>5, <1>6, <2>1, <2>2, <2>4
    <2>6. PICK c \in instants : SignedAround(c)
      BY <1>2, <1>5, <2>1, <2>2
    <2>7. SignedAround(c)'
      <3> SUFFICES ASSUME NEW q \in Query
                   PROVE  /\ sigs'.before[q] <= c.rows[q]
                          /\ c.rows[q] <= cat'.rows[q]
                          /\ Ran(Place.read, q)' =>
                                c.rows[q] <= reads'.first.rows[q]
        BY DEF SignedAround
      <3>1. /\ sigs.before[q] <= c.rows[q]
            /\ c.rows[q] <= cat.rows[q]
            /\ Ran(Place.read, q) => c.rows[q] <= reads.first.rows[q]
        BY <2>6 DEF SignedAround
      <3> QED
        BY <1>2, <1>4, <2>1, <2>2, <3>1
    <2> QED
      BY <2>1, <2>3, <2>4, <2>5, <2>6, <2>7
  <1>10. CASE \/ SelectScope /\ Running'
              \/ ReadFile /\ Running'
              \/ Rollback /\ Running /\ Running'
    <2>1. ~Rollback /\ Running
      BY <1>3, <1>10, QuerySeen
    <2>2. Step \in {"scope", "read_files"}
      BY <1>10, <2>1 DEF SelectScope, ReadFile
    <2>3. at = Place.scope \/ source = "ddl-sqlite"
      BY <1>2, <2>1, <2>2 DEF Placed
    <2> QED
      BY <1>2, <2>3 DEF Signed
  <1> QED
    BY <1>7, <1>8, <1>9, <1>10, Kinds

(* Every step keeps the order of the two reads.                            *)
LEMMA NextTwice ==
    ControlInv /\ ObservedInv /\ TwiceInv /\ [Next]_vars => TwiceInv'
  <1> SUFFICES ASSUME ControlInv, ObservedInv, TwiceInv, [Next]_vars
               PROVE  TwiceInv'
    OBVIOUS
  <1>1. source' = source /\ Place' = Place
    BY Frozen
  <1> SUFFICES ASSUME source \in Twice \ Reuse, Live'
               PROVE  /\ \A q \in Query : Ran(Place.read, q)' =>
                            reads'.first.rows[q] <= cat'.rows[q]
                      /\ Ran(Place.read, 1)' =>
                            cat'.schemas \intersect selected'
                               \subseteq reads'.first.schemas
                      /\ at' > Place.read =>
                            \E c \in instants' : ReadAround(c)'
                      /\ at' > Place.stable => reads'.first = reads'.second
    BY <1>1 DEF TwiceInv
  <1>2. /\ source \in SourceKind /\ at \in Nat /\ at >= 1
        /\ Place.scope \in Nat /\ Place.read \in Nat /\ Place.again \in Nat
        /\ Place.stable \in Nat /\ Place.enforce \in Nat
        /\ Place.stable < Place.enforce /\ Place.scope < Place.read
        /\ Place.read < Place.again /\ Place.again < Place.stable
        /\ Running => Placed(at, Step)
        /\ 1 \in Query /\ next \in Query
        /\ \A q \in Query : q \in Nat /\ q >= 1
    BY LoopPlaces
  <1>3. source \notin Snapshotted /\ source \notin Signed
    BY DEF Signed, Snapshotted, Twice
  <1>4. \A q \in Query :
            /\ Ran(Place.read, q)' <=> RanNext(Place.read, q)
            /\ Ran(Place.again, q)' <=> RanNext(Place.again, q)
    BY <1>1, RanPrime
  <1>5. ASSUME Live
        PROVE  /\ \A q \in Query : Ran(Place.read, q) =>
                     reads.first.rows[q] <= cat.rows[q]
               /\ Ran(Place.read, 1) =>
                     cat.schemas \intersect selected \subseteq reads.first.schemas
               /\ at > Place.read => \E c \in instants : ReadAround(c)
               /\ at > Place.stable => reads.first = reads.second
    BY <1>5 DEF TwiceInv
  <1>6. \A q \in Query :
           /\ cat.rows[q] \in Nat
           /\ reads.first.rows[q] \in Nat /\ reads.second.rows[q] \in Nat
           /\ \A c \in instants : c.rows[q] \in Nat
    BY Versions
  <1>7. CASE Ddl \/ Cancel \/ DeadlinePasses \/ Moves \/ Failed \/ Ended
              \/ Completes \/ UNCHANGED vars
    <2>1. /\ Live
          /\ UNCHANGED <<sigs, reads, selected>>
          /\ \A q \in Query :
                 /\ Ran(Place.read, q)' <=> Ran(Place.read, q)
                 /\ Ran(Place.again, q)' <=> Ran(Place.again, q)
          /\ Ddl \/ UNCHANGED <<cat, instants>>
          /\ at' = at \/ at' = at + 1
          /\ at' = at + 1 =>
                /\ at \notin {Place.sign, Place.read, Place.again}
                /\ Moves \/ at = Place.enforce
      BY <1>3, <1>7, NoQuery
    <2>2. /\ \A q \in Query : cat'.rows[q] \in Nat /\ cat.rows[q] <= cat'.rows[q]
          /\ cat'.schemas \subseteq cat.schemas
          /\ instants \subseteq instants'
      BY <2>1, NewerVersions
    <2>3. /\ at' > Place.read => at > Place.read
          /\ at' > Place.stable => at > Place.stable \/ (at = Place.stable /\ Moves)
      BY <1>2, <2>1
    <2>4. ASSUME NEW c \in instants, ReadAround(c) PROVE ReadAround(c)'
      <3>1. ASSUME NEW q \in Query
            PROVE  /\ reads'.first.rows[q] <= c.rows[q]
                   /\ c.rows[q] <= cat'.rows[q]
                   /\ Ran(Place.again, q)' => c.rows[q] <= reads'.second.rows[q]
        BY <1>6, <2>1, <2>2, <2>4 DEF ReadAround
      <3>2. /\ cat'.schemas \subseteq c.schemas
            /\ c.schemas \intersect selected' \subseteq reads'.first.schemas
            /\ Ran(Place.again, 1)' =>
                  reads'.second.schemas \subseteq c.schemas \intersect selected'
        BY <1>2, <2>1, <2>2, <2>4 DEF ReadAround
      <3> QED
        BY <3>1, <3>2 DEF ReadAround
    <2>5. at = Place.stable /\ Moves => reads.first = reads.second
      BY <1>3 DEF Moves
    <2>6. ASSUME NEW q \in Query
          PROVE  Ran(Place.read, q)' => reads'.first.rows[q] <= cat'.rows[q]
      BY <1>5, <1>6, <2>1, <2>2
    <2>7. Ran(Place.read, 1)' =>
             cat'.schemas \intersect selected' \subseteq reads'.first.schemas
      BY <1>2, <1>5, <2>1, <2>2
    <2> QED
      BY <1>5, <2>1, <2>2, <2>3, <2>4, <2>5, <2>6, <2>7
  <1>8. CASE SelectScope /\ Running'
    <2>1. Running /\ Step = "scope" /\ at' = at + 1 /\ next' = 1
      BY <1>8 DEF SelectScope, Advance, Fail, Running
    <2>2. at = Place.scope
      BY <1>2, <2>1 DEF Placed
    <2>3. \A q \in Query : ~Ran(Place.read, q)'
      BY <1>2, <1>4, <2>1, <2>2 DEF RanNext
    <2>4. ~(at' > Place.read) /\ ~(at' > Place.stable)
      BY <1>2, <2>1, <2>2
    <2> QED
      BY <1>2, <2>3, <2>4
  <1>9. CASE Read
    <2>1. cat' = cat /\ cat \in instants' /\ Live /\ instants \subseteq instants'
      BY <1>3, <1>9, QuerySeen
    <2>2. /\ at = Place.read \/ at = Place.again
          /\ \A p \in Nat, q \in Query :
                RanNext(p, q) <=> Ran(p, q) \/ (p = at /\ q = next)
          /\ at' = at \/ (at' = at + 1 /\ next' = 1)
          /\ selected' = selected
      BY <1>3, <1>9, ReadEffect
    <2>3. \A q \in Query :
             /\ reads'.first.rows[q] = IF at = Place.read /\ q = next
                                       THEN cat.rows[q]
                                       ELSE reads.first.rows[q]
             /\ reads'.second.rows[q] = IF at # Place.read /\ q = next
                                        THEN cat.rows[q]
                                        ELSE reads.second.rows[q]
      BY <1>3, <1>9, ReadEffect
    <2>4. /\ reads'.first.schemas = IF at = Place.read /\ next = 1
                                    THEN cat.schemas \intersect selected
                                    ELSE reads.first.schemas
          /\ reads'.second.schemas = IF at # Place.read /\ next = 1
                                     THEN cat.schemas \intersect selected
                                     ELSE reads.second.schemas
      BY <1>3, <1>9, ReadEffect
    <2>5. ~(at' > Place.stable)
      BY <1>2, <2>2
    <2>6. ASSUME NEW q \in Query
          PROVE  Ran(Place.read, q)' => reads'.first.rows[q] <= cat'.rows[q]
      BY <1>2, <1>4, <1>5, <1>6, <2>1, <2>2, <2>3
    <2>7. Ran(Place.read, 1)' =>
             cat'.schemas \intersect selected' \subseteq reads'.first.schemas
      <3>1. at = Place.read /\ next # 1 => Ran(Place.read, 1)
        BY <1>2 DEF Ran
      <3> QED
        BY <1>2, <1>4, <1>5, <2>1, <2>2, <2>4, <3>1
    <2>8. ASSUME at = Place.read, at' > Place.read
          PROVE  \E c \in instants' : ReadAround(c)'
      <3>1. PICK c : c = cat
        OBVIOUS
      <3>2. \A q \in Query : Ran(Place.read, q)' /\ ~Ran(Place.again, q)'
        BY <1>2, <1>4, <2>2, <2>8 DEF RanNext
      <3>3. \A q \in Query : /\ reads'.first.rows[q] <= c.rows[q]
                             /\ c.rows[q] <= cat'.rows[q]
        BY <1>6, <2>1, <2>6, <3>1, <3>2
      <3>4. /\ cat'.schemas \subseteq c.schemas
            /\ c.schemas \intersect selected' \subseteq reads'.first.schemas
        BY <1>2, <2>1, <2>7, <3>1, <3>2
      <3>5. ReadAround(c)'
        BY <1>2, <3>2, <3>3, <3>4 DEF ReadAround
      <3> QED
        BY <2>1, <3>1, <3>5
    <2>9. ASSUME at = Place.again PROVE \E c \in instants' : ReadAround(c)'
      <3>1. PICK c \in instants : ReadAround(c)
        BY <1>2, <1>5, <2>1, <2>9
      <3>2. at # Place.read
        BY <1>2, <2>9
      <3>3. ASSUME NEW q \in Query
            PROVE  /\ reads'.first.rows[q] <= c.rows[q]
                   /\ c.rows[q] <= cat'.rows[q]
                   /\ Ran(Place.again, q)' => c.rows[q] <= reads'.second.rows[q]
        <4>1. /\ reads.first.rows[q] <= c.rows[q]
              /\ c.rows[q] <= cat.rows[q]
              /\ Ran(Place.again, q) => c.rows[q] <= reads.second.rows[q]
          BY <3>1 DEF ReadAround
        <4> QED
          BY <1>2, <1>4, <2>1, <2>2, <2>3, <3>2, <4>1
      <3>4. /\ cat'.schemas \subseteq c.schemas
            /\ c.schemas \intersect selected' \subseteq reads'.first.schemas
        BY <2>1, <2>2, <2>4, <3>1, <3>2 DEF ReadAround
      <3>5. Ran(Place.again, 1)' =>
               reads'.second.schemas \subseteq c.schemas \intersect selected'
        <4>1. next # 1 => Ran(Place.again, 1)
          BY <1>2, <2>9 DEF Ran
        <4>2. /\ cat.schemas \subseteq c.schemas
              /\ Ran(Place.again, 1) =>
                    reads.second.schemas \subseteq c.schemas \intersect selected
          BY <3>1 DEF ReadAround
        <4> QED
          BY <2>2, <2>4, <3>2, <4>1, <4>2
      <3>6. ReadAround(c)'
        BY <3>3, <3>4, <3>5 DEF ReadAround
      <3> QED
        BY <2>1, <3>1, <3>6
    <2> QED
      BY <2>2, <2>5, <2>6, <2>7, <2>8, <2>9
  <1>10. CASE Sign \/ (ReadFile /\ Running')
                \/ (Rollback /\ Running /\ Running')
    <2>1. ~Rollback /\ Running
      BY <1>3, <1>10, QuerySeen
    <2>2. Step \in {"sign", "sign_again", "read_files"}
      BY <1>10, <2>1 DEF Sign, ReadFile
    <2>3. source \in {"mysql", "mariadb", "ddl-sqlite"}
      BY <1>2, <2>1, <2>2 DEF Placed
    <2> QED
      BY <2>3 DEF Twice
  <1>11. \/ Ddl \/ Cancel \/ DeadlinePasses \/ Moves \/ Failed \/ Ended
         \/ Completes \/ UNCHANGED vars
         \/ (SelectScope /\ Running') \/ Read
         \/ Sign \/ (ReadFile /\ Running')
         \/ (Rollback /\ Running /\ Running')
    BY Kinds
  <1> QED
    BY <1>7, <1>8, <1>9, <1>10, <1>11

-----------------------------------------------------------------------------
(* The causes of failures.                                                 *)

(* Two members make more than one.                                         *)
LEMMA TwoMembers ==
    ASSUME NEW S, IsFiniteSet(S), NEW a \in S, NEW b \in S, a # b
    PROVE  Cardinality(S) > 1
  <1>1. IsFiniteSet({a}) /\ Cardinality({a}) = 1
    BY FS_Singleton
  <1>2. b \notin {a} /\ {a} \union {b} \subseteq S
    OBVIOUS
  <1>3. Cardinality({a} \union {b}) = 2
    BY <1>1, <1>2, FS_AddElement
  <1>4. Cardinality({a} \union {b}) <= Cardinality(S)
    BY <1>2, FS_Subset
  <1>5. Cardinality(S) \in Nat
    BY FS_CardinalityType
  <1> QED
    BY <1>3, <1>4, <1>5

(* Reads that differ differ in a query, or in the schemas.                 *)
LEMMA Differences ==
    ASSUME ControlInv
    PROVE  /\ sigs.before # sigs.after =>
                 \E q \in Query : sigs.before[q] # sigs.after[q]
           /\ reads.first # reads.second =>
                 \/ \E q \in Query :
                       reads.first.rows[q] # reads.second.rows[q]
                 \/ reads.first.schemas # reads.second.schemas
  <1>1. sigs.before \in Rows /\ sigs.after \in Rows
    BY DEF ControlInv, DiscoveryTypeOK
  <1>2. reads.first \in CatalogState /\ reads.second \in CatalogState
    BY DEF ControlInv, DiscoveryTypeOK
  <1>3. \A r, s \in Rows : (\A q \in Query : r[q] = s[q]) => r = s
    BY DEF Rows
  <1>4. reads.first.rows \in Rows /\ reads.second.rows \in Rows
    BY <1>2 DEF CatalogState
  <1>5. reads.first.rows = reads.second.rows
           /\ reads.first.schemas = reads.second.schemas
        => reads.first = reads.second
    BY <1>2 DEF CatalogState
  <1> QED
    BY <1>1, <1>3, <1>4, <1>5

(* The two reads of an Oracle snapshot are equal.                          *)
LEMMA SnapshotIsStable ==
    ASSUME ControlInv, SnapshotInv, Running, source = "oracle",
           at = Place.stable
    PROVE  reads.first = reads.second
  <1>1. /\ Place.read = 14 /\ Place.again = 16 /\ Place.stable = 17
        /\ source \in Snapshotted
    BY DEF Place, Snapshotted
  <1>2. 1 \in Query
    BY LoopPlaces
  <1>3. \A q \in Query : Ran(Place.read, q) /\ Ran(Place.again, q)
    BY <1>1 DEF Ran
  <1>4. PICK c \in instants : SeenAt(c)
    BY <1>1, <1>2, <1>3 DEF SnapshotInv, Live, Running
  <1>5. /\ \A q \in Query : reads.first.rows[q] = c.rows[q]
        /\ \A q \in Query : reads.second.rows[q] = c.rows[q]
        /\ reads.first.schemas = c.schemas \intersect selected
        /\ reads.second.schemas = c.schemas \intersect selected
    <2>1. Place.again # 0
      BY <1>1
    <2> QED
      BY <1>2, <1>3, <1>4, <2>1 DEF SeenAt
  <1> QED
    BY <1>5, Differences

(* A change that is reported is one between two queries.                   *)
LEMMA ChangeWasSeen ==
    ASSUME ControlInv, ObservedInv, Running, at = Place.stable,
           \/ source \in Signed /\ sigs.before # sigs.after
           \/ source \in Twice /\ reads.first # reads.second
    PROVE  Cardinality(instants) > 1 /\ source \notin Snapshotted
  <1>1. source \notin Snapshotted /\ Live
    BY DEF Signed, Twice, Snapshotted, Live, Running
  <1>2. IsFiniteSet(instants)
    BY DEF ControlInv
  <1>3. /\ 1 \in Query
        /\ \A q \in Query : Ran(Place.read, q) /\ Ran(Place.again, q)
                            /\ (source \in Signed => Ran(Place.sign, q))
    BY LoopPlaces DEF Ran
  <1>4. CASE source \in Signed /\ sigs.before # sigs.after
    <2>1. SignedSeen
      BY <1>1, <1>4 DEF ObservedInv
    <2>2. PICK q \in Query : sigs.before[q] # sigs.after[q]
      BY <1>4, Differences
    <2>3. PICK c \in instants : c.rows[q] = sigs.before[q]
      BY <1>3, <1>4, <2>1 DEF SignedSeen
    <2>4. PICK d \in instants : d.rows[q] = sigs.after[q]
      BY <1>3, <1>4, <2>1 DEF SignedSeen
    <2> QED
      BY <1>1, <1>2, <2>2, <2>3, <2>4, TwoMembers
  <1>5. CASE source \in Twice /\ reads.first # reads.second
    <2>1. ReadsSeen
      BY <1>1, <1>5 DEF ObservedInv
    <2>2. ASSUME NEW q \in Query, reads.first.rows[q] # reads.second.rows[q]
          PROVE  Cardinality(instants) > 1
      <3>1. PICK c \in instants : c.rows[q] = reads.first.rows[q]
        BY <1>3, <2>1 DEF ReadsSeen
      <3>2. PICK d \in instants : d.rows[q] = reads.second.rows[q]
        BY <1>3, <2>1 DEF ReadsSeen
      <3> QED
        BY <1>2, <2>2, <3>1, <3>2, TwoMembers
    <2>3. ASSUME reads.first.schemas # reads.second.schemas
          PROVE  Cardinality(instants) > 1
      <3>1. PICK c \in instants :
               reads.first.schemas = c.schemas \intersect selected
        BY <1>3, <2>1 DEF ReadsSeen
      <3>2. PICK d \in instants :
               reads.second.schemas = d.schemas \intersect selected
        BY <1>3, <2>1 DEF ReadsSeen
      <3> QED
        BY <1>2, <2>3, <3>1, <3>2, TwoMembers
    <2> QED
      BY <1>1, <1>5, <2>2, <2>3, Differences
  <1> QED
    BY <1>4, <1>5

(* Every failure is told with its cause, and the cause stays.              *)
LEMMA NextCauses ==
    ControlInv /\ SnapshotInv /\ ObservedInv /\ FailuresNameTheirCause
        /\ [Next]_vars => FailuresNameTheirCause'
  <1> SUFFICES ASSUME ControlInv, SnapshotInv, ObservedInv,
                      FailuresNameTheirCause, [Next]_vars
               PROVE  FailuresNameTheirCause'
    OBVIOUS
  <1>1. source' = source
    BY Frozen
  <1>2. CASE outcome' \in {"running", "complete"}
    BY <1>2 DEF FailuresNameTheirCause
  <1>3. CASE Ddl \/ Cancel \/ DeadlinePasses \/ Moves
    BY <1>2, <1>3 DEF Ddl, Cancel, DeadlinePasses, Moves, Running
  <1>4. CASE Completes
    BY <1>2, <1>4 DEF Completes
  <1>5. CASE \/ SelectScope /\ Running'
             \/ Sign \/ Read
             \/ ReadFile /\ Running'
             \/ Rollback /\ Running /\ Running'
    BY <1>2, <1>5, QueryFacts
  <1>6. CASE Ended \/ UNCHANGED vars
    <2>1. UNCHANGED <<outcome, instants, token, expired>>
      BY <1>6 DEF Ended, vars, envVars
    <2> QED
      BY <1>1, <2>1 DEF FailuresNameTheirCause, Cancelled
  <1>7. CASE Failed
    <2>1. /\ Running /\ token' = token /\ expired' = expired
          /\ outcome' = "cancelled" => Cancelled
          /\ outcome' = "timeout" => expired
      BY <1>7 DEF Failed
    <2>2. ASSUME outcome' = "catalog_changed"
          PROVE  Cardinality(instants') > 1 /\ source \notin Snapshotted
      <3>1. /\ instants' = instants /\ at = Place.stable
            /\ \/ source \in Signed /\ sigs.before # sigs.after
               \/ source \in Twice \union {"oracle"} /\ reads.first # reads.second
        BY <1>7, <2>2 DEF Failed
      <3>2. source = "oracle" => reads.first = reads.second
        BY <2>1, <3>1, SnapshotIsStable
      <3>3. \/ source \in Signed /\ sigs.before # sigs.after
            \/ source \in Twice /\ reads.first # reads.second
        BY <3>1, <3>2 DEF Signed
      <3> QED
        BY <2>1, <3>1, <3>3, ChangeWasSeen
    <2> QED
      BY <1>1, <2>1, <2>2 DEF FailuresNameTheirCause, Cancelled
  <1> QED
    BY <1>3, <1>4, <1>5, <1>6, <1>7, Kinds

-----------------------------------------------------------------------------
(* The invariant is inductive.                                             *)

(* It holds at first.                                                      *)
LEMMA InitInvariant == Init => DiscoveryIInv
  <1> SUFFICES ASSUME Init PROVE DiscoveryIInv
    OBVIOUS
  <1>1. ControlInv
    BY InitControl
  <1>2. /\ source \in SourceKind /\ at = 1 /\ next = 1 /\ 1 \in Query
        /\ instants = {} /\ snap = <<>> /\ outcome = "running"
        /\ token = "active" /\ reads.first.schemas = {}
    BY DiscoveryAssumption DEF Init, Query, NoCatalog
  <1>3. CheckedInv
    <2>1. source \in {"postgres", "yugabytedb", "odbc"} => Place.identify > 1
      BY SMT DEF Place
    <2>2. WrongProduct => source \in {"postgres", "yugabytedb", "odbc"}
      BY DEF WrongProduct
    <2>3. ~(at > Place.certify + 1) /\ (WrongProduct => ~(at > Place.identify))
      BY <1>2, <2>1, <2>2, PlaceOrder
    <2> QED
      BY <1>2, <2>3 DEF CheckedInv
  <1>4. FailuresNameTheirCause
    BY <1>2 DEF FailuresNameTheirCause
  <1>5. SnapshotInv
    <2>1. source \in Snapshotted =>
             /\ Place.read > 1 /\ (Place.scope = 0 \/ Place.scope > 1)
             /\ Place.scope = 0 => source \notin Scoped
             /\ Place.read \in Nat /\ Place.scope \in Nat
      BY <1>2, PlaceOrder DEF Place, Snapshotted, Scoped
    <2>2. source \notin Scoped => requested = {}
      BY DEF Init
    <2>3. source \in Snapshotted =>
             /\ ~Ran(Place.read, 1)
             /\ at > Place.scope => Place.scope = 0 /\ requested = {}
      BY <1>2, <2>1, <2>2 DEF Ran
    <2> QED
      BY <1>2, <2>3 DEF SnapshotInv
  <1>6. ASSUME source \in Signed \union Twice
        PROVE  /\ \A q \in Query : /\ source \in Signed => ~Ran(Place.sign, q)
                                   /\ ~Ran(Place.read, q)
                                   /\ ~Ran(Place.again, q)
               /\ source \in Signed => ~(at > Place.sign)
               /\ ~(at > Place.read) /\ ~(at > Place.stable)
    <2>1. \A q \in Query : q \in Nat /\ q >= 1
      BY DiscoveryAssumption DEF Query
    <2>2. /\ Place.read > 1 /\ Place.again > 1 /\ Place.stable > 1
          /\ source \in Signed => Place.sign > 1
      BY <1>6, SMT DEF Place, Signed, Twice
    <2>3. /\ Place.read \in Nat /\ Place.again \in Nat /\ Place.stable \in Nat
          /\ Place.sign \in Nat
      BY <1>2, PlaceOrder
    <2> QED
      BY <1>2, <2>1, <2>2, <2>3 DEF Ran
  <1>7. ObservedInv
    BY <1>2, <1>6 DEF ObservedInv, SignedSeen, ReadsSeen
  <1>8. SignedInv
    BY <1>2, <1>6 DEF SignedInv
  <1>9. TwiceInv
    BY <1>2, <1>6 DEF TwiceInv
  <1> QED
    BY <1>1, <1>3, <1>4, <1>5, <1>7, <1>8, <1>9 DEF DiscoveryIInv

(* And always.                                                             *)
THEOREM DiscoveryInvariant == Spec => []DiscoveryIInv
  <1>1. Init => DiscoveryIInv
    BY InitInvariant
  <1>2. DiscoveryIInv /\ [Next]_vars => DiscoveryIInv'
    BY NextControl, NextChecked, NextCauses, NextSnapshot, NextObserved,
       NextSigned, NextTwice
    DEF DiscoveryIInv
  <1> QED
    BY <1>1, <1>2, PTL DEF Spec

-----------------------------------------------------------------------------
(* The properties.                                                         *)

(* Every variable of an analysis keeps to its type, and the analysis to    *)
(* the steps of its source's program.                                      *)
THEOREM DiscoveryTypes == Spec => []DiscoveryTypeOK
  BY DiscoveryInvariant, PTL DEF DiscoveryIInv, ControlInv

(* An analysis is complete only at the end of its program, with all steps  *)
(* behind it.                                                              *)
LEMMA CompleteAtEnd ==
    ASSUME DiscoveryIInv, outcome = "complete"
    PROVE  /\ Live /\ source \in SourceKind
           /\ at > Place.certify + 1 /\ at > Place.identify
           /\ at > Place.scope /\ at > Place.stable
           /\ \A q \in Query : Ran(Place.read, q) /\ Ran(Place.again, q)
           /\ at > Place.sign
  <1>1. source \in SourceKind /\ Live
    BY AtStep DEF DiscoveryIInv, Live
  <1>2. at = Place.enforce + 1
    BY DEF DiscoveryIInv, ControlInv
  <1>3. /\ Place.enforce \in Nat /\ Place.certify \in Nat
        /\ Place.identify \in Nat /\ Place.scope \in Nat
        /\ Place.stable \in Nat /\ Place.read \in Nat /\ Place.again \in Nat
        /\ Place.sign \in Nat
        /\ Place.certify + 1 < Place.enforce /\ Place.identify < Place.certify
        /\ Place.stable < Place.certify
    BY <1>1, PlaceOrder
  <1>4. /\ Place.scope <= Place.enforce /\ Place.read <= Place.enforce
        /\ Place.again <= Place.enforce /\ Place.sign <= Place.enforce
    <2>1. CASE source \in Snapshotted
      BY <1>1, <1>3, <2>1, PlaceOrder DEF Place, Snapshotted
    <2>2. CASE source \in Signed
      BY <1>1, <1>3, <2>2, PlaceOrder DEF Place, Signed
    <2>3. CASE source \in Twice
      BY <1>1, <1>3, <2>3, PlaceOrder DEF Place, Twice
    <2>4. CASE source = "ddl-sqlite"
      BY <1>3, <2>4 DEF Place
    <2> QED
      BY <1>1, <2>1, <2>2, <2>3, <2>4
      DEF SourceKind, Snapshotted, Signed, Twice
  <1> QED
    BY <1>1, <1>2, <1>3, <1>4 DEF Ran

(* No checkpoint after the certification can be passed by a cancellation   *)
(* that came before it, whatever the adapter does meanwhile.               *)
THEOREM EarlyCancellation == Spec => []EarlyCancellationFails
  <1>1. DiscoveryIInv => EarlyCancellationFails
    BY CompleteAtEnd DEF DiscoveryIInv, CheckedInv, EarlyCancellationFails
  <1> QED
    BY <1>1, DiscoveryInvariant, PTL

(* The product checks of the adapters and of enforce_requested_product     *)
(* together let only the requested product through.                        *)
THEOREM RequestedProduct == Spec => []CompleteIsRequestedProduct
  <1>1. DiscoveryIInv => CompleteIsRequestedProduct
    <2> SUFFICES ASSUME DiscoveryIInv, outcome = "complete"
                 PROVE  server = IF source = "odbc" THEN "sqlserver"
                                 ELSE source
      BY DEF CompleteIsRequestedProduct
    <2>1. /\ source \in SourceKind /\ ~WrongProduct
          /\ source \in Signed => server = source
      BY CompleteAtEnd DEF DiscoveryIInv, CheckedInv
    <2>2. server \in Speaks(source)
      BY DEF DiscoveryIInv, ControlInv, DiscoveryTypeOK
    <2>3. source \in {"sqlserver", "oracle", "sqlite", "ddl-sqlite"} =>
             server = source
      BY <2>2 DEF Speaks
    <2> QED
      BY <2>1, <2>3 DEF WrongProduct, Signed, SourceKind
  <1> QED
    BY <1>1, DiscoveryInvariant, PTL

(* cancelled, timeout and catalog_changed are only ever reported when that *)
(* is what happened.                                                       *)
THEOREM CausesAreNamed == Spec => []FailuresNameTheirCause
  BY DiscoveryInvariant, PTL DEF DiscoveryIInv

(* What a source with a snapshot certifies is the catalog of the snapshot. *)
LEMMA SnapshotAccepted ==
    ASSUME DiscoveryIInv, outcome = "complete", source \in Snapshotted
    PROVE  /\ requested \subseteq selected
           /\ \E c \in instants :
                 /\ selected \subseteq c.schemas
                 /\ \A q \in Query : reads.first.rows[q] = c.rows[q]
                 /\ reads.first.schemas = c.schemas \intersect selected
  <1>1. /\ Live /\ at > Place.scope
        /\ \A q \in Query : Ran(Place.read, q)
        /\ 1 \in Query
    BY CompleteAtEnd, DiscoveryAssumption DEF Query
  <1>2. /\ requested \subseteq selected
        /\ instants # {}
        /\ \E c \in instants : SeenAt(c)
    BY <1>1 DEF DiscoveryIInv, SnapshotInv
  <1> QED
    BY <1>1, <1>2 DEF SeenAt

(* Whatever is changed meanwhile, a requested schema is in the scope that  *)
(* PostgreSQL, YugabyteDB and Oracle certify.                              *)
THEOREM ScopeSurvives == Spec => []ScopeSurvivesDdl
  <1>1. DiscoveryIInv => ScopeSurvivesDdl
    <2> SUFFICES ASSUME DiscoveryIInv, outcome = "complete",
                        source \notin {"sqlserver", "odbc"}
                 PROVE  requested \subseteq reads.first.schemas
      BY DEF ScopeSurvivesDdl
    <2>1. CASE source \in Snapshotted
      BY <2>1, SnapshotAccepted
    <2>2. CASE source \notin Snapshotted
      <3>1. source \notin Scoped
        BY <2>2 DEF Scoped, Snapshotted
      <3> QED
        BY <3>1 DEF DiscoveryIInv, ControlInv
    <2> QED
      BY <2>1, <2>2
  <1> QED
    BY <1>1, DiscoveryInvariant, PTL

(* What MySQL and MariaDB certify, when the signatures are equal.          *)
LEMMA SignedAccepted ==
    ASSUME DiscoveryIInv, outcome = "complete", source \in Signed \ Reuse
    PROVE  \E c \in instants :
              /\ \A q \in Query : reads.first.rows[q] = c.rows[q]
              /\ reads.first.schemas = c.schemas \intersect selected
  <1>1. /\ Live /\ at > Place.sign /\ at > Place.stable
        /\ \A q \in Query : Ran(Place.read, q) /\ Ran(Place.again, q)
    BY CompleteAtEnd
  <1>2. PICK c \in instants : SignedAround(c)
    BY <1>1 DEF DiscoveryIInv, SignedInv
  <1>3. /\ sigs.before = sigs.after /\ reads.first.schemas = {}
        /\ \A q \in Query : reads.first.rows[q] <= sigs.after[q]
    BY <1>1 DEF DiscoveryIInv, SignedInv
  <1>4. selected = {}
    BY DEF DiscoveryIInv, ControlInv, Signed, Scoped
  <1>5. ASSUME NEW q \in Query PROVE reads.first.rows[q] = c.rows[q]
    <2>1. /\ sigs.before[q] <= c.rows[q] /\ c.rows[q] <= reads.first.rows[q]
          /\ reads.first.rows[q] <= sigs.before[q]
      BY <1>1, <1>2, <1>3 DEF SignedAround
    <2>2. /\ sigs.before[q] \in Nat /\ c.rows[q] \in Nat
          /\ reads.first.rows[q] \in Nat
      BY <1>2, Versions DEF DiscoveryIInv
    <2> QED
      BY <2>1, <2>2
  <1> QED
    BY <1>3, <1>4, <1>5

(* What SQL Server certifies, when both reads are equal.                   *)
LEMMA TwiceAccepted ==
    ASSUME DiscoveryIInv, outcome = "complete", source \in Twice \ Reuse
    PROVE  \E c \in instants :
              /\ \A q \in Query : reads.first.rows[q] = c.rows[q]
              /\ reads.first.schemas = c.schemas \intersect selected
  <1>1. /\ Live /\ at > Place.read /\ at > Place.stable /\ 1 \in Query
        /\ \A q \in Query : Ran(Place.read, q) /\ Ran(Place.again, q)
    <2>1. Place.read < Place.stable /\ at \in Nat /\ Place.read \in Nat
          /\ Place.stable \in Nat
      BY LoopPlaces DEF DiscoveryIInv
    <2> QED
      BY <2>1, CompleteAtEnd, DiscoveryAssumption DEF Query
  <1>2. PICK c \in instants : ReadAround(c)
    BY <1>1 DEF DiscoveryIInv, TwiceInv
  <1>3. reads.first = reads.second
    BY <1>1 DEF DiscoveryIInv, TwiceInv
  <1>4. ASSUME NEW q \in Query PROVE reads.first.rows[q] = c.rows[q]
    <2>1. /\ reads.first.rows[q] <= c.rows[q]
          /\ c.rows[q] <= reads.first.rows[q]
      BY <1>1, <1>2, <1>3 DEF ReadAround
    <2>2. c.rows[q] \in Nat /\ reads.first.rows[q] \in Nat
      BY <1>2, Versions DEF DiscoveryIInv
    <2> QED
      BY <2>1, <2>2
  <1>5. reads.first.schemas = c.schemas \intersect selected
    BY <1>1, <1>2, <1>3 DEF ReadAround
  <1> QED
    BY <1>4, <1>5

(* No mixture of two catalogs is certified: whatever DDL runs between the  *)
(* queries, a complete result is the catalog of one instant.  Where the    *)
(* dictionary is not under a snapshot this needs that no statement brings  *)
(* an earlier catalog back (MCCatalogDiscoverySignature shows what happens *)
(* when one does).                                                         *)
THEOREM AcceptedWasThere ==
    ASSUME Reuse \subseteq Snapshotted
    PROVE  Spec => []AcceptedIsInstant
  <1>1. DiscoveryIInv => AcceptedIsInstant
    <2> SUFFICES ASSUME DiscoveryIInv, outcome = "complete",
                        source # "ddl-sqlite"
                 PROVE  \E c \in instants :
                           /\ reads.first.rows = c.rows
                           /\ reads.first.schemas = c.schemas \intersect selected
      BY DEF AcceptedIsInstant
    <2>1. source \in Snapshotted \/ source \in Signed \ Reuse
             \/ source \in Twice \ Reuse
      BY CompleteAtEnd DEF SourceKind, Snapshotted, Signed, Twice
    <2>2. PICK c \in instants :
             /\ \A q \in Query : reads.first.rows[q] = c.rows[q]
             /\ reads.first.schemas = c.schemas \intersect selected
      BY <2>1, SnapshotAccepted, SignedAccepted, TwiceAccepted
    <2>3. reads.first.rows \in Rows /\ c.rows \in Rows
      BY <2>2 DEF DiscoveryIInv, ControlInv, DiscoveryTypeOK, CatalogState
    <2>4. reads.first.rows = c.rows
      BY <2>2, <2>3 DEF Rows
    <2> QED
      BY <2>2, <2>4
  <1> QED
    BY <1>1, DiscoveryInvariant, PTL
=============================================================================
