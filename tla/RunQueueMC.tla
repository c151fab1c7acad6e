----------------------------- MODULE RunQueueMC -----------------------------
(* Small task graphs for RunQueue. *)
EXTENDS RunQueue

\* Two recipes: b is fetched, compiled against the sysroot of a and packaged
\* with its package; the image is made of b.  The sysroot and the packages can
\* come from shared state.
GraphTasks == {"a_compile", "a_sysroot", "a_package", "b_fetch", "b_compile", "b_package", "image"}
GraphSetscene == {"a_sysroot", "a_package", "b_package"}
GraphDepends == [t \in GraphTasks |->
  CASE t = "a_compile" -> {}
    [] t = "a_sysroot" -> {"a_compile"}
    [] t = "a_package" -> {"a_compile"}
    [] t = "b_compile" -> {"a_sysroot", "b_fetch"}
    [] t = "b_fetch" -> {}
    [] t = "b_package" -> {"b_compile", "a_package"}
    [] t = "image" -> {"b_package"}]
GraphFile == [t \in GraphTasks |->
  CASE t \in {"a_compile", "a_sysroot", "a_package"} -> "a"
    [] t \in {"b_compile", "b_fetch", "b_package"} -> "b"
    [] t = "image" -> "image"]
PackageNeedsSysroot == [s \in GraphSetscene |-> IF s = "a_sysroot" THEN {"b_package"} ELSE {}]
NoTwins == [s \in {} |-> s]

Clean == [t \in GraphTasks |-> "none"]
Built == [t \in GraphTasks |-> "real"]
Fetched == [t \in GraphTasks |-> IF t \in GraphSetscene THEN "setscene" ELSE "none"]
BuiltA == [t \in GraphTasks |-> IF GraphFile[t] = "a" THEN "real" ELSE "none"]
FetchedB == [t \in GraphTasks |-> IF t = "b_package" THEN "setscene" ELSE "none"]
SomeStamps == {Clean, Built, Fetched, BuiltA, FetchedB}

\* The same recipe built for two multiconfigs, with one hash
TwinTasks == {"x_compile", "x_package", "x_image", "y_compile", "y_package", "y_image"}
TwinSetscene == {"x_package", "y_package"}
TwinDepends == [t \in TwinTasks |->
  CASE t = "x_package" -> {"x_compile"}
    [] t = "x_image" -> {"x_package"}
    [] t = "y_package" -> {"y_compile"}
    [] t = "y_image" -> {"y_package"}
    [] OTHER -> {}]
TwinFile == [t \in TwinTasks |->
  CASE t \in {"x_compile", "x_package"} -> "x"
    [] t \in {"y_compile", "y_package"} -> "y"
    [] OTHER -> "image"]
TwinHardDeps == [s \in TwinSetscene |-> {}]
SecondAfterFirst == [s \in {"y_package"} |-> "x_package"]
TwinStamps == {[t \in TwinTasks |-> "none"],
               [t \in TwinTasks |-> IF t \in {"x_package", "x_compile"} THEN "real" ELSE "none"]}
=============================================================================
