---------------------------- MODULE MCSharedObjects ----------------------------
(* The registries of counted objects of ICU, and its strings with their      *)
(* counted arrays, one at a time.                                            *)
EXTENDS UnicodeString, ServiceRegistry, ConverterCache

VARIABLES part, entry, bundle

Texts    == {<<"a", "b">>, <<"c">>}
Symmetry == Permutations(Thread) \cup Permutations(Array)

(* "fr" is the default locale, to which all others fall back at the end. *)
MCIdOf      == [f1 |-> "en", f2 |-> "en", f3 |-> "fr"]
MCFallbackIds == [en_US |-> <<"en", "fr">>, en |-> <<"fr">>, fr |-> <<>>]

(* Converter data with and without a base, a converter that needs no data    *)
(* and one that is built on two.                                             *)
MCBase == [ext |-> "base"]
MCSubs == [alg |-> <<>>, multi |-> <<"ext", "base">>]

BundleName == {"root", "pool", "es", "es_419", "es_MX", "fr", "he", "iw", "iw_IL", "supp"}
Chopping   == [n \in BundleName |-> IF n \in {"es_419", "es_MX"} THEN "es"
                                    ELSE IF n = "iw_IL" THEN "iw" ELSE "none"]
Bundles == INSTANCE ResourceBundleCache WITH
             Name <- BundleName, Chopped <- Chopping, Real <- BundleName \ {"fr", "iw", "iw_IL"},
             AliasOf <- [iw |-> "he"], Parent <- [es_MX |-> "es_419"], NoFallback <- {"supp"},
             Pooled <- {"es", "he"}, Default <- "es_MX", MaxBundles <- 2

bundleVars == <<entry, bundle>>

(* No string has a text. *)
NoStrings == /\ str = [s \in Str |-> Empty] /\ value = [s \in Str |-> <<>>]
             /\ heap = [a \in Array |-> Freed] /\ task = [t \in Thread |-> Idle]
             /\ torn = FALSE /\ calls = 0

SharedInit == /\ part \in {"converters", "bundles", "services", "strings"}
              /\ ConverterInit /\ Bundles!Init /\ ServiceInit
              /\ IF part = "strings" THEN Init ELSE NoStrings
SharedNext ==
  \/ part = "converters" /\ ConverterNext   /\ UNCHANGED <<part, bundleVars, serviceVars, strVars>>
  \/ part = "bundles"    /\ Bundles!Next    /\ UNCHANGED <<part, converterVars, serviceVars, strVars>>
  \/ part = "services"   /\ ServiceNext     /\ UNCHANGED <<part, converterVars, bundleVars, strVars>>
  \/ part = "strings"    /\ Next            /\ UNCHANGED <<part, converterVars, bundleVars, serviceVars>>
SharedSpec == SharedInit /\ [][SharedNext]_<<part, converterVars, bundleVars, serviceVars, strVars>>

(* The properties of ResourceBundleCache: bundles are counted exactly        *)
(* (fCountExisting), fall back as their names say whatever was opened        *)
(* before, and are all freed by ures_cleanup.                                *)
BundleCountsExact   == part = "bundles" => Bundles!BundleCountsExact
FallbackChain       == part = "bundles" => Bundles!FallbackChain
BundleFlushComplete == [][part = "bundles" => Bundles!FlushLeavesNothing]_bundleVars
===============================================================================
