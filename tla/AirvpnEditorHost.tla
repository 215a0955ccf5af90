--------------------------- MODULE AirvpnEditorHost ---------------------------
(***************************************************************************)
(* The program that shows the editor (nm-connection-editor, GNOME          *)
(* Settings), and the plugin through which it gets one: get_editor         *)
(* (nm-airvpn-editor-plugin.c) picks the GTK3 or the GTK4 module, and      *)
(* nm_vpn_plugin_utils_load_editor (nm-vpn-plugin-utils.c) loads it once   *)
(* per process.                                                            *)
(*                                                                         *)
(* A package upgrade may replace the module's file at any time, so each    *)
(* dlopen may find another version of it, a broken one or none.            *)
(***************************************************************************)
EXTENDS AirvpnEditor

CONSTANT Versions   \* versions of the package that are installed in turn

VARIABLES
    gtk3,     \* the process shows the symbol gtk_container_add
    cached,   \* the module in the static struct of load_editor, or None
    mapped    \* the modules that dlopen brought into the process for good

hostVars == <<editor, priv, widgets, tasks, ctx, nm, gtk3, cached, mapped>>

Module == [gtk3 : BOOLEAN, version : Versions]

ASSUME HostAssumption == None \notin Module

HostTypeOK ==
    /\ TypeOK
    /\ gtk3 \in BOOLEAN
    /\ cached \in Module \cup {None}
    /\ mapped \subseteq Module

HostInit == Init /\ gtk3 \in BOOLEAN /\ cached = None /\ mapped = {}

(***************************************************************************)
(* nm_vpn_plugin_utils_load_editor for the module that get_editor names.   *)
(* The outcome is "made", or NULL with an error ("failed"), or NULL alone: *)
(* that is how g_return_val_if_fail refuses another module than the one    *)
(* that is loaded.                                                         *)
(***************************************************************************)
\* Mutated form: the handle is not kept.
LoadEditorEachTime(wanted, outcome) ==
    \E version \in Versions :
      /\ outcome \in {"made", "failed"}
      /\ cached' = None
      /\ mapped' = mapped \cup {[gtk3 |-> wanted, version |-> version]}

LoadEditor(wanted, outcome) ==
    \/ /\ cached # None
       /\ outcome \in IF cached.gtk3 = wanted THEN {"made", "failed"} ELSE {"refused"}
       /\ UNCHANGED <<cached, mapped>>
    \* The file is missing, cannot be loaded, or has no factory: then
    \* dlclose takes it out again.
    \/ /\ cached = None
       /\ outcome = "failed"
       /\ UNCHANGED <<cached, mapped>>
    \* It is loaded, whether or not the factory then makes an editor.
    \/ /\ cached = None
       /\ outcome \in {"made", "failed"}
       /\ \E version \in Versions :
            /\ cached' = [gtk3 |-> wanted, version |-> version]
            /\ mapped' = mapped \cup {cached'}

\* get_editor, called by the host program.
GetEditor ==
    /\ editor = "none"
    /\ \E outcome \in {"made", "failed", "refused"} :
         /\ LoadEditor(gtk3, outcome)
         /\ IF outcome = "made" THEN Open ELSE UNCHANGED vars
    /\ UNCHANGED gtk3

\* The host program loads GTK3 at run time, say through introspection.
LoadGtk3 ==
    /\ ~gtk3
    /\ gtk3' = TRUE
    /\ UNCHANGED <<editor, priv, widgets, tasks, ctx, nm, cached, mapped>>

HostNext ==
    \/ GetEditor
    \/ NextButOpen /\ UNCHANGED <<gtk3, cached, mapped>>
    \/ LoadGtk3

HostSpec == HostInit /\ [][HostNext]_hostVars

HostFairSpec == HostSpec /\ Fairness

(***************************************************************************)
(* Properties.                                                             *)
(***************************************************************************)
\* "we cannot create a certain type-name more then once, so loading the same
\* module or another version of the same module will fail horribly": in any
\* order of failures, upgrades and toolkits, at most one module stays in the
\* process, and the cache knows it.
OneModuleLoaded == mapped = IF cached = None THEN {} ELSE {cached}
==============================================================================
