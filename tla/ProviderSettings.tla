------------------------------ MODULE ProviderSettings ------------------------------
(***************************************************************************)
(* ProviderSettings: administrators save the connection to the provider    *)
(* (address, key, model), the managed proxy is taken over in two steps,    *)
(* requests keep the configuration they captured, and a workspace manager  *)
(* approves the provider the screen shows.  Version numbers guard every    *)
(* save: of this document and of the others an administrator edits (search *)
(* settings, meeting policy, guide, active prompt).                        *)
(***************************************************************************)
EXTENDS Naturals

CONSTANTS
    URLs,           \* addresses of providers
    Local,          \* the address of the managed proxy
    Models,
    Users, None,
    Documents,      \* other documents saved under a version
    MaxVersion      \* bound: saves of a document

VARIABLES
    settings,   \* [url, key, model, version]; key and model carry the address they were entered for
    form,       \* [Users -> the settings each has loaded]
    taking,     \* [Users -> None or the settings use() has read]
    grant,      \* consent of the workspace: None or [url, model]
    standing,   \* the consent was given since the provider last changed
    request,    \* configuration a request in flight has captured
    keysSent,   \* [url, key] of requests made
    document,   \* [Documents -> [version, text, onto]]; onto: the text its author had loaded
    page        \* [Users -> [Documents -> the document each has loaded]]

psVars == <<settings, form, taking, grant, standing, request, keysSent, document, page>>
others == <<document, page>>

Named(url, name) == [home |-> url, name |-> name]
Secrets == {None} \cup {[home |-> u] : u \in URLs}
Settings == [url : URLs, key : Secrets, model : {None} \cup {Named(u, m) : u \in URLs, m \in Models}, version : 0..MaxVersion]
Provider(s) == [url |-> s.url, model |-> s.model]
Blank == [version |-> 0, text |-> 0, onto |-> 0]

TypeOK ==
    /\ settings \in Settings /\ form \in [Users -> Settings] /\ taking \in [Users -> Settings \cup {None}]
    /\ standing \in BOOLEAN /\ (grant = None \/ grant.url \in URLs) /\ (request = None \/ request \in Settings)
    /\ \A d \in Documents : document[d].version \in 0..MaxVersion

\* Before the first save the environment names the connection.
Initial(u) == [url |-> u, key |-> [home |-> u], model |-> None, version |-> 0]

Init ==
    /\ settings \in {Initial(u) : u \in URLs} /\ form = [x \in Users |-> settings]
    /\ taking = [x \in Users |-> None]
    /\ grant = None /\ standing = FALSE /\ request = None /\ keysSent = {}
    /\ document = [d \in Documents |-> Blank] /\ page = [x \in Users |-> document]

Load(x) ==
    /\ form' = [form EXCEPT ![x] = settings]
    /\ UNCHANGED <<settings, taking, grant, standing, request, keysSent, others>>

\* A key stays only with the address it was entered for; a model too.
KeyAfterKept(old, url, key) == IF key = "new" THEN [home |-> url] ELSE IF key = "clear" THEN None ELSE old.key \* Mutant
KeyAfter(old, url, key) ==
    IF key = "clear" \/ (url # old.url /\ key # "new") THEN None
    ELSE IF key = "new" THEN [home |-> url] ELSE old.key
ModelAfter(old, url, model) ==
    IF model # None THEN Named(url, model) ELSE IF url # old.url THEN None ELSE old.model

\* Another provider (address or model) clears every consent; another key does not.
WithdrawnByUrl(old, new) == new.url # old.url               \* Mutant: a new model keeps the consent
Withdrawn(old, new) == Provider(new) # Provider(old)

Save(expected, url, key, model) ==
    /\ expected = settings.version /\ settings.version < MaxVersion
    /\ settings' = [url |-> url, key |-> KeyAfter(settings, url, key), model |-> ModelAfter(settings, url, model),
                    version |-> settings.version + 1]
    /\ grant' = (IF Withdrawn(settings, settings') THEN None ELSE grant)
    /\ standing' = (standing /\ Provider(settings') = Provider(settings))

SaveForm(x) ==
    /\ \E url \in URLs, key \in {"keep", "new", "clear"}, model \in Models \cup {None} : Save(form[x].version, url, key, model)
    /\ UNCHANGED <<form, taking, request, keysSent, others>>

\* use() reads the settings before its save does; the model is kept if the proxy was in use already.
UseReads(x) ==
    /\ taking' = [taking EXCEPT ![x] = settings] /\ taking[x] = None
    /\ UNCHANGED <<settings, form, grant, standing, request, keysSent, others>>
UseSaves(x) ==
    /\ taking[x] # None
    /\ taking' = [taking EXCEPT ![x] = None]
    /\ \/ Save(form[x].version, Local, "new",
               IF taking[x].url = Local /\ taking[x].model # None THEN taking[x].model.name ELSE None)
       \/ (form[x].version # settings.version /\ UNCHANGED <<settings, grant, standing>>)
    /\ UNCHANGED <<form, request, keysSent, others>>

\* A process started with another environment, before anything was saved.
Environment(u) ==
    /\ settings.version = 0 /\ settings' = Initial(u) /\ form' = [x \in Users |-> settings'] /\ request' = None
    /\ taking' = [x \in Users |-> None]
    /\ UNCHANGED <<grant, standing, keysSent, others>>

\* The screen names the provider it asks for; it must be the one that is saved.
AsShownAny(x) == TRUE                                       \* Mutant: whatever the screen showed
AsShown(x) == Provider(form[x]) = Provider(settings)

Approve(x) ==
    /\ AsShown(x) /\ grant' = Provider(settings) /\ standing' = (Provider(form[x]) = Provider(settings))
    /\ UNCHANGED <<settings, form, taking, request, keysSent, others>>
Revoke ==
    /\ grant # None /\ grant' = None /\ standing' = FALSE
    /\ UNCHANGED <<settings, form, taking, request, keysSent, others>>

\* Model list, check, preview and answers are made with the configuration that was captured.
Capture ==
    /\ request = None /\ settings.key # None /\ request' = settings
    /\ UNCHANGED <<settings, form, taking, grant, standing, keysSent, others>>
\* The list is stored for the connection it came from, and only if that is still the saved one.
Answer ==
    /\ request # None /\ request' = None
    /\ keysSent' = keysSent \cup {[url |-> request.url, key |-> request.key]}
    /\ UNCHANGED <<settings, form, taking, grant, standing, others>>

---------------------------------------------------------------------------

Open(x, d) ==
    /\ page' = [page EXCEPT ![x][d] = document[d]]
    /\ UNCHANGED <<settings, form, taking, grant, standing, request, keysSent, document>>

\* Checked and written in one transaction.
Current(x, d) == page[x][d].version = document[d].version
CurrentAny(x, d) == TRUE                                    \* Mutant: the last writer wins

SaveDocumentIf(x, d, current) ==
    /\ current /\ document[d].version < MaxVersion
    /\ document' = [document EXCEPT ![d] = [version |-> @.version + 1, text |-> document[d].text + 1, onto |-> page[x][d].text]]
    /\ UNCHANGED <<settings, form, taking, grant, standing, request, keysSent, page>>
SaveDocumentAnyway(x, d) == SaveDocumentIf(x, d, CurrentAny(x, d))
SaveDocument(x, d) == SaveDocumentIf(x, d, Current(x, d))

Next ==
    \/ \E x \in Users : Load(x) \/ SaveForm(x) \/ UseReads(x) \/ UseSaves(x) \/ Approve(x)
    \/ \E x \in Users, d \in Documents : Open(x, d) \/ SaveDocument(x, d)
    \/ (\E u \in URLs : Environment(u)) \/ Revoke \/ Capture \/ Answer

---------------------------------------------------------------------------

\* A key never goes to another address than the one it was entered for.
KeyStaysHome ==
    /\ settings.key # None => settings.key.home = settings.url
    /\ \A m \in keysSent : m.key.home = m.url

\* A consent that names the saved provider was given by somebody who was shown that provider, after
\* it was last saved: going back to a former provider does not bring the old consent back.
ConsentIsInformed == grant = Provider(settings) => standing

\* Nobody saves over a text he has not seen.
NoLostSave == \A d \in Documents : document[d].version > 0 => document[d].onto = document[d].text - 1
=============================================================================
