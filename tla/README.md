# Verification of travel-manager

TLA+ models of the parts of travel-manager whose correctness depends on the order in which
processes act, with the TLC configurations that check them and the proofs TLAPS checks.

travel-manager is a Flask application with Celery workers over PostgreSQL, an object store (MinIO),
ClamAV and a language model. People upload travel documents; a chain of tasks scans, stores, reads
and extracts them; a manager reviews the result, which becomes an itinerary; a rule engine raises
alerts about the itinerary; everything that matters is written in an audit trail chained by hash.

All paths below are relative to the repository (`src/` is its root here).

## 1. Inventory

| Component | State it keeps | Operations | What is hard about it | What makes it correct |
|---|---|---|---|---|
| Document pipeline (`services/document_service.py`, `tasks/document_tasks.py`, `services/storage_service.py`) | row of `documents`, its transitions, quarantine and definitive objects, messages of the chain | upload, eight tasks, reprocess, approve/reject, delete | redelivery after a worker's death, two chains over the same row, stale writes, retries that run out, effects on the store before the commit | nothing unscanned is stored; no original is lost; a document on offer has its bytes; the history has no gap; nothing is left halfway in silence |
| Alert engine and reconciler (`services/alerts/`, `services/alert_service.py`) | `alerts`, `alert_transitions`, queued recalculations | recalculate (queued, inline, nightly), accept/dismiss/resolve/reopen | two runs at once, a decision while a run is halfway, a broken rule, a lost message | a decision is respected; the history agrees with the state; alerts end up to date |
| Alert rules (`services/alerts/rules/`) | none | overlaps, connections, lodging coverage, boarding, health | intervals across days and time zones, open ends | same findings as a definition over instants; two findings never share a key |
| Audit trail (`services/audit_service.py`) | `audit_events` | record, in its own or its caller's transaction; verify | concurrent writers, rollbacks, sequence gaps | every link is to a row that existed; the walk points at the hole |
| Extraction review (`services/extraction_service.py`, `services/solicitud_service.py`) | versions of an extraction, segments | create version, approve, reject, approve by itself | approving twice, approving what a newer version replaced, retiring what is no longer in the document | at most one version in force; approval idempotent on the itinerary |
| Itinerary and provenance (`services/itinerary_service.py`, `services/provenance_service.py`) | items, subtype rows, provenance of each field | create, confirm, update, delete | a person's correction against a re-approval | what a person wrote is not overwritten by a machine |
| Trips (`services/trip_service.py`) | trip, state, reference, travellers, destinations | create, change state, nightly advance, cancel | reference allocation without lock, nightly advance against a person's change | references unique and gapless within a year; only allowed moves |
| Identity and sign-in (`services/identity/`, `services/mfa_service.py`, `services/user_service.py`) | users, failed attempts, lockout, TOTP secrets, session epoch | sign in, second factor, lock, deactivate, change roles | concurrent failed attempts, sessions that outlive a change, last administrator | lockout counts; a deactivated user has no session; one administrator remains |
| Authorisation (`services/authorization_service.py`) | none | can-see, can-edit, can-approve | many roles, scopes and states at once | decisions agree with the permission matrix |
| Notifications and mail (`services/notification_service.py`, `services/mail_service.py`) | notices, mail marks | notify, send, read | sent twice or never; duplicates per fact | one notice per fact and person |
| Advisories and web research (`services/advisory_service.py`, `services/web_research_service.py`) | advisories, fetched pages, watched sources | generate, withdraw, refresh, expire | regeneration over what is published; stale caches | a withdrawn advisory is not shown again by a refresh |
| AI providers and selection (`services/ai_service.py`, `services/ai/`) | providers, bindings, runs | choose provider and parameters, run, record | fallback between providers, recording when it fails | each call uses the bound provider or the default, and leaves a run |
| Autotune and evaluation (`services/autotune_service.py`, `services/evaluation_service.py`) | search record, results | start, step, cancel | a search that outlives its worker | one owner at a time; ends |
| Backup, restore, key rotation (`services/backup_service.py`, `services/rotacion_service.py`) | jobs, archives, ciphertexts | copy, restore, rotate | check-then-insert of the job, partial restore, dead worker | one job at a time; restore all or nothing |
| Maintenance (`tasks/celery_app.py`, `tasks/maintenance_tasks.py`) | schedule | nightly sweeps, retention | retention against use | only what expired is removed |
| Classification and normalisation (`services/classification_service.py`, `services/normalization_service.py`, the grounding of `services/ai_service.py`) | class and confidence of a document; value, confidence and completion of each field | classify, extract, normalise, decide whether a person must look | rules against a model, values the model invents, instants without a day or a zone, thresholds at equality | nothing is trusted more than its evidence |
| OCR and templates; search; reports and map; settings; web interface, API, CLI | – | text and form processing | – | see section 7 |

How they interact: a web request inserts or changes rows and commits, then publishes a message to
the broker; a Celery worker takes it, loads the row, acts on the object store and on external
services, commits, publishes the next task and only then acknowledges (`acks_late`,
`reject_on_worker_lost`), so a worker that dies hands its message to another. PostgreSQL runs at READ
COMMITTED; no code path takes a row lock on these tables and no table has a version column, so
between the load and the commit of any session another may commit. SQLAlchemy writes only the columns
whose value changed with respect to what the session loaded. The beat schedule
(`tasks/celery_app.py:82-135`) sweeps alerts at 03:00, retention at 04:00, verifies the audit trail at
05:00 and advances trips every 15 minutes.

`PROJECT.json` lists the hazards of each component at the line where they bite, with the properties
that cover them, or the reason why none does.

## 2. The modules

| Module | Models | Composes |
|---|---|---|
| `DocumentStates` | the constant part of the pipeline: states, allowed moves, tasks with the states they consume and produce, where a reprocess resumes | – |
| `FileCustody` | abstract specification: what the pipeline promises about the bytes of an upload | – |
| `DocumentPipeline` | one document with workers, web requests, the store and the broker | extends `DocumentStates`, refines `FileCustody` |
| `DocumentPipelineProofs` | its theorems | extends `DocumentPipeline`, `TLAPS` |
| `AlertEngine`, `AlertEngineProofs` | the alerts of one trip: edits, recalculations, people | – |
| `AuditChain`, `AuditChainProofs` | the audit trail, its writers and its verification | – |
| `ExtractionReview`, `ExtractionReviewProofs` | versions of the extractions of a trip's documents, their approval, and people on the itinerary | extends `DocumentStates` |
| `TripReferences` | the number of a trip: largest as text plus one, insert, unique constraint | – |
| `TripLifecycle` | the state and dates of one trip, requests against the nightly pass | – |
| `TripAccess` | the permission matrix over one trip, its lists, and a traveller who plans | – |
| `SignIn` | failed attempts, lockout and the epoch that ends sessions, of one account | – |
| `SecondFactor` | enrolment, codes and recovery codes of one account | – |
| `Accounts` | local and directory accounts, roles, deletion and return | – |
| `Itinerary` | the bookings of a trip, its timeline, and the destinations and dates derived from them | – |
| `AlertRules` | every rule, over the itinerary as it changes | extends `Itinerary` |
| `BackupJobs` | copy and restore jobs, with uploads and the retention purge | – |
| `SecretKeys` | rotation of the encryption key, secrets and copies across it | – |
| `Autotune` | one parameter search handed from step to step | – |
| `Advisories` | recommendations, their sources and the nightly watch | – |
| `Notices` | telling the people on a trip and mailing what they have not read | – |
| `AIProviders` | rows of providers, the mark of default, bindings of tasks | – |
| `AICalls` | one provider's calls: layers of parameters, refusals, lessons, the row of the run | – |
| `Grounding` | what a reading is worth: class, evidence of each value, normalisation, review | – |
| `TripProofs` | theorems about trips and what their itinerary says | extends `TripReferences`, `TripLifecycle`, `TripAccess`, `AlertRules` |
| `IdentityProofs` | theorems about accounts, and about trips and people side by side | extends `Accounts`, `SignIn`, `SecondFactor`, `TripProofs`, `MCPeopleAndTrips` |
| `BackupProofs` | theorems about copies and keys, and about the background jobs side by side | extends `BackupJobs`, `SecretKeys`, `BackgroundProofs`, `AuditChainProofs`, `MCBackgroundJobs` |
| `BackgroundProofs` | theorems about notices, recommendations, the assistant, the search and readings | extends `Notices`, `Advisories`, `AICalls`, `AIProviders`, `Autotune`, `Grounding` |
| `MCDocumentPipeline`, `MCAlertEngine`, `MCAuditChain`, `MCExtractionReview`, `MCAdvisories` | instances for TLC: symmetry, fixed values | extend the module they check |
| `MCPeopleAndTrips`, `MCBackgroundJobs` | several small components side by side | extend the components |

The last two are dispatchers. Their components share no state, so a product of them would multiply states
and show nothing: the variable `parte` says which one a behaviour is about, `NextDeUna` takes a step of that one and
`Quietas` leaves the others where they began. Each component keeps its own `Init`, `Next` and
`Spec`, and the proofs are about those; that they carry over to `SpecDeUna` is a theorem too (`CadaUnaCumpleLoSuyo`).

### DocumentPipeline

`doc` is the row: `estado`, whether it names a quarantine key (`cuar`) and a definitive key (`alm`),
whether text and extraction hang from it, whether an error is recorded, whether it is soft-deleted, and
the set of states its recorded transitions have entered (`alcanzados`). `obj` says which of the two
objects exist. `cola` is a bag of messages. A worker's `mem` holds the columns it loaded; `pc` the
phase of its task; `res` how it went. A web request has the same `mem`.

Every task follows the same phases in the code, and in the model:

| Phase | Action | Code |
|---|---|---|
| take, load, `_skip_unless` | `Tomar` | `document_tasks.py`, prologue of each task |
| effects outside the database | `ValidarFichero`, `Analizar`, `Copiar`, `Verificar`, `RetirarCuarentena`, `DestruirInfectado`, `ExtraerTexto`, `ExtraerDatos`, `Normalizar` | bodies of the tasks; `storage_service.promote` in its three calls |
| commit | `Completar`, `Fracasar`, `Infectar` | `document_service.transition`, `mark_failed`, the infected branch of `scan` |
| finalize's second commit | `Decidir`, `AprobarSola` | automatic approval |
| publish the next task | `Publicar` | Celery chain |
| acknowledge | `Acusar` | `acks_late` |
| retry | `ReintentarAnalisis` | `RETRY_POLICY` |
| death, time limit | `Morir`, `Vencer` | worker lost, `task_time_limit` |

Commits use three operators that mirror the unit of work: `Mover(fila, mem, nuevo)` is `transition`
(the move is judged and skipped on what was loaded, written over what is committed), `MarcarFallo` is
`mark_failed`, `ConResultado` the columns a task adds. Requests are `PedirReproceso`/`Rebobinar`/
`Encolar`, `PedirJuicio`/`Juzgar`, `PedirBorrado`/`Borrar`, with `MorirWeb` between a commit and the
publication of the chain. Definitions whose comment says *deliberate fault* are not part of the
specification: they are the mutated forms `PROJECT.json` names.

`FileCustody` has four booleans (a quarantine copy, a definitive copy, a clean verdict, an infected
verdict) and says: a verdict needs the bytes; the definitive copy needs a clean verdict; the quarantine
copy goes only when the definitive one is in place or the file is infected.

### AlertEngine

`problema` is what the rules would find in the committed itinerary for each deduplication key;
`alerta` the rows; `ultimo` the state the newest *change* of state on record leads to, `dicho` the one the newest
record of any kind tells (`_apply` also records a change of severity alone, with the state it had loaded); `decision`, `pisada`
what people last decided and whether that overlapped somebody else's work. A run evaluates
(`EmpezarDeCola`, `EmpezarDirecto`), loads the alerts (`LeerAlertas`) and commits (`Escribir`) what
`Conciliar`, the translation of `reconcile`, makes of what it loaded. The commit writes changed columns
only (`Escrita`), and fails as a whole if it inserts a key another run has inserted (`Choca`). A rule
that breaks contributes no finding (`visto` is "no" for its keys), so the open alerts it owns are closed
as if their condition had gone, until the next run finds it again. An edit of a booking and an approval queue
a recalculation (`Editar`, or lose it with the process); who travels, the destinations, a field that is
confirmed and the passing of days change what the rules find and queue none (`CambiarSinRecalculo`).

Two properties say that the alerts are up to date (`AlDia`). `AcabaAlDia`, liveness, needs the sweep. `AlDiaSinPendientes`
does not: `repaso`, a history variable, tells whether what answers to the last change is done or waits in the broker
("hecho"), is in the hands of a run started directly ("enMarcha"), or is not known ("falta": runs overlapped, a rule
broke, nothing was queued, a trip was closed, a person reopened an alert); with "hecho", an empty queue and nobody
working, the alerts say what the itinerary says.

### AuditChain

The hash of a row is its number and its content a flag, so equality of hashes is equality of rows and
an altered row no longer matches. A writer reads the tail visible to its transaction (`Encadenar`),
inserts (`Insertar`, which takes a number from the sequence), and its transaction commits or rolls
back, possibly with several events (`Confirmar`, `Deshacer`). `Modificar` and `Borrar` are direct
changes in the database. `EnlacesRotos` and `Alteradas` are what `verify_chain` reports.

### ExtractionReview

`version` holds the numbered versions of each document: state, the flag `is_current`, how many services
it describes, one field of them, whether its confidence is above the threshold and, for a sale stub,
whether it names the day. `fila` holds the rows of the itinerary, by the real service they are about: where
each came from (`documento_origen_id`; "nadie" when a person typed it), whether it is provisional, the
field, the newest provenance of the field and the roll-up `requiere_revision`. `doc` is the document's
state, moved with the rules of `DocumentStates`.

Every request and task is a session that loads, may ask again, and commits once:

| Step | Action | Code |
|---|---|---|
| a request or a task loads the document and `current_extraction` | `Pedir` | `blueprints/documents/routes.py`, `api/v1/documents.py`, prologues of the tasks |
| `create_version` asks for the highest number, then for the versions in force | `LeerUltima`, `LeerVigentes` | `extraction_service.py:61-73` |
| approval looks for the rows its services belong on | `LeerFilas` | `_apply_to_itinerary`, `_coincidente` |
| approval commits | `Aplicar` | `approve`, `_retirar_sobrantes`, `recalculate_rollup` |
| read, normalise, finalize, reject, reprocess commit | `Escribir` | tasks 6-8, `reject`, `reprocess` |
| finalize loads again and approves by itself | `Recargar` | `puede_aprobarse_sola` |
| forbidden move or repeated number: rollback | `Abortar` | `InvalidTransition`, `uq_extractions_document_id_version` |
| a person types, edits, confirms or deletes a row | `Crear`, `PedirFila`, `Guardar` | `itinerary_service.py` |

`Destinos` says where a service lands: its own live row; otherwise the one unambiguous row of another
origin, which a stub completes and a confirmation adopts only if it is provisional; otherwise a new one.
`Escrita` writes the columns that changed since they were loaded. Two history variables keep the
properties honest: `solapadas`, an approval committed while another was between its reading and its
commit, and `pisada`, a row was changed while another session had it loaded.

### Trips: TripReferences, TripLifecycle, TripAccess

`TripReferences`. `numeros` are the numbers in use in each year, `creador` what each creating request
is doing: `LeerUltima` reads the largest reference *as text* and adds one, `InsertarViaje` meets the unique
constraint, the transaction commits, or is undone. Numbers are written in `Base` with one padded digit,
which stands for the four padded decimal digits: with the second digit, text order and numeric order part.

`TripLifecycle`. `trip` is the row, `peticion` what each request being served has read of it (`Formularios` of them at
once; `Encargos` says what each may be for), `noche` the pass of `advance_states`, which lists the trips whose dates have
passed and then writes one by one. `TRANSICIONES` and `requisitos_pendientes` are the code's; the web form that edits a
trip and changes its state is two commits, as in the route: the fields (`ActualizarViaje`); then the row read again, since
the commit expired it, and the state checked on it (`Releer`); then the state (`CambiarEstado`). Between the last two
another request may take away what the check looked at: `tocado` remembers that one committed meanwhile.

`TripAccess`. `can` is the matrix of `authorization_service` (profiles, scopes, cancelled trips,
deleted ones, disabled and locked accounts); `visible_trips_query` and `scope_itinerary_query` are what lists
and itineraries show. A planning request (`PedirAlta`, `PedirCambio`) is authorised on what it loaded and
written later (`EscribirPlan`), while managers assign, remove, approve and move the trip.

### Accounts: SignIn, SecondFactor, Accounts

`SignIn`. `cuenta` is the row (password, state, failed attempts, lock, epoch), `sesiones` the cookies with the
epoch they carry, `intento` what each request loaded. `racha` and `hitos` are history: wrong passwords
counted by hand and changes that must end sessions. `SecondFactor`. `mfa` is the row, `tramite` each tab,
`huella` history: which secret its owner has proved to have, which codes were spent and not forgotten. The step that
confirming records is worked out again from what was typed, and may be none (`PasosDeLaPrueba`); a sign-in that waits for its
second step takes a code whether or not the factor is in force (`MandarCodigo`). `Accounts`.
`registro` are the accounts, `directorio` what the corporate directory says, `roles` what the groups of the people some
mapping names are mapped to, `borrado` a deletion that has counted the administrators and not committed. Where the groups
map to any role, a sign-in through the directory replaces the roles, upwards and downwards (`_sync_attributes`).

### Itinerary and AlertRules

`reservas` are the bookings on the trip, each one of the constant `Reservas` addressed to a person or to
everybody; they are approved, typed, delayed, deleted, while people join and leave, destinations are put and
removed, boarding passes attached and days pass. `build_timeline`, `find_connections`, `sync_destinations_from_itinerary`
and `sync_dates_from_itinerary` are operators over it (a timeline is the set of its neighbouring pairs, which is all
that is looked at in it; a derivation takes its candidates one by one); each rule of `services/alerts/rules/` is an operator that gives
a set of findings, and `evaluate` is their union as the engine takes it. `dedup_key` is the key the
reconciler of `AlertEngine` identifies alerts by. The properties compare the rules with definitions
over hours (`SolapesJustos`) and with each other (`NuncaLasDos`, `NingunApuroSeCalla`,
`MismasConexiones`, `ClavesDistintas`); the conditions under which they speak (the rule is kept on, no overlap is
tolerated, the legs have their times in order) are written in each.

### BackupJobs and SecretKeys

`BackupJobs`. `trabajos` are the rows of jobs with the step their worker is at; `filas` says in which of the two buckets
the committed row of each document has its original, `objetos` which originals are in which bucket, and `curso` what is
being done to each and is not committed: an upload (`GuardarOriginal`, `ConfirmarFila`), a promotion from quarantine
(`promote`, `BorrarDeCuarentena`, `store_document`), the destruction of an infected file (`scan_document`,
`ConfirmarInfectado`), a purge (`apply_retention`, `ConfirmarPurga`); any of them may be lost before its commit
(`PerderObra`, `PerderPurga`). One thing at a time is done to a document: two promotions of one are `FileCustody`'s matter,
and a deletion in the application is a mark on the row that touches no object. A copy dumps the rows, then the bucket of documents,
then quarantine (`VolcarTablas`, `VolcarDocumentos`, `VolcarCuarentena`); a restore writes the objects, replaces the tables
in one transaction, then removes what the copy has not. A request looks for a job under way, then inserts its own
(`solicitar_copia`, `_nuevo_trabajo`), then the job is sent (`_despachar`); a worker may die at any step and nobody takes
its job again. `solapadas` remembers that two requests looked at once, `expuestas` the documents a job overlapped: those
uploaded, promoted, destroyed or purged during a restore, taken out of a bucket a copy had dumped the row of and not listed
(`SinListar`), or left by a promotion or a purge that never committed. `SecretKeys`. `entorno` is the current key and the previous one, `secretos` what each stored
secret is under, `rotacion` the command that reads, rewrites and commits, `copiada` a copy at hand with the
key it was made under.

### Autotune, Advisories, Notices

`Autotune`. `ajuste` is the row (trials, best, token), `mensajes` the queued tokens, `paso` what each running step
loaded. `_planificar` replays the greedy search over the recorded trials. `ReleerAjuste` is the second read
after the trial, `GuardarEnsayo` its commit with the next token, `Publicar` the message.

`Advisories`. `escritas` are the recommendations, `generacion` what each generator has done, `cacheada` the
stored page, `vigia` what the watch found, `avisos` the keys already told. A page that has to be fetched and a
model that answers commit the session they share with the generation, so `ConsultarFuentes` and
`AnalizarRiesgos` publish what was withdrawn before anything new is written. A row is known by its generation and
destination; one written by hand (`create_manual`, at any time) by how many generations had begun.

`Notices`. `creadas` are the notices in order, `narrador` a teller that looks for who lacks a fact and
then commits the whole batch against the unique constraint, `cartero` a mail pass that lists, sends one
by one and commits its marks at the end. A send delivers and marks, fails before the message has left, or fails after it
(the server took it and the goodbye failed): the last two look the same to the pass, which marks neither. `salidas` counts
the mails that left of each notice, `falsas` those of them whose send raised.

### AIProviders, AICalls, Grounding

`AIProviders`. A request reads, decides and holds its writes until it commits; another that writes the
same row waits (`Retenidas`). `resolve` is who answers a task. `AICalls`. `componer` puts the layers one over
the other and drops what the family of the endpoint lacks; `Rechazar` is a 400 that names a parameter, after which the
call retries without it or with its other name; `CerrarEjecucion` writes the row of the run and the lessons.
`Grounding`. A page is a sequence of printed marks and a reading a record of fields; `Clasificar`, `Extraer`,
`Normalizar` and the decision of finalize are the steps, `ConfianzaDeReglas` the formula of
`classify_by_rules` in integers. The evidence is what the code looks for, no more: a text with its separators out, anywhere
in a page (`_find_literal`); an hour's four figures and its year's, of whatever they are figures there (`Figuran`: an
hour is the number its figures make, so 20:26 is found in the year 2026); an amount, also between the commas and points
of a longer one (`_importe_escrito`). The locator that is stored has lost its spaces and hyphens (`cleaned`). `Lugares` gives, for
each name the catalogue knows, the rows that answer to it; a name it does not know has none (`Catalogo`).

## 3. The runs

| Run | Instance | What it shows |
|---|---|---|
| `PipelineConcurrent` | 2 workers, 1 request (reprocess, from the start, approve, reject), 1 death, 1 retry, store/antivirus/model failures, automatic approval; 657,854 states | nothing unscanned stored; history without gaps; a reprocess finds its inputs, the quarantine copy too until another chain takes it; refinement of `FileCustody` |
| `PipelineFaults` | 1 worker, 2 deaths, 1 request of any kind, all ten failures; 1,061,091 states | no original is lost; a document on offer has its bytes; a redelivery repeats no work until something fails |
| `PipelineLiveness` | 2 workers, 1 death, 1 reprocess, fair workers; 810,277 states | at no moment does everybody rest with the document halfway; everything queued is consumed and the document ends waiting for a person, refused or in error, but for the gap named in `AnalisisSinCopia` (both) |
| `Alerts` | 1 key, 2 runs, 1 person, 2 edits, 2 decisions, 1 failure, fair runs; 2,327,248 states | a decision not overlapped is respected; the history agrees; alerts are up to date once the recalculation of the last change has ended, and end so whatever happened |
| `Review` | 1 confirmation, 1 stub, 1 service, 2 rows of it, 3 versions of each document, 2 readings (one empty), 2 values, 2 sessions, 3 requests besides the tasks of the chain, automatic approval; 4,452,372 states | type; one version in force, the newest; no second row for a service unless two approvals overlapped; stub and confirmation meet in one row; provenance and review mark agree with the row unless two sessions wrote over each other |
| `PeopleAndTrips` | see the bounds below; 1,503,666 states | types; the numbering of a year has no gap or repetition; lists and answers about a trip agree and a traveller plans only for themselves; sessions end and lockouts start when they should; the factor in force is proved and no code is spent twice but those a confirmation forgets; an administrator is left but for what does not count them; a change of state has its ground unless another request wrote the trip meanwhile, and a trip whose last day passed is closed; alerts and destinations say what the bookings say |
| `BackgroundJobs` | see the bounds below; 1,537,204 states | types; one job at a time and every original recoverable; every secret opens after a rotation; a search stays one search and in somebody's hands; a trip shows one generation and every destination is spoken of; everybody or nobody is told, and mailed once and again for each send that raised after leaving; a change of provider changes what was asked; a call sends its layers and learns from a refusal; no reading is trusted beyond its evidence; the trail's two properties of `AuditChain` |
| `FindingScannerDown` | 1 worker, antivirus down | **violated**: a document left VALIDADO with nothing queued |
| `FindingRedelivery` | 1 worker, 1 death | **violated**: a redelivered `store` ends in ERROR |
| `FindingHumanDecision` | 2 runs, 1 person | **violated**: a decision overwritten by an automatic closure |
| `FindingAuditFork` | 2 sessions | **violated**: a broken link with nothing touched |
| `FindingSourceMoved` | 1 page, 3 versions of it | **violated**: its second change is told to nobody |

Bounds. The behaviours that matter need two processes over one row: what a third would add is
another stale copy, and a stale copy is already unrelated to the row it is written over. One retry is
enough to tell a first attempt from a last one (`RETRY_POLICY` allows three; `FindingScannerDown` uses
three). One worker death gives a redelivery, two give a redelivery of a redelivery. One reprocess beside
the first chain gives two chains over one row. One deduplication key is enough because rows are
reconciled key by key; the one thing keys share is the failure of a whole commit, and that is present
with one key too. Two edits let a problem appear and disappear; two decisions let a person change their
mind. Four events with two sessions give a fork, a rollback between them and a deletion in the middle.
In the review, three versions give two sessions that add one from the same first version and a number taken
meanwhile; two rows of one service are what a duplicate is; the tasks of the chain are not counted, so a
reprocess is followed by a whole new reading, but one runs at a time (`MaxTareas`, two chains at once are
`DocumentPipeline`'s) and, once three requests have arrived (`MaxALaVez`), only with nothing else going on.
`PeopleAndTrips`: two creating requests with base 3 (nine numbers, so the padding ends within reach) and two
years; two days of a trip, the nightly pass and two requests, one of any of five kinds and one that takes the traveller or the itinerary away (`EncargosMC`); two travellers, a manager and an administrator; two
browsers, two wrong passwords to a lock, two epochs; two tabs, two secrets and three time steps, followed up to the
first write over another's, which is where the property stops speaking (`SinSolape`); two local accounts and one of the directory, whose groups map
to nothing, to a plain role or to administrator, two deletions at once; three bookings at a time of ten (two flights through one city's airports, a transfer between
them, a train, a stretch without an end, a leg of kind «otro», three stays of one name, a car, a place the catalogue lacks), two people, four
edits: the rules look at pairs, and the third booking is the one that stands between the other two. `BackgroundJobs`:
one document, two jobs and two requests, so a copy or a restore can overlap an upload, a promotion, a destruction, a purge or another job; three keys (a
rotation and one more), two values; a search over two parameters with a budget of two trials and three tokens, one
more than the steps at once; two destinations, two pages, two generations; one fact, two people, one of them without an
address; three providers; two models that refuse different parameters and three corrections (`_MAX_CORRECCIONES`);
documents of one and two pages whose second page does not fit, with dates whole, short or absent, a year whose figures are
an hour's, an amount whose figures are midnight's, an amount inside a longer one, and locators printed with a hyphen or a space.

`CHECK_DEADLOCK FALSE` is stated because every system here may stop: once the bounded inputs are spent
and the queue is empty there is nothing to do.

Fairness. In the pipeline, weak fairness of each worker's progress and of each request being served:
a live worker keeps consuming and a request is answered; nothing obliges anybody to die, time out or
ask. In the alerts, weak fairness of each run, because the nightly sweep of beat starts one for
every open trip (`celery_app.py`, 03:00). In `TripLifecycle`, weak fairness of the pass that loads the trips
whose dates have passed and of its write (`EquidadCiclo`): beat starts it every 15 minutes, and one commit
per trip follows unless somebody has moved that trip. People are obliged to nothing, and days need not
pass. The other components have no liveness property: what they should do in the end they do at a
person's request, or it is a safety property that somebody still has the matter in hand (`AlguienLaAvanza`).

Symmetry. `PipelineConcurrent`, `Review` and `BackgroundJobs` exchange processes (workers, sessions) that are given
the same constants, and check no liveness; in `BackgroundJobs` the two model values are the steps, tellers, mail
passes, writers, administrators and calls of six components, of which a behaviour uses one.

Every property has a mutant in `PROJECT.json`: a plausible bug in a mapped definition with which TLC
finds that property violated under the run's own configuration.

## 4. Findings

The five runs that expect a violation each show a statement of the documentation that the code does
not fulfil (quoted in `PROJECT.json`):

1. *Antivirus down.* Retries end after three attempts; the chain then ends without marking the
   document, and nothing looks for VALIDADO rows when the antivirus is back.
2. *Redelivery of `store`.* `promote` deletes the quarantine copy before the row is committed; a death
   between both makes the redelivered task fail on a missing source.
3. *A manager's decision against a run that had loaded the alert.* The run's commit replaces the
   decision by an automatic closure.
4. *Two sessions auditing at once.* Both link to the same tail; the verification calls it tampering.
5. *A source that moves twice.* The notice's key is a digest of the addresses that moved, not of what they
   say: the second change of one page has the key of the first and no notice is written.

Other divergences met while reading, for which no run is kept:

- Approving: `_apply_to_itinerary` (`extraction_service.py:552-554`) says re-approving updates the row
  created before «rather than adding a second one». Two approvals of one document that overlap both find no
  row and both add one: `SinDuplicados` without its first clause is violated in `Review`. The check
  «already applied» (`:309`) is made on what each loaded, and no constraint covers origin and index.
- The form acts on the version in force when it is sent (`routes.py:127`), which may be newer than the one
  its reviewer saw.
- Where an edit and an approval of the same row overlap, the newest provenance may tell of another value
  than the row has (`ProcedenciaConcuerda` exempts it through `pisada`).
- `document_service.py:92`: a reprocess whose session loaded the row before a discard writes over it.
- `_earliest_replayable_state` says it is «bounded by what is still on disk» (`document_service.py:491-500`); it looks at
  columns of the row. Another chain may promote or destroy the quarantine copy between the choice and the first task, and a
  promotion that died before its commit leaves a row that names a copy already deleted: `ReanudaConInsumos` asks for the copy
  only while nothing of that has happened.
- Alerts: `_apply` (`reconciler.py:154-166`) records a change of severity with the state the run had loaded. A manager who
  accepts the alert meanwhile keeps the decision, and the newest row of its history says ABIERTA: `HistorialConcuerda`
  allows it by name (`dicho`), and only over a decision that was overlapped.
- Alerts: a decision and a run that write different columns of the same row may leave it RESUELTA
  without the automatic mark, which nothing reopens (`AlDia` exempts it through `pisada`). The notices
  of serious alerts are sent from the manual and inline recalculations, though
  `alert_service.py:175` speaks of the nightly one.
- `schedule_recalculation` is «Called after anything that changes an itinerary» (`alert_service.py:213`); only the
  operations of bookings and the approval call it. Travellers, destinations, `confirm_item` and the trip's dates do not,
  and the nightly sweep makes up for it (`CambiarSinRecalculo`; `AlDiaSinPendientes` exempts it through `repaso`).
- Audit: the nightly verification reads the oldest 5,000 rows, so later ones are not verified
  (`maintenance_tasks.py:132`); a deleted prefix or tail cannot be seen by any walk; `record(commit=False)` swallows a
  failed flush without rolling back (`audit_service.py:77`).

*Trips.*

- `generate_reference` says the caller retries; no caller catches the integrity error. After the number 9999 text
  order returns to it, every creation of that year computes 10000 and is refused: that is what `NumeracionCorrida` with a
  bounded `Base` shows as numbers that stop, never as a gap.
- Dates filled from the first document are never widened, and one end filled beside a typed one is not validated: a trip
  can end before it starts (`trip_service.py:773-807`).
- A nightly pass that overlaps a cancellation moves the cancelled trip (`CerradoSoloPorLecturaVieja` names it); one
  trip that refuses its move (`ConflictError`) ends the whole pass.
- The requisites of a confirmation are looked at (`trip_service.py:303`) before the commit (`:316`): another request may
  remove the traveller or empty the itinerary in between, and the trip is confirmed without them
  (`ConfirmarExigeRequisitos` names it; without that clause TLC refutes it). Two forms may likewise move a trip one of
  them has just closed.
- CANCELADO → EN_PREPARACION is in the table and no caller can reach it; `create_trip` accepts any initial state; a
  traveller's own trip is EN_PREPARACION when committed; the API's PATCH ignores a state; the web form is two commits.
- A traveller may be offered to open a trip though nobody can be handed it (the default manager, or every manager, is
  disabled: `gestores_disponibles` does not look at it).
- Destinations depend on the order in which documents are approved.

*Accounts.*

- A lock that runs out keeps its counter, so the next mistake locks again. Two bumps of the epoch from one load write
  the same number, so the second ends no session.
- `update_user` never counts the administrators; only a deletion does, and before it commits. A directory sign-in
  does not either: where the groups map to some other role it takes the role of the last administrator
  (`registry.py:417-421`, `identity/base.py:136-157`).
- «The confirming code must not work again either» (`mfa_service.py:248-249`). The step recorded is worked out at `:250` from what
  was typed, without taking the spaces out as `:128` does, so a code typed as the telephone shows it leaves none, and opens a
  session after confirming (`tests/test_mfa.py`, `test_tampoco_el_que_se_uso_para_activarlo`, types it without). A
  sign-in that was left waiting takes a code of an enrolment not yet confirmed, and the confirmation may then record
  an earlier step (`PasosDeLaPrueba`; `FactorProbado` names both).

*Rules.*

- `base.py:123-129` says a different problem never collides: the keys of two stays of one name, one night over the
  policy each, do (`policy.py:131`). The key of uncovered nights holds only the first night.
- A leg with its times the wrong way round can hide a tight change between the legs around it.
- `itinerary_service.py:247-250` and `connections.py:51-52` say that the timeline and the rule call the same pairs
  connections. The timeline pairs every leg with an arrival; the rule only the kinds of `CONNECTABLE_SEGMENT_TYPES`,
  which «otro» is not of, and it gives a leg for everybody to each person, where the timeline pairs it with others for
  everybody. `MismasConexiones` says where they do agree; without its conditions TLC refutes it with a flight and a
  leg of kind «otro».
- Rows of a traveller who was removed are still evaluated as theirs.

*Backup and keys.*

- The job of a dead worker stays EN_CURSO and keeps every later one from starting; `_sin_otra_en_marcha` checks and
  then inserts; `_limpiar_objetos` may delete an object uploaded while the restore was running.
- A copy dumps the rows and then lists the buckets, documents first (`backup_service.py:398-420`); a promotion in between
  (`storage_service.py:333-344`) takes the original from quarantine to a bucket the row it dumped does not name, so
  a finished copy has a row without its original (`SinListar`).
- Rows of a copy taken in the middle of a rotation come back under a key nobody keeps.
- The scheduled `apply_retention` is a dry run; only the command of the CLI deletes.

*Recommendations, notices, search.*

- A source that was ever consulted is only switched off, never deleted; `purge_web_cache` forgets the consultation, so a
  source a published recommendation cites may then be deleted (`EliminarFuente`).
- A row written by hand stays beside those of the next generation when it was written after that one had loaded what it
  would withdraw (`advisory_service.py:630-669`, `:218-222`); `create_manual` has no caller in the repository.
- The oldest unread notices are retried first, so an address that always fails keeps newer mail waiting.
- A send that raises after the message left (`mail_service.py:73-82`) leaves the notice unmarked
  (`notification_service.py:174-176`), and it is mailed again at the next pass (`falsas`), though `:178-180` says that one
  that failed «should not be retried for ever».
- A step of the search that dies between committing its token and publishing it leaves the search to
  «Reanudar» (`AlguienLaAvanza` names it).

*The assistant.*

- `models/ai.py:48` says exactly one row carries the mark of default: none may, and two overlapping requests leave
  two. A provider created switched off can be made default.
- Lessons of two calls at once overwrite each other; those of the first `_post` are lost when it ends in the 400
  about reasoning; `sin_temperatura` and `token_param` are learned for the endpoint, not for the model.
- `_run` says a row is kept «whatever happens»: a death between its flush and a commit leaves none.
  `explicar` and `capas` omit the binding's layer; `fallback_for` has no caller; BLOQUEADA is unreachable.

*Readings.*

- `ai_service.py:390-399` says of `CONFIANZA_LITERAL` that it is «deliberately below the auto-approval threshold»: it is
  0.85, the default threshold, and the comparison is `<`, so such a value is not marked for review; and
  `puede_aprobarse_sola` does not look at confidence.
- `resolver_lugar` says «Refuses rather than guesses»; an ambiguous city with a country falls back to the country's
  main zone and overwrites the model's, at the same trust. `_find_by_name` takes the first of unordered matches.
- Name and city filled from the catalogue keep the confidence of what was there: 0.0 where nothing was, but 0.85 where the
  model had typed «null» and the pages spell it inside a longer word. `_ground_in_document` trusts the word,
  `_sin_nulos_escritos` (`normalization_service.py:106-115`) clears it, and the catalogue's city takes its place at the
  confidence of «a value found literally in the document» (`ai_service.py:391`). `Respaldado` counts the catalogue's city
  as evidence.
- `normalize` says trust can only be lowered: the country's
  is raised to 0.90 (`SoloBaja` exempts it).
- The evidence of an instant is its hour and its year, never its day; `_comprobar_orden` compares local times whatever
  their zones.
- What is looked for is figures, not an hour: `_find_literal_instante` (`ai_service.py:709-713`) takes the
  separators out of the page (`:742-750`), so 20:26 is found in the year 2026 and a date alone (00:00) in 1.000,00, and gets 0.85.
  An amount is found between the commas and points of a longer one, 49 in 39.49 (`:524`).
- The locator stored has no spaces nor hyphens (`normalization_service.py:184-185`), a form the pages may not print; and the check
  that it is not the flight's number compares it with its hyphen, so «IB-1234» survives as the locator of flight IB1234.
- The model is asked even when the rules are sure, unless the class was declared; `needs_ai_classification` has no caller.

## 5. What is proved

The proofs hold for any number of workers, requests, keys, runs, people, sessions, documents, events, years, accounts,
jobs, secrets, providers, models, destinations and parameters, and for any values of the bounds, under the assumptions
each module states on its constants. Every component below has its type correctness as a theorem. Where a theorem has a
hypothesis of its own, it is named here with the reason; TLC finds the property violated without it.

**DocumentPipelineProofs.** `TiposCorrectos` is type correctness, left to this theorem.

- `NadaSinAnalizarSeAlmacena` (`SoloLimpioAlmacenado`). The property is not inductive: a worker about to copy a file knows
  it was ESCANEADO only by what it loaded, and the state it loaded may have been written by someone who
  loaded something else. `Invariante` adds `EntradaInv`, an acting task loaded one of its
  input states, and `LimpioInv`: either there is a clean verdict, or nothing anywhere (the row, the
  store, the memory of any worker, the memory or destination of any request) is past the scan.
- `HistorialCompleto` (`HistorialSinSaltos`). `HistoriaInv` says that every state the row, a worker's memory or a
  request's destination names is founded on the recorded ones (`Fundado`), and that the columns a stage fills are there
  exactly when its state has been entered: a rewind then lands only where the history has been.
- `AlmacenSiempre`, and from it `NingunFicheroSePierde`, `LoOfrecidoExiste` (`DisponibleExiste`) and
  `ReanudarTieneInsumos` (`ReanudaConInsumos`), assume that the store returns what was written (`"hash"` is
  not among the failures) **or** that there is one worker: then a worker about to retire the quarantine copy
  has the definitive one in place (`CopiaInv`), and what the row names is there (`AlmacenInv`). For the states whose task
  reads the quarantine copy it also needs `NombradaInv`: until a verdict condemns the file the row names one of the two
  copies, and it names the definitive one exactly when ALMACENADO is in its history, so a reprocess that settles on an
  earlier state read a row that named the quarantine copy (`DestinosDeCuarentena`); from there, until another run promotes it or
  condemns it, the copy is where the row says. With several workers and
  a store that corrupts, `promote`'s answer to a wrong hash deletes the object another chain has already put in
  the row.
- `UnaReentregaNoRepite` (`SinRepetirTrabajo`) assumes one worker, as its run does: `UnaCadenaInv` says that the row an
  acting worker loaded is the row as it is, and that without an error nothing recorded lies beyond its state. With two
  workers it is false: a death between a publication and its acknowledgement leaves the next task queued twice.
- `NadieDejaNadaAMedias` (`NadaAMedias`) is what liveness rests on: no message is ever lost on the way. `AvanceInv` says who
  has the document in hand while its state is one of the chain (`EnManos`): a message of the task that takes that state or of an
  earlier one, which will skip and pass on; a worker that loaded it, or that has a successor to publish; a
  request that has the chain to publish. It follows the document through every skip, commit, death and
  redelivery, and through stale writes, since whoever wrote the state last is a holder. It rests on three
  facts that are invariants with it: a reading without a quarantine copy is never out of date, only validate
  turns a file down, and a request goes to a state the chain goes on from, or to a settled one. It assumes that the
  broker takes every message and that no hard limit or death of a web process drops one (`NadieSueltaElMensaje`), each
  of which the code does leave without a mark: TLC finds it at once for a request whose process dies between the rewind
  and the publication, for a task cut by the limit, and for a broker that refuses one of two reprocesses. It also
  assumes `AnalisisFiable`; `SoloSeCallaElAnalisis` does not, and says that with storage and
  antivirus failures too, validated is the only state a document can be left in silence in.
- `ImplementaCustodia` is the refinement of `FileCustody`, step by step, while the store returns what was written.

**AlertEngineProofs.** `AlertInv` is the type, the agreement of the history (the newest change of state with the row; the
newest record of any kind with the row or, where a change of severity was recorded last, ABIERTA, since `Conciliar`
changes the severity alone only of a row it loaded open (`ConciliarSoloGravedad`); and always with a decision nothing
overlapped), that a person's pending request is a real change (`PeticionReal`), and `Respeto`: for a respected decision, what every run that
has loaded the alerts remembers of the row is that decision, so `Conciliar`, which leaves such rows
alone (`ConciliarRespeta`), and `Escrita`, which writes nothing when nothing changed, keep it.
`ElHistorialConcuerda`, `LaDecisionSeRespeta`, `AlertTipos` follow. The type of this module is left to that theorem;
the run spends its properties on the others.

`AlDiaSinEsperar` (`AlDiaSinPendientes`) rests on `RepasoInv`, which TLC checked before it was proved. `Repasando` and
`YaRepasado` say who will bring the alerts up to date: the only run under way saw the itinerary as it is, and either the
broker will deliver it again if it dies, or the alerts are already as they should be. For its commit to leave them so,
each row must be as the run loaded it or have been closed by a person since (`Vigente`), who touched neither the severity
nor a row the run means to create; and the columns two writers leave in a row must agree (`Sueltas`): where no decision
overlapped a run, a row is absent, open, closed by the engine with its mark, or as decided, so a closed alert that is no
decision is one `Conciliar` reopens. `ConciliarDice` and `EscritaDice` are the two cases of the commit.

**AuditChainProofs.** `AuditInv` adds to the type which numbers are in use (`Numeros`), what rows and
readers are linked to (`Enlaces`), and, while sessions take turns, that a row is linked to the last one
visible before it unless that is gone (`Turnos`). `EnlacesConfirmados`, `LaCadenaSenalaElHueco`,
`AuditTipos` follow.

**ExtractionReviewProofs.** Two invariants, for any interleaving of any number of sessions.

- `RevisionInv` gives `SiempreUnaVigente` (`UnaVigente`) and `RevisionTipos`. The property alone is not inductive: a session
  halfway through `create_version` holds a number and a set read at different moments. The invariant adds that numbers
  have no gap (`Numerado`), that each phase works on a version that exists (`Coherente`), and `AlDia`: the number a session
  holds was once the highest, and while its version is still the one in force, that version is exactly what the session
  will withdraw. So an insertion either meets a taken number and is rolled back, or what it withdraws is
  what is in force (`ConVersionSigue`); with the queries the other way round this fails, which is the mutant of
  `UnaVigente`.
- `FilasInv` is about the itinerary. What an approval does depends on the copies of the rows its session loaded, so the
  invariant says how far a copy may be from its row (`CargasFieles`): until another session writes that row it *is* the
  row, and until another approval commits no live row of a document has appeared or changed hands (`AlCorriente`). From
  it `ProcedenciaSiempre` (`ProcedenciaConcuerda`) and `AprobarNoDuplica` (`SinDuplicados`); the exceptions `pisada`
  and `solapadas` are the properties' own. `SeEncuentranEnUnaFila` (`TalonYConfirmacion`) assumes that at most one of the
  documents is not a stub: two confirmations of one service make two rows whatever the order.

**TripProofs.**

- `SinHuecosNiRepetidos` (`NumeracionCorrida`), for any base: `InvReferencias` says that the numbers of a year are 1..k with
  k within what text order can still tell, that a request which computed holds at most k + 1 and that one which
  inserted holds exactly k + 1. The lemma about `UltimaComoTexto` is where the padding enters.
- `SoloSeMueveConFundamento` (`EstadoFundado`), for any number of requests: while no other request has committed since it
  loaded (`tocado`), the edit form has the dates of the trip as it is and saw it cancelled if it is, and once its check has
  passed, what the requisites looked at is still there (`CargaFiel`). The nightly pass disturbs none of that: it writes the
  state only, and never CANCELADO.
- `LaListaCoincide` (`SeListaLoQueSePuedeVer`) compares the query with `can`, profile by profile, from the types alone.
  `SoloPlanificaLoSuyo` (`PlanificaLoSuyo`) needs `PlanFundado`: what a planning request was granted still holds while
  nobody has moved the roster, the trip or the row.
- `ItinerarioBienDicho` (`ItinerarioBienLeido`), for any bookings, places, thresholds and policy. What a rule finds is a
  function of the rows, so the invariant (`InvReglas`) says only what the rows are: finitely many, each with its number,
  addressed to somebody who is or was on the trip, and dates in order. The rest is about the operators: two rows
  are always in order (`UnoAntes`) and a row with others after it has a next one (`LaSiguiente`), which is how a tight
  change is told though the rule looks at neighbours only; to overlap by more than the tolerance is to share more hours
  (`HorasEnComun`); the numbers in a key determine the rows (`MismosNumeros`), and the pair of a connection its order.
  What an approval derives is followed candidate by candidate (`UnCandidatoMas`, by the least counterexample, since
  the library's induction cannot be used), and since the candidates are a set whatever their order (`LosCandidatos`),
  a second derivation in another order finds all of them there (`NadaQueSumar`).

**IdentityProofs.**

- `SiempreCuentasEnOrden` (`CuentasEnOrden`): `DejaAlguien` says that while no edit and no directory sign-in has taken an
  administrator away and no two deletions overlap, a deletion that has been let through leaves another administrator.
  `RolConcedido` is inductive with the type: whatever writes the role says whose word it was on (`ConcedidosTras`).
- `SiempreEntradaJusta` (`EntradaJusta`): a session's epoch is at most the account's, and where they are equal the session
  was opened after the last change that ends sessions; the counter of the row agrees with the mistakes counted by hand,
  before and after a lock has run out (`RachaDe`).
- `SiempreFactorProbado` (`FactorProbado`): nothing of a secret still to come has been spent, and of the one in force
  nothing later than the step the row remembers (`GastoAlDia`), which is why what a confirmation forgets has to be named:
  the step it records may be none; a tab that has been let through loaded the row as it is (`TramiteAlDia`).

**BackupProofs.**

- `ElRespaldoEsFiable` (`RespaldoFiable`): `UnoSolo` says that while a request whose check found nobody has not inserted its
  job, there is none under way; `Originales` gives, of each document outside `expuestas`, where its row and its original are
  at each point of an upload, a promotion, a destruction and a purge (`EnSuPunto`), and, phase by phase, what a running copy or
  restore holds of rows and objects (`DatosDe`): between the dump and the listing of a bucket the row it dumped still has its
  original there. Neither half is inductive without the other: the originals are safe because one job runs.
- `NingunSecretoSePierde` (`SecretosEnPie`): of each secret outside the exceptions (`Sano`), it holds the last value, under the
  current key, and while a rotation is between its reading and its commit what it read is what is stored.

**BackgroundProofs.**

- `SiempreAvisosEnteros` (`AvisosEnteros`): a teller holds nobody or everybody on the trip (`GuardaEntero`), so the unique
  constraint lets a batch in whole or not at all; a mail pass holds places of the list whose notice nobody has marked, and a
  notice that left without a complaint is marked or about to be (`CorreoEnOrden`), so it is not listed again.
- `SiempreUnaSolaGeneracion` (`UnaSolaGeneracion`) and `NingunDestinoCalla` (`TodoDestinoDice`): what a generation has left
  behind it, destination by destination (`Recorre`), whatever of it was committed on the way by a page fetched or a model
  asked; and, while none has overlapped another, that what is live, not its own and not written by hand since it began, it is
  going to withdraw (`DeUnaEnUna`).
- `NadaQueNoSeRechazara` and `SiempreLlamadaEnOrden` (`LlamadaEnOrden`): what a call has learned of a model and what the notes
  say of it are refusals that model makes (`Aprende`, `NotasCiertas`). The second assumes `BastanCorrecciones`, the
  corrections allowed are as many as a model refuses things (what `_MAX_CORRECCIONES` says of itself,
  `services/ai/openai_compatible.py:37-39`), and `UnSoloNombre`, no two models disagree on the name of the limit: `token_param` is one
  for the whole provider, so two that disagree would each undo what the other taught.
- `SiempreCambiaSoloLoPedido` (`CambiaSoloLoPedido`): two requests under way hold different rows (`Aparte`, what the waiting
  on a row's lock gives), and one that has met no other is about to write exactly what was asked of the rows as they
  are (`LoQuePide`).
- `LecturasConRespaldo` (`LecturaRespaldada`), an action property, for any pages, answers of the model and catalogue.
  `Leido` is what the pages say of a service as it is read, a trusted hour's figures and its year's on one page among it; of a reading already normalised the invariant `EnPie` keeps the
  service it was read as, and `Normal` between the two. `Normal` is built along `normalize`, a lemma for each step of
  it that says what that step adds: no more trust (`Desciende`), a locator of the usual form
  (`ConLocalizador`), a city and a country that are printed or a place's (`ConCiudad`, `PaisEscrito`, `ConPais`), a zone
  that somebody gave (`ZonaDeFila`, `ConZona`), doubt where the catalogue has no answer (`ConCatalogo`), whole instants
  (`ConHora`) and in order (`ConOrden`); the rest carry it along. The order of the steps matters: a country counts as printed
  because its name was looked for before it became a code. It rests on `LugaresAssumption` (no place is called nothing or
  by figures alone, and its country is the two-letter code of `models/catalog.py:69`, or none), `PaisesAssumption` and the
  shape of an answer (`LecturasAssumption`). `TiposDeLaLectura` follows from the same invariant.
- `SiempreBusquedaEntera` (`BusquedaEntera`): a trial under way is the one the plan wants next, unless one has been recorded
  since; a list about to be written is the recorded one with one more, and replays without a break (`PasoEnRegla`). That
  the plan of a list with one more trial is the plan of the list, advanced (`UnEnsayoMas`), is where `_planificar` enters;
  a search still PENDIENTE has no step running, and its token is in the queue or in a step's hand.

The library's induction theorems take an operator as a parameter, which the provers cannot instantiate. Where an
argument goes along a sequence (the plan of a search, a row of notices) it is made about the *set* of places where it
fails: a set of naturals that is not empty has a least element (`HayMenor`), and the step refutes it.

What trying to prove changed in the models, each time where they were wrong or could not be reasoned about: the type of
`SignIn` bounded a counter that a lock run out lets grow; a conjunct of `PlanificaLoSuyo` could not fail; the fusion of risks
cited pages before the commit that records them; `componer` is by the highest layer, `_planificar` and
the list of notices are functions instead of folds; in `Grounding` no text printed «null» and no document named
a country in full, so two ways of filling a field were never taken, and the catalogue had rows for names it does not
know; the gap of the scan was said of a copy taken away, and is also there when the row no longer names one that
was not deleted; `AlertRules` knew only the
connectable kinds of its instance, which had no leg of another kind, and so hid where timeline and rule part; several of its properties held for the values of the
instance only (a rule kept off, a tolerance above 0) and now say on what they depend; and `TripAccess`, `Itinerary`,
`AlertRules`, `Notices`, `Advisories`, `AICalls` and `Autotune`
state what they assumed of their constants (finite sets, disjoint kinds, a route without repetitions, a model that
takes some name of the limit).

**The dispatchers.** `CadaUnaCumpleLoSuyo`, at the end of `IdentityProofs` for `MCPeopleAndTrips` and of `BackupProofs` for
`MCBackgroundJobs`, says that `SpecDeUna` implements the specification of each of its components: the initial states are
theirs (`AlPrincipioTodas`) and a step is, for each of them, one of its own or one that leaves it still
(`PasoDeCadaUna`). So every theorem about a component is one about the specification its run checks, and
`TiposDeTodas` (`TipoDeTodas`) follows from the types of all of them.

Only model-checked: `AcabaAsentado`, `AcabaAlDia` and `ViajePasadoSeCierra`, liveness under fairness, beyond this prover.
Every other property of a run that passes is stated by a theorem.

## 6. Abstractions

- One document, one trip's alerts, one trail. Documents share no state but the broker; alerts of
  different trips share none.
- Bytes are "present" or "absent"; a real type is admitted or not; text, extraction and verdicts are
  kept as far as the control looks at them.
- The engine's load of the trip and its evaluation are one step: what it evaluates is one snapshot.
- A person's request that dies before its commit leaves nothing, so it is not an action.
- In the review, the i-th service of every document of the trip is the same real service on the same day, of
  the kinds `_coincidente` matches (legs and stays); a row has one field standing for each; a reading above
  the threshold and one without confidence are the same; the uploader is a manager (`puede_aprobarse_sola`
  lets a traveller's document wait); the payload before and after normalisation is the same; a request
  (`solicitud_service`) that completes the trip is left out.
- Audit metadata, request context and the bound of the nightly verification are left out.
- Trips, accounts, rules: one trip, one account whose sessions are counted, one row a traveller plans; an instant is a
  number of hours and a day has a few of them; a place is a name with a city, a country and a zone; texts of the
  findings, currencies' rates and the forms are left out.
- Jobs and keys: tables and the encoding of a copy are one set of rows and one of objects; a key is a number.
- Recommendations: a page is a version number, a risk is the destination it is about, and fusion joins risks of two
  destinations; what the model writes is not looked at.
- The assistant: a parameter is a name, a refusal names one of them; prompts and answers are left out but for what
  `Grounding` makes of the latter: the readers of stubs and requests, names and currency, the city and country of the
  destination and passenger lists are not there.
- Each component's rows in `PROJECT.json` name what of it is left out.

## 7. Not modelled, and what is left

Not modelled, and why:

- *What the upload refuses* (size, type, duplicates by hash) and *downloads*: checks of one request on its own input.
- *OCR, the templates read by rules, names and amounts*: text processing; a model would be a transcription.
- *Settings and catalogue*: rows read at each use and seed data.
- *Search, reports, map*: calls to external services, read-only aggregation, drawing. The trip made from a
  search enters through the operations of `TripLifecycle` and `Itinerary`.
- *Web forms, API, CLI, metrics*: plumbing over the services; what a route does beyond calling one (commits of its
  own, checks before it) is in the action of that operation.
- *Assigning an alert, cost centres, notes, lists and filters*: columns nothing else reads.

Left, in the order of what they would add:

1. A request (`solicitud_service`) that completes the trip, beside `ExtractionReview`.
2. The composition of `AlertRules` with `AlertEngine`: the keys the rules give, reconciled while the itinerary moves. Today
   `AlertEngine` takes what the rules find as given, and `ClavesDistintas` is what it relies on.
