------------------------------ MODULE Accounts ------------------------------
(***************************************************************************)
(* The API users (src/llm_studio/admin.py), what their roles permit        *)
(* (src/llm_studio/auth) and how the middleware and the admin pages of     *)
(* api_server.py use both.                                                 *)
(*                                                                         *)
(* The users are kept in memory and written, all of them, to one JSON file *)
(* by every call that changes one.  The file is opened for writing before  *)
(* it is written, so the end of the process may leave it torn.  Keys and   *)
(* passwords are numbers, 0 is none; hashing is left out.                  *)
(***************************************************************************)
EXTENDS Integers, FiniteSets

CONSTANTS UserIds,        \* user ids, "admin" among them
          Passwords,      \* numbers of passwords that are long enough
          MaxKeys         \* bound on the keys made

ASSUME AccountAssumption == "admin" \in UserIds /\ Passwords \subseteq Nat \ {0}

VARIABLES accounts,       \* in memory: the users and the password
          file,           \* api_users.json
          keys,           \* keys made so far
          adminSession,   \* whether the admin page has a token in _admin_sessions
          up,             \* the process is running
          answered,       \* history: the accounts as answered calls left them
          cut             \* history: the ids of calls the process ended in

accountVars == <<accounts, file, keys, adminSession, up, answered, cut>>

Admin == "admin"
NoUser == [key |-> 0, role |-> "viewer", enabled |-> FALSE]
Empty == [users |-> [i \in UserIds |-> NoUser], password |-> 0]
NoAccounts == [users |-> "none"]
Torn == [users |-> "torn"]

Has(a, i) == a.users[i] # NoUser
Initialized == accounts.password # 0 /\ \E i \in UserIds : Has(accounts, i)

-----------------------------------------------------------------------------
(* Roles and permissions                                                   *)

Roles == {"viewer", "operator", "admin"}

(* normalize_role of a role that is given: "user" is the one of old files. *)
NormalRole(role) == CASE role = "user" -> "operator" [] role \in Roles -> role [] OTHER -> "viewer"

ViewPermissions == {"view_runtime", "view_models", "view_novels", "view_prompts", "view_context",
  "view_writing", "view_revisions", "view_datasets", "view_finetune", "view_adapter_evaluation",
  "view_memory", "view_evaluation"}
OperatorPermissions == ViewPermissions \union {"chat", "load_model", "unload_model", "manage_rag",
  "manage_novels", "manage_prompts", "manage_context", "manage_writing", "manage_revisions",
  "manage_datasets", "manage_finetune", "manage_adapter_evaluation", "manage_memory", "manage_evaluation"}
AllPermissions == OperatorPermissions \union {"manage_models", "manage_downloads", "manage_adapters",
  "run_benchmark", "manage_storage", "export_diagnostics", "manage_users", "delete_novels", "delete_prompts"}

PermissionsOf(role) ==
  CASE role = "viewer" -> ViewPermissions [] role = "operator" -> OperatorPermissions
    [] role = "admin" -> AllPermissions

(* required_permission_for_request by the area of a path and what follows  *)
(* it; "none" needs no more than a key.                                    *)
Studio == [novels |-> <<"view_novels", "manage_novels">>, prompts |-> <<"view_prompts", "manage_prompts">>,
  writing |-> <<"view_writing", "manage_writing">>, revisions |-> <<"view_revisions", "manage_revisions">>,
  datasets |-> <<"view_datasets", "manage_datasets">>, finetune |-> <<"view_finetune", "manage_finetune">>,
  adapter_evaluations |-> <<"view_adapter_evaluation", "manage_adapter_evaluation">>,
  memory |-> <<"view_memory", "manage_memory">>, evaluation |-> <<"view_evaluation", "manage_evaluation">>,
  context |-> <<"view_context", "manage_context">>]

Required(method, area, tail) ==
  LET get == method = "GET"
      deletes == area \in {"novels", "prompts"} /\ method = "DELETE"
      looks == get \/ (method = "POST" /\ (area = "context" \/ <<area, tail>> \in {<<"prompts", "render">>, <<"memory", "retrieve">>}))
      of == Studio[area]
  IN  CASE area \in {"runtime", "health", "version", "capabilities", "storage"} /\ get -> "view_runtime"
        [] area \in {"models", "jobs", "benchmarks"} /\ get -> "view_models"
        [] area = "vision" \/ (area = "chat" /\ method = "POST") -> "chat"
        [] area = "models" /\ method = "POST" /\ tail = "load" -> "load_model"
        [] area = "models" /\ method = "POST" /\ tail = "unload" -> "unload_model"
        [] area = "rag" -> IF get /\ tail = "status" THEN "view_models" ELSE "manage_rag"
        [] area = "models" /\ (method = "DELETE" \/ (method = "POST" /\ tail \in {"scan", "register"})) -> "manage_models"
        [] area = "downloads" -> IF get THEN "view_models" ELSE "manage_downloads"
        [] area = "adapters" /\ get -> "view_models"
        [] area = "adapters" /\ ~get ->
             IF tail \in {"load", "activate", "deactivate", "unload"} THEN "load_model" ELSE "manage_adapters"
        [] area = "benchmarks" /\ ~get -> "run_benchmark"
        [] area = "storage" /\ method = "POST" /\ tail = "cleanup" -> "manage_storage"
        [] area = "diagnostics" -> IF method = "POST" /\ tail = "export" THEN "export_diagnostics" ELSE "view_runtime"
        [] area = "jobs" /\ method = "POST" /\ tail = "cancel" -> "manage_storage"
        [] area = "auth" -> "none"
        [] deletes -> IF area = "novels" THEN "delete_novels" ELSE "delete_prompts"
        [] area \in DOMAIN Studio /\ ~deletes -> IF looks THEN of[1] ELSE of[2]
        [] OTHER -> "manage_users"

-----------------------------------------------------------------------------
(* The middleware: who a key is of, and whether the request passes         *)

Holders(key) == {i \in UserIds : Has(accounts, i) /\ accounts.users[i].key = key}

Dispatch(key, request) ==
  LET enabled == {i \in Holders(key) : accounts.users[i].enabled}
      permitted == \E i \in enabled : Required(request[1], request[2], request[3])
                                        \in PermissionsOf(accounts.users[i].role) \union {"none"}
  IN  CASE Holders(key) = {} -> "AUTH_INVALID_API_KEY"
        [] Holders(key) # {} /\ enabled = {} -> "AUTH_USER_DISABLED"
        [] permitted -> "passes"
        [] enabled # {} /\ ~permitted -> "PERMISSION_DENIED"

-----------------------------------------------------------------------------
(* The calls.  A call changes the accounts and saves them; the process may *)
(* end before, in or after the write, and then nobody has the answer.      *)

MutSave(changed) == file' \in {file, changed}
Save(changed) == file' = changed

Call(i, changed) ==
  \/ /\ accounts' = changed /\ answered' = changed
     /\ Save(changed)
     /\ UNCHANGED <<adminSession, up, cut>>
  \/ /\ file' \in {file, Torn, changed}
     /\ up' = FALSE /\ adminSession' = FALSE
     /\ cut' = cut \union {i}
     /\ UNCHANGED <<accounts, answered>>

AdminCall == up /\ adminSession
NewKey == keys < MaxKeys /\ keys' = keys + 1
WithUser(i, user) == [accounts EXCEPT !.users[i] = user]

Initialize(p) ==
  /\ up /\ ~Initialized /\ NewKey
  /\ Call(Admin, [WithUser(Admin, [key |-> keys + 1, role |-> "admin", enabled |-> TRUE])
                    EXCEPT !.password = p])

(* With the password; before the setup there is none, the stored secret is *)
(* empty and so is the password that matches it.                           *)
Login == up /\ adminSession' = TRUE /\ UNCHANGED <<accounts, file, keys, up, answered, cut>>
Logout == up /\ adminSession' = FALSE /\ UNCHANGED <<accounts, file, keys, up, answered, cut>>

CreateUser(i, role) ==
  /\ AdminCall /\ ~Has(accounts, i) /\ NewKey
  /\ Call(i, WithUser(i, [key |-> keys + 1, role |-> NormalRole(role), enabled |-> TRUE]))

DeleteUser(i) == AdminCall /\ Has(accounts, i) /\ Call(i, WithUser(i, NoUser)) /\ UNCHANGED keys

ToggleUser(i) ==
  /\ AdminCall /\ Has(accounts, i)
  /\ Call(i, [accounts EXCEPT !.users[i].enabled = ~@])
  /\ UNCHANGED keys

UpdateUser(i, role) ==
  /\ AdminCall /\ Has(accounts, i)
  /\ Call(i, [accounts EXCEPT !.users[i].role = NormalRole(role)])
  /\ UNCHANGED keys

(* Also for an API key whose user is an admin.                             *)
RegenerateKey(i) ==
  /\ up /\ (adminSession \/ \E a \in UserIds : Has(accounts, a) /\ accounts.users[a].role = "admin"
                                        /\ accounts.users[a].enabled)
  /\ Has(accounts, i) /\ NewKey
  /\ Call(i, [accounts EXCEPT !.users[i].key = keys + 1])

ChangeAdminPassword(p) ==
  AdminCall /\ Call(Admin, [accounts EXCEPT !.password = p]) /\ UNCHANGED keys

(* load: a torn file is an error; any other one is written again.          *)
Start ==
  /\ ~up /\ file # Torn
  /\ \/ /\ accounts' = IF file = NoAccounts THEN Empty ELSE file
        /\ up' = TRUE
        /\ UNCHANGED file
     \/ /\ file # NoAccounts /\ file' = Torn
        /\ UNCHANGED <<accounts, up>>
  /\ UNCHANGED <<keys, adminSession, answered, cut>>

Stop == up /\ up' = FALSE /\ adminSession' = FALSE /\ UNCHANGED <<accounts, file, keys, answered, cut>>

AccountInit ==
  /\ accounts = Empty /\ file = NoAccounts /\ keys = 0
  /\ adminSession = FALSE /\ up = TRUE /\ answered = Empty /\ cut = {}

AccountNext ==
  \/ Login \/ Logout \/ Start \/ Stop
  \/ \E p \in Passwords : Initialize(p) \/ ChangeAdminPassword(p)
  \/ \E i \in UserIds :
       \/ DeleteUser(i) \/ ToggleUser(i) \/ RegenerateKey(i)
       \/ \E role \in Roles \union {"user", "none"} : CreateUser(i, role) \/ UpdateUser(i, role)

AccountSpec == AccountInit /\ [][AccountNext]_accountVars

-----------------------------------------------------------------------------
Requests == {"GET", "POST", "DELETE"} \X
  (DOMAIN Studio \union {"runtime", "models", "jobs", "chat", "rag", "downloads", "adapters", "diagnostics", "auth"})
  \X {"", "load", "cancel", "render", "export", "retrieve"}

(* A key opens what the last answered call on its user lets it open, after *)
(* any number of ends and starts of the process, unless a call on that     *)
(* user was cut off; a key that was replaced or whose user is gone or      *)
(* disabled opens nothing; an enabled admin may make every request.        *)
KeysOpenWhatWasAnswered ==
  up => /\ \A i \in UserIds \ cut : accounts.users[i] = answered.users[i]
        /\ Admin \notin cut => accounts.password = answered.password
        /\ \A key \in 1..keys :
             LET given == \E j \in UserIds : answered.users[j].key = key /\ answered.users[j].enabled
             IN  (cut = {} /\ ~given) => Dispatch(key, <<"GET", "auth", "">>) # "passes"
        /\ \A i \in UserIds : accounts.users[i].enabled /\ accounts.users[i].role = "admin" =>
             \A request \in Requests : Dispatch(accounts.users[i].key, request) = "passes"
=============================================================================
