------------------------------ MODULE Process ------------------------------
(* The server process as its requests see it: the settings it read once    *)
(* from its environment and the container built from them.  An edited      *)
(* environment takes effect with the next process only.                    *)
EXTENDS Naturals

CONSTANTS
    None,       \* Python's None
    Secrets,    \* values the operator gives JWT_SECRET
    Lifetimes   \* values the operator gives JWT_EXPIRE_MINUTES

Settings == [jwt_secret : Secrets, jwt_expire_minutes : Lifetimes]

ASSUME LifetimesAssumption  == Lifetimes \subseteq Nat
ASSUME NoSettingsAssumption == None \notin Settings

VARIABLES
    settings,   \* _settings of config.py
    container   \* _container of container.py, by its configuration

processVars == <<settings, container>>

Serving == container # None

ProcessTypeOK ==
    /\ settings \in Settings \cup {None}
    /\ container \in Settings \cup {None}

ProcessInit == settings = None /\ container = None

(* get_settings: the environment is read on the first call.                *)
GetSettings(environ) == IF settings = None THEN environ ELSE settings

(* create_container, called by init_container.                             *)
CreateContainer(environ) ==
    /\ settings' = GetSettings(environ)
    /\ container' = settings'

(* lifespan up to its yield, in a process of whatever environment.         *)
Start ==
    /\ ~Serving
    /\ \E environ \in Settings : CreateContainer(environ)

(* The end of the process, after the yield of lifespan or killed.          *)
Stop ==
    /\ Serving
    /\ settings' = None
    /\ container' = None

(* The jwt_service of the container.                                       *)
SignedByUs(secret) == secret = container.jwt_secret
ExpiryFrom(time)   == time + container.jwt_expire_minutes
=============================================================================
